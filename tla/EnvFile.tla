------------------------------- MODULE EnvFile -------------------------------
(***************************************************************************)
(* --env-file: files of KEY=value lines are applied to the environment.    *)
(* An environment is a function from the names that are set to values; a   *)
(* name set to the empty value is set.  A file is a sequence of lines, a   *)
(* line a pair of a name and a value, or Bad when it is not KEY=value.     *)
(***************************************************************************)
EXTENDS Integers, Sequences, FiniteSetsExt

CONSTANT Bad     \* a line without "=", or with an impossible name

\* Parse: comments and blank lines are not in the model.
Parses(file) == \A i \in DOMAIN file : file[i] # Bad

\* The entry of a name, in the list merge builds.
Entry(out, name) == {i \in DOMAIN out : out[i][1] = name}

\* Mutant: the first value of a name stays.
Put_FirstWins(preset, out, kv) ==
  IF kv[1] \in preset \/ Entry(out, kv[1]) # {} THEN out ELSE Append(out, kv)

\* One step of merge: a name the environment has is skipped, one seen before gets
\* the new value in its old place.
Put(preset, out, kv) ==
  CASE kv[1] \in preset             -> out
    [] Entry(out, kv[1]) # {}       -> [out EXCEPT ![CHOOSE i \in Entry(out, kv[1]) : TRUE] = kv]
    [] OTHER                        -> Append(out, kv)

\* A file, line by line; then one file after another.
MergeFile(preset, out, file) ==
  LET merged[k \in 0..Len(file)] ==
        IF k = 0 THEN out ELSE Put(preset, merged[k - 1], file[k])
  IN merged[Len(file)]

Merge(preset, files) ==
  LET merged[i \in 0..Len(files)] ==
        IF i = 0 THEN <<>> ELSE MergeFile(preset, merged[i - 1], files[i])
  IN merged[Len(files)]

\* os.Setenv.
Set(env, kv) == [n \in DOMAIN env \cup {kv[1]} |-> IF n = kv[1] THEN kv[2] ELSE env[n]]

\* Load's last loop, in the order of the list.
Apply(env, kvs) ==
  LET applied[k \in 0..Len(kvs)] == IF k = 0 THEN env ELSE Set(applied[k - 1], kvs[k])
  IN applied[Len(kvs)]
=============================================================================
