---------------------------- MODULE GithubStore ----------------------------
(***************************************************************************)
(* The repository as a database (lib/github_db.js), which the serverless   *)
(* API uses when neither Postgres nor KV is configured: a file of records  *)
(* is read whole, changed and written whole against the sha it has just    *)
(* been asked for.  One request at a time per instance.  A save that lands *)
(* between another's read and its sha is written over (WrittenIsShared).   *)
(***************************************************************************)
EXTENDS Naturals

CONSTANTS
    None, Instances,
    Files,          \* "properties", which is remembered for CACHE_TTL, and "balances"
    Keys,
    MaxSaves, MaxFaults

VARIABLES
    file,           \* file -> [sha, data]: what the branch holds; 0 is no record
    githubCache,    \* instance -> [data, fresh] of "properties", or None
    op,             \* instance -> the save it is doing
    saved,          \* file -> key -> the value of the last save of it that landed (history)
    saves, faults

githubVars == <<file, githubCache, op, saved, saves, faults>>

Idle == [pc |-> "idle"]
Nothing == [k \in Keys |-> 0]
GithubInit ==
    /\ file = [f \in Files |-> [sha |-> 1, data |-> [k \in Keys |-> 1]]] /\ githubCache = [i \in Instances |-> None]
    /\ op = [i \in Instances |-> Idle] /\ saved = [f \in Files |-> [k \in Keys |-> 1]]
    /\ saves = 1 /\ faults = 0

Remembers(i, f) == IF f # "properties" \/ githubCache[i] = None THEN FALSE ELSE githubCache[i].fresh
Goes(i, r) == op' = [op EXCEPT ![i] = r]
\* current[assetId] = property: what was read is changed in place, and it is what
\* the instance remembers.
Based(o, data) == [o EXCEPT !.pc = "sha", !.current = [data EXCEPT ![o.key] = saves + 1]]
Remember(i, f, data) ==
    githubCache' = IF f = "properties" THEN [githubCache EXCEPT ![i] = [data |-> data, fresh |-> TRUE]] ELSE githubCache
Begins(i, o, data) == saves' = saves + 1 /\ Goes(i, Based(o, data))

\* saveProperty, saveBalance, saveTransfer
Save(i, f, k) ==
    /\ op[i] = Idle /\ saves <= MaxSaves /\ UNCHANGED <<file, saved, faults>>
    /\ LET o == [pc |-> "read", file |-> f, key |-> k, current |-> Nothing, sha |-> 0, attempt |-> 0]
           c == githubCache[i] IN
       IF Remembers(i, f) THEN Begins(i, o, c.data) /\ Remember(i, f, Based(o, c.data).current)
       ELSE Goes(i, o) /\ UNCHANGED <<githubCache, saves>>

\* fetchFromGitHubRaw: a read that fails is a file without records.
Read(i) ==
    /\ op[i].pc = "read" /\ UNCHANGED <<file, saved>>
    /\ LET o == op[i]  now == file[o.file] IN
       \/ Begins(i, o, now.data) /\ Remember(i, o.file, Based(o, now.data).current) /\ UNCHANGED faults
       \/ Begins(i, o, Nothing) /\ faults < MaxFaults /\ faults' = faults + 1 /\ UNCHANGED githubCache
getGitHubFileSHA(i) ==
    /\ op[i].pc = "sha" /\ UNCHANGED <<file, githubCache, saved, saves>>
    /\ \/ Goes(i, [op[i] EXCEPT !.pc = "put", !.sha = file[op[i].file].sha]) /\ UNCHANGED faults
       \/ Goes(i, [op[i] EXCEPT !.pc = "put", !.sha = 0]) /\ faults < MaxFaults /\ faults' = faults + 1

Accepts(o) == o.sha = file[o.file].sha
\* A refused sha is asked for again, twice; the content is the same.
Put(i) ==
    /\ op[i].pc = "put" /\ UNCHANGED saves
    /\ LET o == op[i] IN
       \/ /\ Accepts(o) /\ file' = [file EXCEPT ![o.file] = [sha |-> @.sha + 1, data |-> o.current]]
          /\ Goes(i, Idle) /\ saved' = [saved EXCEPT ![o.file][o.key] = o.current[o.key]]
          /\ \/ Remember(i, o.file, o.current) /\ UNCHANGED faults
             \/ faults < MaxFaults /\ faults' = faults + 1 /\ UNCHANGED githubCache \* the answer is lost
       \/ /\ ~Accepts(o) /\ UNCHANGED <<file, githubCache, saved, faults>>
          /\ IF o.sha # 0 /\ o.attempt < 2 THEN Goes(i, [o EXCEPT !.pc = "sha", !.attempt = @ + 1]) ELSE Goes(i, Idle)
\* CACHE_TTL passes.
Expire(i) ==
    /\ Remembers(i, "properties") /\ githubCache' = [githubCache EXCEPT ![i].fresh = FALSE]
    /\ UNCHANGED <<file, op, saved, saves, faults>>

GithubNext ==
    \E i \in Instances : Read(i) \/ getGitHubFileSHA(i) \/ Put(i) \/ Expire(i) \/ \E f \in Files, k \in Keys : Save(i, f, k)
GithubSpec == GithubInit /\ [][GithubNext]_githubVars

----------------------------------------------------------------------------
Kept == \A f \in Files, k \in Keys : file[f].data[k] >= saved[f][k]

\* "This fixes property vanishes on refresh": what one instance has written to the
\* shared file stays there, without any failure.  (saveToGitHub, its retry on 409)
WrittenIsShared == faults = 0 => Kept
=============================================================================
