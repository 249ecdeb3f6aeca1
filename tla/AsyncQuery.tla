------------------------------- MODULE AsyncQuery -------------------------------
(***************************************************************************)
(* nodejs/mysql/async-test: a script that asks a MySQL server one query by *)
(* way of a pool and leaves in the callbacks.  Several runs of the script  *)
(* share the server, which holds a limited number of sessions.  The pool   *)
(* and the server are the environment.                                     *)
(***************************************************************************)
EXTENDS Naturals, FiniteSets

CONSTANTS
  Runs,        \* the processes that run the script
  MaxSessions  \* the sessions the server holds at once

VARIABLES
  at,        \* per run: "new", "connecting", "querying", "ending", "exited"
  code,      \* per run: the exit code, 0 or 1 (2: none yet)
  printed,   \* per run: what was printed
  sessions,  \* the runs the server holds a session for
  answer     \* per run: what the server said: "none", "rows", "error", "lost"

vars == <<at, code, printed, sessions, answer>>

Prints(r, what) == printed' = [printed EXCEPT ![r] = @ \cup what]
Exit(r, c) == /\ at' = [at EXCEPT ![r] = "exited"]
              /\ code' = [code EXCEPT ![r] = c]

--------------------------------------------------------------------------------
(* The script. *)

\* pool.query finds no connection and opens the first of at most ten.
Query(r) ==
  /\ at[r] = "new"
  /\ at' = [at EXCEPT ![r] = "connecting"]
  /\ Prints(r, {"query"})
  /\ UNCHANGED <<code, sessions, answer>>

\* The callback with an error throws, which ends the process; nobody ends the
\* pool.
Throw(r) == Prints(r, {"error"}) /\ Exit(r, 1)

\* The error is printed and the callback goes on as if there were results.
NoThrow(r) ==
  /\ Prints(r, {"error", "results"})
  /\ at' = [at EXCEPT ![r] = "ending"]
  /\ UNCHANGED code
QueryFails(r) == Throw(r)

\* The callback with results prints them and ends the pool.
QuerySucceeds(r) ==
  /\ Prints(r, {"results"})
  /\ at' = [at EXCEPT ![r] = "ending"]
  /\ UNCHANGED code

QueryCallback(r) ==
  /\ at[r] = "querying"
  /\ answer[r] # "none"
  /\ IF answer[r] = "rows" THEN QuerySucceeds(r) ELSE QueryFails(r)
  /\ UNCHANGED <<sessions, answer>>

\* The pool calls back once: the connection has ended, or could not.
ExitOnSuccess(r, failed) ==
  /\ at[r] = "ending"
  /\ IF failed
     THEN Prints(r, {"endError"}) /\ at' = [at EXCEPT ![r] = "ended"] /\ UNCHANGED code
     ELSE UNCHANGED printed /\ Exit(r, 0)
  /\ UNCHANGED <<sessions, answer>>
EndCallback(r, failed) ==
  /\ at[r] = "ending"
  /\ Prints(r, IF failed THEN {"endError"} ELSE {})
  /\ Exit(r, 0)
  /\ UNCHANGED <<sessions, answer>>

--------------------------------------------------------------------------------
(* The pool and the server. *)

Connected(r) ==
  /\ at[r] = "connecting"
  /\ Cardinality(sessions) < MaxSessions
  /\ sessions' = sessions \cup {r}
  /\ at' = [at EXCEPT ![r] = "querying"]
  /\ UNCHANGED <<code, printed, answer>>

\* Refused: too many sessions, no server, or no answer in time.
Refused(r) ==
  /\ at[r] = "connecting"
  /\ QueryFails(r)
  /\ UNCHANGED <<sessions, answer>>

Answers(r) ==
  /\ at[r] = "querying"
  /\ r \in sessions
  /\ answer[r] = "none"
  /\ \E a \in {"rows", "error"} : answer' = [answer EXCEPT ![r] = a]
  /\ UNCHANGED <<at, code, printed, sessions>>

\* The connection is lost; an answer that is there already is still read.
Lost(r) ==
  /\ r \in sessions
  /\ sessions' = sessions \ {r}
  /\ answer' = [answer EXCEPT ![r] = IF @ = "none" THEN "lost" ELSE @]
  /\ UNCHANGED <<at, code, printed>>

\* The server closes the session of a process that quits or is no more.
Closes(r) ==
  /\ r \in sessions
  /\ at[r] \in {"ending", "exited"}
  /\ sessions' = sessions \ {r}
  /\ UNCHANGED <<at, code, printed, answer>>

--------------------------------------------------------------------------------

Init ==
  /\ at = [r \in Runs |-> "new"]
  /\ code = [r \in Runs |-> 2]
  /\ printed = [r \in Runs |-> {}]
  /\ sessions = {}
  /\ answer = [r \in Runs |-> "none"]

Script(r) == Query(r) \/ QueryCallback(r) \/ \E failed \in BOOLEAN : EndCallback(r, failed)
Server(r) == Connected(r) \/ Refused(r) \/ Answers(r) \/ Lost(r) \/ Closes(r)
Next == \E r \in Runs : Script(r) \/ Server(r)

Spec == Init /\ [][Next]_vars

\* The event loop calls what is due; the server answers a connection attempt, a
\* query and a closed socket in the end.
Fairness(r) ==
  /\ WF_vars(Script(r))
  /\ WF_vars(Connected(r) \/ Refused(r))
  /\ WF_vars(Answers(r))
  /\ WF_vars(Closes(r))

--------------------------------------------------------------------------------
(* Properties *)

\* The runs and the server keep their types.
TypeOK ==
  /\ at \in [Runs -> {"new", "connecting", "querying", "ending", "exited"}]
  /\ code \in [Runs -> {0, 1, 2}]
  /\ printed \in [Runs -> SUBSET {"query", "results", "error", "endError"}]
  /\ sessions \subseteq Runs
  /\ answer \in [Runs -> {"none", "rows", "error", "lost"}]

\* The exit code can be relied on: 0 exactly when the results were printed and
\* the script has ended, whatever became of the connection since; a run that
\* printed an error of the query ends with 1 and has printed no results.
CodeTellsResult ==
  \A r \in Runs :
    /\ code[r] = 0 => "results" \in printed[r] /\ "error" \notin printed[r]
    /\ code[r] = 1 => "error" \in printed[r] /\ "results" \notin printed[r]
    /\ code[r] = 2 <=> at[r] # "exited"

\* The script leaves neither path hanging: as long as the server reacts, every
\* run exits, though the pool keeps a connection open and nothing limits the
\* time of the query.
EveryRunExits == \A r \in Runs : <>(at[r] = "exited")

================================================================================
