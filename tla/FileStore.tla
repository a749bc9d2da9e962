------------------------------- MODULE FileStore -------------------------------
(* What a chunk store promises its callers: a map from file ids to contents, on *)
(* which every call takes effect at one instant between its invocation and its  *)
(* return, and which a crash leaves as it is. Chunks, reference counts, indexes *)
(* and garbage collection must not be visible at this level.                    *)
EXTENDS Sequences

CONSTANTS Threads, Files, EmptyIds, Contents, None

VARIABLES
  files,   \* [Files -> Contents \cup {None}]
  req      \* [Threads -> the call in progress, or the last one and its result]

Requests == [op : {"none", "ingest", "delete", "read", "repair"}, file : Files \cup {None},
             phase : {"called", "answered"}, result : {"none", "ok", "err"},
             content : Contents \cup {<<>>}]

NoRequest == [op |-> "none", file |-> None, phase |-> "answered",
              result |-> "none", content |-> <<>>]

FSTypeOK == /\ files \in [Files -> Contents \cup {None}]
            /\ req \in [Threads -> Requests]

FSInit == /\ files = [f \in Files |-> None]
          /\ req = [t \in Threads |-> NoRequest]

Invoke(t) ==
  /\ req[t].phase = "answered"
  /\ \E op \in {"ingest", "delete", "read", "repair"} :
     \E f \in Files \cup {None}, c \in Contents \cup {<<>>} :
       req' = [req EXCEPT ![t] = [NoRequest EXCEPT !.op = op, !.file = f,
                                                   !.phase = "called", !.content = c]]
  /\ UNCHANGED files

\* The instant at which a call is answered, with the content a read returns.
Answer(t, res, c) ==
  /\ req[t].phase = "called"
  /\ req' = [req EXCEPT ![t].phase = "answered", ![t].result = res, ![t].content = c]

Ingested(t) ==
  /\ req[t].op = "ingest" /\ req[t].file \notin EmptyIds
  /\ files' = [files EXCEPT ![req[t].file] = req[t].content]
  /\ Answer(t, "ok", <<>>)

Deleted(t) ==
  /\ req[t].op = "delete" /\ files[req[t].file] # None
  /\ files' = [files EXCEPT ![req[t].file] = None]
  /\ Answer(t, "ok", <<>>)

ReadBack(t) ==
  /\ req[t].op = "read" /\ files[req[t].file] # None
  /\ Answer(t, "ok", files[req[t].file])
  /\ UNCHANGED files

Repaired(t) ==
  /\ req[t].op = "repair"
  /\ Answer(t, "ok", <<>>)
  /\ UNCHANGED files

\* The only errors: no id to write under, no such file.
Refused(t) ==
  /\ \/ req[t].op = "ingest" /\ req[t].file \in EmptyIds
     \/ req[t].op \in {"delete", "read"} /\ files[req[t].file] = None
  /\ Answer(t, "err", <<>>)
  /\ UNCHANGED files

\* A crash forgets the calls; what they had done by then stays done.
FSCrash == /\ req' = [t \in Threads |-> NoRequest]
           /\ UNCHANGED files

FSNext ==
  \/ \E t \in Threads : Invoke(t) \/ Ingested(t) \/ Deleted(t) \/ ReadBack(t)
                        \/ Repaired(t) \/ Refused(t)
  \/ FSCrash

FSStep == [FSNext]_<<files, req>>

FSSpec == FSInit /\ [][FSStep]_<<files, req>>
===============================================================================
