---------------------------- MODULE ArcBackends -----------------------------
(***************************************************************************)
(* execute_arc of the pre-swap backends of src/paraswap_lifecycle.py: one  *)
(* thread per arc that starts a native server and a native client, waits   *)
(* for them under timeouts, checks what they leave, and answers.           *)
(*   native  NativePreSigningBackend                                       *)
(*   oasis   OasisLinearBackend, then OasisConformanceBackend              *)
(*   double  any other PreSigningBackend, such as the tests' doubles       *)
(***************************************************************************)
EXTENDS Integers

CONSTANT N   \* participants, and arcs

ASSUME ParticipantsAssumption == N \in Nat /\ N >= 3

Arc == 0 .. N - 1

VARIABLES backend,
          fault,     \* the injected fault of the run; those of a backend hit arc 0
          threads,   \* the thread of each arc and its two processes
          results    \* what each arc answered

\* A backend accepts; or accepts but for the wrong batch, preparation or
\* transport; or rejects, times out or raises.
Answer == {"accepted", "malformed", "failed"}

Retrying == {"opening-retry", "partial-retry", "client-partial-retry"}

\* Lifecycle.__init__ refuses the other faults of a backend.
Faults(b) == {"none", "peer-abort", "witness"} \cup
    CASE b = "native" -> {"preswap", "invalid-final"}
      [] b = "oasis"  -> Retrying
      [] b = "double" -> {"preswap", "invalid-final"}

Stage == {"new", "ready", "client", "server", "sample", "conform", "finally", "done"}
Alive == {"starting", "bound"}
Process == Alive \cup {"none", "ok", "bad"}

ThreadState ==
    [at : Stage, server : Process, client : Process, retries : {0, 1}, verdict : {"accepted", "failed"}]

\* The type invariant of the threads.
ThreadsType ==
    /\ backend \in {"native", "oasis", "double"} /\ fault \in Faults(backend)
    /\ threads \in [Arc -> ThreadState]
    /\ results \in [Arc -> Answer \cup {"none"}]

ThreadsInit ==
    /\ backend \in {"native", "oasis", "double"} /\ fault \in Faults(backend)
    /\ threads = [a \in Arc |-> [at |-> "new", server |-> "none", client |-> "none",
                                 retries |-> 0, verdict |-> "failed"]]
    /\ results = [a \in Arc |-> "none"]

At(a, b, stage) == backend = b /\ threads[a].at = stage
Hit(a, kinds) == a = 0 /\ fault \in kinds
End(status) == IF status \in Alive THEN "bad" ELSE status

\* The end of a thread, whose local variables are gone; and one that has ended
\* its processes before: one that was still up is killed and waited for.
Over(t) == [t EXCEPT !.at = "done", !.retries = 0, !.verdict = "failed"]
Reaped(t) == [t EXCEPT !.server = End(t.server), !.client = End(t.client)]

Moves(a, t) == threads' = [threads EXCEPT ![a] = t] /\ UNCHANGED results
Answers(a, t, answer) ==
    /\ threads' = [threads EXCEPT ![a] = t]
    /\ results' = [results EXCEPT ![a] = answer]

Goto(a, stage) == Moves(a, [threads[a] EXCEPT !.at = stage])

\* execute_arc returns.
Return(a, answer) == Answers(a, Over(Reaped(threads[a])), answer)

\* execute_arc raises: the driver answers for it, and nobody ends the server.
Raise(a) == Answers(a, Over(threads[a]), "failed")

\* The oasis thread leaves the try block: its finally clause ends the server.
Leave(a, verdict) ==
    Moves(a, [threads[a] EXCEPT !.at = "finally", !.client = End(threads[a].client),
                                !.retries = 0, !.verdict = verdict])

-----------------------------------------------------------------------------
PeerAbort(a) ==
    /\ threads[a].at = "new" /\ backend # "double" /\ Hit(a, {"peer-abort"})
    /\ Return(a, "failed")

\* A process was started, or the start raises.
Started(a) == Moves(a, [threads[a] EXCEPT !.at = "ready", !.server = "starting"])
ClientStarted(a) == Moves(a, [threads[a] EXCEPT !.at = "client", !.client = "bound"])

NativeStart(a) == At(a, "native", "new") /\ ~ Hit(a, {"peer-abort"}) /\ (Started(a) \/ Raise(a))

\* The loop until the server's socket exists, then the start of the client: an
\* error of that start is no TimeoutExpired and no ValueError.
NativeReady(a) ==
    /\ At(a, "native", "ready")
    /\ \/ threads[a].server # "starting" /\ (ClientStarted(a) \/ Raise(a))
       \/ threads[a].server # "bound" /\ Return(a, "failed")

\* The client exited, or the timeout of subprocess.run kills it.
NativeClient(a) ==
    /\ At(a, "native", "client")
    /\ IF threads[a].client = "ok" THEN Goto(a, "server") ELSE Return(a, "failed")

\* The lines that _parse_client and _parse_server insist on.
ClientLines == {"RESULT", "CRYPTO_RESULT", "VERIFIER_RESULT"}
ServerLines == {"SERVER_RESULT", "SERVER_VERIFIER_RESULT"}

\* Mutant: the server's return code is not looked at.
NativeServerUnchecked(a) ==
    /\ At(a, "native", "server")
    /\ \/ threads[a].server \notin Alive /\ Return(a, "accepted")
       \/ Return(a, "failed")

\* server.communicate: the server exited, or the timeout kills it; then what
\* the two printed is parsed, and an incomplete output raises ValueError.
NativeServer(a) ==
    /\ At(a, "native", "server")
    /\ \/ /\ threads[a].server = "ok"
          /\ \E printed \in SUBSET (ClientLines \cup ServerLines) :
                Return(a, IF ClientLines \cup ServerLines \subseteq printed THEN "accepted" ELSE "failed")
       \/ threads[a].server # "ok" /\ Return(a, "failed")
-----------------------------------------------------------------------------
OasisStart(a) == At(a, "oasis", "new") /\ ~ Hit(a, {"peer-abort"}) /\ (Started(a) \/ Raise(a))

\* The loop until the port listens: the server's end is looked at first.
OasisReady(a) ==
    /\ At(a, "oasis", "ready")
    /\ \/ threads[a].server = "bound" /\ ClientStarted(a)
       \/ Leave(a, "failed")

OasisClient(a) ==
    /\ At(a, "oasis", "client")
    /\ IF threads[a].client = "ok" THEN Goto(a, "sample") ELSE Leave(a, "failed")

\* What the client wrote is checked: one sample, without a failed pair.
CheckSample(a) ==
    /\ At(a, "oasis", "sample")
    /\ \/ \E retries \in IF Hit(a, Retrying) THEN {1} ELSE {0, 1} :
             Moves(a, [threads[a] EXCEPT !.at = "conform", !.retries = retries])
       \/ Leave(a, "failed")

\* The conformance run on the same context: its own retries must be those of
\* the transport, but for a fault that only the transport's client injects.
Conform(a) ==
    /\ At(a, "oasis", "conform")
    /\ \/ LET retries == IF Hit(a, {"opening-retry", "partial-retry"}) THEN 1 ELSE 0
              expected == IF Hit(a, {"client-partial-retry"}) THEN 1 ELSE retries
          IN threads[a].retries = expected /\ Leave(a, "accepted")
       \/ Leave(a, "failed")

\* Mutant: the finally clause leaves a server that is still up.
FinallyUnended(a) ==
    /\ At(a, "oasis", "finally")
    /\ Answers(a, Over(threads[a]), threads[a].verdict)

Finally(a) == At(a, "oasis", "finally") /\ Return(a, threads[a].verdict)

Double(a) ==
    /\ At(a, "double", "new")
    /\ \E answer \in IF Hit(a, {"preswap", "invalid-final", "peer-abort"}) THEN {"failed"} ELSE Answer :
          Return(a, answer)

Thread(a) ==
    \/ PeerAbort(a) \/ NativeStart(a) \/ NativeReady(a) \/ NativeClient(a) \/ NativeServer(a)
    \/ OasisStart(a) \/ OasisReady(a) \/ OasisClient(a) \/ CheckSample(a) \/ Conform(a) \/ Finally(a)
    \/ Double(a)
-----------------------------------------------------------------------------
\* The native processes; the oasis server serves until ended. A native client
\* ends well on a DONE, sent when its final was verified; here the two exits are
\* not tied together, which allows more than the programs do.
ServerStep(a) ==
    /\ threads[a].server \in Alive
    /\ \E status \in {"bound", "ok", "bad"} \ {threads[a].server} :
          /\ status = "ok" => backend = "native" /\ threads[a].client # "none"
                              /\ ~ Hit(a, {"invalid-final"})
          /\ Moves(a, [threads[a] EXCEPT !.server = status])

ClientStep(a) ==
    /\ threads[a].client \in Alive
    /\ \E status \in {"ok", "bad"} :
          /\ status = "ok" => threads[a].server \notin {"none", "starting"} /\ ~ Hit(a, {"preswap"})
          /\ Moves(a, [threads[a] EXCEPT !.client = status])

Peers(a) == (ServerStep(a) \/ ClientStep(a)) /\ UNCHANGED <<backend, fault>>
=============================================================================
