---------------------------- MODULE ProofRequest ----------------------------
(***************************************************************************)
(* A request for the proof data of several chains, from the call to its    *)
(* return: get_proof_data_exec, _prove, _prove_sdk and _prove_boundless of *)
(* malda_rs/viewcalls.rs, with the loop of the guest's main.               *)
(*                                                                         *)
(* One task per chain gathers that chain's chunk of the guest's input      *)
(* (ProofInput is one such task); the guest then runs in this process, on  *)
(* Bonsai, or at a prover of the Boundless market.  Any of them may fail   *)
(* or never answer, and any call over the network may never return: the    *)
(* code sets no timeout on one.                                            *)
(***************************************************************************)
EXTENDS ChainParams, Sequences, FiniteSets

\* A request: its kind, the chain of every slot, and for every slot how many
\* users, markets and target chains are asked for.
CONSTANT Requests

Kinds == {"exec", "prove", "sdk", "boundless"}

ASSUME RequestsAssumption ==
    \A r \in Requests :
        /\ r.kind \in Kinds /\ r.chain_ids \in Seq(Nat)
        /\ r.users \in Seq(Nat) /\ r.markets \in Seq(Nat) /\ r.target_chain_ids \in Seq(Nat)

VARIABLES
    req,      \* the request served
    step,     \* what the host does next; "ended" when it has returned, "hung"
              \* when it awaits a call that never returns
    task,     \* task[s]: the task that gathers slot s, which may hang as well
    input,    \* what the guest has still to read: chains announced, chunks
    guest,    \* the run of the guest program
    output,   \* main's output: the queries answered so far
    remote,   \* the Bonsai session, then the SNARK session, or the market's request
    expired,  \* has the market's request run out of time?
    outcome,  \* what the caller got
    journal   \* the journal it got

guestVars == <<input, guest, output>>
hostVars  == <<step, remote, outcome, journal>>
vars == <<req, task, expired, guestVars, hostVars>>

Slots == 1..Len(req.chain_ids)

NoInput == [count |-> 0, chunks |-> {}]

\* The queries of a slot: the three lists are zipped, up to the shortest one.
Queries(s) ==
    {<<s, j>> : j \in 1..req.users[s] \cap 1..req.markets[s] \cap 1..req.target_chain_ids[s]}

Init ==
    /\ req \in Requests
    /\ step = IF req.kind = "boundless" THEN "connect" ELSE "spawn"
    /\ task = [s \in Slots |-> "none"]
    /\ input = NoInput /\ guest = "idle" /\ output = {}
    /\ remote = "none" /\ expired = FALSE
    /\ outcome = "none" /\ journal = {}

------------------------------------------------------------------------------
(* How a call ends.                                                         *)
Return(o) ==
    /\ step' = "ended" /\ outcome' = o
    /\ UNCHANGED <<remote, journal>>

Deliver ==
    /\ step' = "ended" /\ outcome' = "ok" /\ journal' = output
    /\ UNCHANGED remote

PanicThrough == Return("panic")   \* mutant

\* A panic reaches the caller, but not out of the blocking task of prove and
\* prove_sdk, where it is a JoinError.
Panic == Return(IF req.kind \in {"prove", "sdk"} THEN "err" ELSE "panic")

Fails == IF req.kind = "exec" THEN Panic ELSE Return("err")

Goto(next) == step' = next /\ UNCHANGED <<remote, outcome, journal>>

------------------------------------------------------------------------------
(* The host's input.                                                        *)

\* get_proof_data_prove_boundless reads the environment and builds a client.
connect ==
    /\ step = "connect"
    /\ Goto("spawn") \/ Return("err")
    /\ UNCHANGED <<req, task, expired, guestVars>>

\* The outer lengths are asserted; target_chain_ids is indexed without, so it
\* may be longer, and a shorter one panics.
LengthsMatch ==
    /\ Len(req.users) = Len(req.markets)
    /\ Len(req.users) = Len(req.chain_ids)
    /\ Len(req.target_chain_ids) >= Len(req.chain_ids)

spawn_tasks ==
    /\ step = "spawn"
    /\ IF LengthsMatch
       THEN Goto("join") /\ task' = [s \in Slots |-> "running"]
       ELSE Panic /\ UNCHANGED task
    /\ UNCHANGED <<req, expired, guestVars>>

\* A task returns its chunk, or a read or a check of it panics, as the lookup
\* of an unknown chain must.
TaskEnds ==
    /\ \E s \in Slots :
          /\ task[s] = "running"
          /\ \E end \in {"ready", "panicked"} :
                 /\ end = "ready" => req.chain_ids[s] \in ChainIds
                 /\ task' = [task EXCEPT ![s] = end]
    /\ UNCHANGED <<req, expired, guestVars, hostVars>>

\* A read of a node never returns, nor does the task then (viewcalls.rs:1679).
TaskHangs ==
    /\ \E s \in Slots : task[s] = "running" /\ task' = [task EXCEPT ![s] = "hung"]
    /\ UNCHANGED <<req, expired, guestVars, hostVars>>

Ready == {s \in Slots : task[s] = "ready"}

InputOfReady == [count |-> Cardinality(Ready), chunks |-> Ready]   \* mutant

\* get_proof_data_input and get_proof_data_env: the number of chains asked
\* for, then the chunks there are.
InputOf == [count |-> Len(req.chain_ids), chunks |-> Ready]

\* join_all waits for every task, whatever the others came to.
\* get_proof_data_exec expects every chunk; the others drop the missing ones.
join_tasks ==
    /\ step = "join"
    /\ \A s \in Slots : task[s] \in {"ready", "panicked"}
    /\ IF req.kind = "exec" /\ Ready # Slots
       THEN Panic /\ UNCHANGED guestVars
       ELSE /\ input' = InputOf
            /\ guest' = IF req.kind \in {"exec", "prove"} THEN "running" ELSE guest
            /\ \/ req.kind \in {"exec", "prove"} /\ Goto("run")
               \/ req.kind = "sdk"       /\ Goto("upload")
               \/ req.kind = "boundless" /\ Goto("submit")
            /\ UNCHANGED output
    /\ UNCHANGED <<req, task, expired>>

------------------------------------------------------------------------------
(* The guest: main of get_proof_data.rs.                                    *)
\* One iteration of the loop.  Reading past the end of the input panics, as
\* does a chain that is not of mainnet or evidence that does not hold.
GuestReads ==
    /\ guest = "running" /\ input.count > 0
    /\ \/ /\ input.chunks = {}
          /\ guest' = "panicked" /\ UNCHANGED <<input, output>>
       \/ \E s \in input.chunks :
          /\ \A other \in input.chunks : s <= other
          /\ \/ guest' = "panicked" /\ UNCHANGED <<input, output>>
             \/ /\ req.chain_ids[s] \in MainnetIds
                /\ output' = output \cup Queries(s)
                /\ input' = [count |-> input.count - 1, chunks |-> input.chunks \ {s}]
                /\ UNCHANGED guest
    /\ UNCHANGED <<req, task, expired, hostVars>>

GuestCommits ==
    /\ guest = "running" /\ input.count = 0
    /\ guest' = "committed"
    /\ UNCHANGED <<req, task, expired, input, output, hostVars>>

Guest == GuestReads \/ GuestCommits

------------------------------------------------------------------------------
(* The local executor and prover.                                           *)
run_locally ==
    /\ step = "run" /\ guest \in {"committed", "panicked"}
    /\ IF guest = "committed" THEN Deliver ELSE Fails
    /\ UNCHANGED <<req, task, expired, guestVars>>

------------------------------------------------------------------------------
(* run_bonsai.                                                              *)
upload_input ==
    /\ step = "upload" /\ Goto("session")
    /\ UNCHANGED <<req, task, expired, guestVars>>

create_session ==
    /\ step = "session"
    /\ step' = "stark" /\ remote' = "RUNNING" /\ guest' = "running"
    /\ UNCHANGED <<req, task, expired, input, output, outcome, journal>>

\* What Bonsai reports next.  A success may lack what it should come with.
BonsaiAnswers ==
    /\ req.kind = "sdk" /\ remote = "RUNNING"
    /\ remote' \in {"FAILED"} \cup (IF guest = "committed" THEN {"SUCCEEDED", "INCOMPLETE"} ELSE {})
    /\ UNCHANGED <<req, task, expired, guestVars, step, outcome, journal>>

poll_session ==
    /\ step = "stark" /\ remote # "RUNNING"
    /\ \/ remote = "SUCCEEDED"  /\ Goto("create_snark")
       \/ remote = "INCOMPLETE" /\ Panic
       \/ remote \notin {"SUCCEEDED", "INCOMPLETE"} /\ Return("err")
    /\ UNCHANGED <<req, task, expired, guestVars>>

create_snark ==
    /\ step = "create_snark"
    /\ step' = "snark" /\ remote' = "RUNNING"
    /\ UNCHANGED <<req, task, expired, guestVars, outcome, journal>>

poll_snark_until_output ==   \* mutant
    /\ step = "snark" /\ remote \notin {"RUNNING", "INCOMPLETE"}
    /\ IF remote = "SUCCEEDED" THEN Goto("download") ELSE Return("err")
    /\ UNCHANGED <<req, task, expired, guestVars>>

poll_snark ==
    /\ step = "snark" /\ remote # "RUNNING"
    /\ IF remote = "SUCCEEDED" THEN Goto("download") ELSE Return("err")
    /\ UNCHANGED <<req, task, expired, guestVars>>

download ==
    /\ step = "download" /\ Deliver
    /\ UNCHANGED <<req, task, expired, guestVars>>

------------------------------------------------------------------------------
(* The Boundless market.                                                    *)
submit ==
    /\ step = "submit"
    /\ step' = "wait" /\ remote' = "open" /\ guest' = "running"
    /\ UNCHANGED <<req, task, expired, input, output, outcome, journal>>

\* A prover may fulfil the request at any time, or never.
MarketFulfils ==
    /\ req.kind = "boundless" /\ remote = "open" /\ guest = "committed"
    /\ remote' = "fulfilled"
    /\ UNCHANGED <<req, task, expired, guestVars, step, outcome, journal>>

TimeRunsOut ==
    /\ step = "wait" /\ ~expired
    /\ expired' = TRUE
    /\ UNCHANGED <<req, task, guestVars, hostVars>>

wait_for_request_fulfillment ==
    /\ step = "wait"
    /\ \/ remote = "fulfilled" /\ Deliver
       \/ remote = "open" /\ expired /\ Return("err")
    /\ UNCHANGED <<req, task, expired, guestVars>>

------------------------------------------------------------------------------
RemoteCalls ==
    {"upload", "session", "stark", "create_snark", "snark", "download", "submit", "wait"}

\* A remote call, or the executor or prover itself, fails for its own reasons.
CallFails ==
    /\ step \in RemoteCalls \cup {"run"}
    /\ Fails
    /\ UNCHANGED <<req, task, expired, guestVars>>

\* A call of Bonsai's, of the market's or of its client never returns; expires_at
\* does not end it, as it is looked at between the calls.
CallHangs ==
    /\ step \in RemoteCalls \cup {"connect"}
    /\ Goto("hung")
    /\ UNCHANGED <<req, task, expired, guestVars>>

Host ==
    \/ connect \/ spawn_tasks \/ join_tasks \/ run_locally
    \/ upload_input \/ create_session \/ poll_session
    \/ create_snark \/ poll_snark \/ download
    \/ submit \/ wait_for_request_fulfillment

Next ==
    \/ Host \/ CallFails \/ CallHangs \/ TaskEnds \/ TaskHangs \/ Guest
    \/ BonsaiAnswers \/ MarketFulfils \/ TimeRunsOut

\* The host runs, a task that does not hang ends, time passes, and the guest
\* ends where it runs in this process.  Nothing is assumed of nodes, of Bonsai
\* or of the market: any read or call may take the step that hangs it.
Fairness ==
    /\ WF_vars(Host)
    /\ WF_vars(TaskEnds)
    /\ WF_vars(TimeRunsOut)
    /\ WF_vars(req.kind \in {"exec", "prove"} /\ Guest)

Spec == Init /\ [][Next]_vars /\ Fairness

------------------------------------------------------------------------------
\* Types, and that no panic gets out of a blocking task (viewcalls.rs:715, 783).
TypeOK ==
    /\ req \in Requests
    /\ step \in {"connect", "spawn", "join", "run", "upload", "session", "stark",
                 "create_snark", "snark", "download", "submit", "wait", "hung", "ended"}
    /\ task \in [Slots -> {"none", "running", "ready", "panicked", "hung"}]
    /\ input.count \in Nat /\ input.chunks \in SUBSET Slots
    /\ guest \in {"idle", "running", "committed", "panicked"}
    /\ remote \in {"none", "RUNNING", "SUCCEEDED", "INCOMPLETE", "FAILED", "open", "fulfilled"}
    /\ expired \in BOOLEAN
    /\ outcome \in {"none", "ok", "err", "panic"}
    /\ step = "ended" <=> outcome # "none"
    /\ outcome = "panic" => req.kind \in {"exec", "boundless"}

AllQueries == UNION {Queries(s) : s \in Slots}

\* A request that succeeds has the answer to every query of every chain, though
\* the chunk of a failed task is dropped without a word: the guest counts on as
\* many chains as were asked for (viewcalls.rs:560, 637).
JournalIsComplete == outcome = "ok" => journal = AllQueries

\* A request ends, whatever fails and whatever answers come or stay away, but
\* for three waits that no timeout of the code ends: of join_all for a task
\* whose read never returns (viewcalls.rs:1679), of the host for a call of its
\* own that never returns, and for a session that Bonsai keeps reporting as
\* RUNNING (viewcalls.rs:218, 262).
WaitsForTask    == step = "join" /\ \E s \in Slots : task[s] = "hung"
WaitsForCall    == step = "hung"
WaitsForSession == step \in {"stark", "snark"} /\ remote = "RUNNING"

EveryRequestEnds ==
    <>(outcome # "none") \/ <>[](WaitsForTask \/ WaitsForCall \/ WaitsForSession)
=============================================================================
