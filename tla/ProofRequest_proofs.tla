------------------------ MODULE ProofRequest_proofs -------------------------
(***************************************************************************)
(* Theorems about ProofRequest, for requests of any number of chains and   *)
(* any number of queries: its types, and that a request that succeeds is   *)
(* answered in full.                                                       *)
(***************************************************************************)
EXTENDS ProofRequest, FiniteSetTheorems, TLAPS

------------------------------------------------------------------------------
(* The inductive invariant.  The guest starts on an input that announces    *)
(* all chains; the slots done so far and the chains still announced add up  *)
(* to all of them, and Bonsai and the market report success only of a run   *)
(* that committed.                                                          *)
Answers(done) == UNION {Queries(s) : s \in done}

GuestWaits ==
    /\ step \in {"connect", "spawn", "join", "upload", "session", "submit"} => guest = "idle"
    /\ guest = "idle" => output = {}
    /\ step \in {"upload", "session", "submit"} => input.count = Len(req.chain_ids)

GuestProgress ==
    guest # "idle" =>
        \E done \in SUBSET Slots :
            /\ done \cap input.chunks = {}
            /\ Cardinality(done) + input.count = Len(req.chain_ids)
            /\ output = Answers(done)

SuccessIsOfACommit ==
    /\ step = "download" => guest = "committed"
    /\ remote \in {"SUCCEEDED", "INCOMPLETE", "fulfilled"} => guest = "committed"
    /\ guest = "committed" => output = AllQueries

IInv ==
    /\ TypeOK
    /\ GuestWaits
    /\ GuestProgress
    /\ SuccessIsOfACommit
    /\ JournalIsComplete

------------------------------------------------------------------------------
\* The slots are an interval of as many numbers as there are chains.
LEMMA SlotsFinite ==
    ASSUME req \in Requests
    PROVE  /\ Len(req.chain_ids) \in Nat
           /\ IsFiniteSet(Slots)
           /\ Cardinality(Slots) = Len(req.chain_ids)
<1>1. Len(req.chain_ids) \in Nat
  BY RequestsAssumption
<1> QED
  BY <1>1, FS_Interval DEF Slots

\* A set of slots of full size is all of them.
LEMMA AllSlots ==
    ASSUME req \in Requests, NEW done \in SUBSET Slots,
           Cardinality(done) = Len(req.chain_ids)
    PROVE  done = Slots
BY SlotsFinite, FS_Subset

------------------------------------------------------------------------------
\* The state a request starts in satisfies the invariant.
LEMMA InitIInv == Init => IInv
<1> SUFFICES ASSUME Init PROVE IInv
  OBVIOUS
<1>1. TypeOK
  BY DEF Init, TypeOK, NoInput
<1>2. GuestWaits /\ GuestProgress /\ SuccessIsOfACommit /\ JournalIsComplete
  BY DEF Init, GuestWaits, GuestProgress, SuccessIsOfACommit, JournalIsComplete
<1> QED
  BY <1>1, <1>2 DEF IInv
------------------------------------------------------------------------------
\* Every step preserves the types.
LEMMA NextTypeOK == TypeOK /\ [Next]_vars => TypeOK'
<1> SUFFICES ASSUME TypeOK, [Next]_vars PROVE TypeOK'
  OBVIOUS
<1> USE DEF TypeOK, guestVars
<1>0. Len(req.chain_ids) \in Nat /\ req.kind \in Kinds
  BY RequestsAssumption
<1>1. CASE connect
  BY <1>1, <1>0 DEF connect, Goto, Return, Slots, Kinds
<1>2. CASE spawn_tasks
  BY <1>2, <1>0 DEF spawn_tasks, Goto, Panic, Return, Slots, Kinds
<1>3. CASE TaskEnds
  BY <1>3, <1>0 DEF TaskEnds, hostVars, Slots, Kinds
<1>4. CASE run_locally
  BY <1>4, <1>0 DEF run_locally, Deliver, Fails, Panic, Return, Slots, Kinds
<1>5. CASE upload_input
  BY <1>5, <1>0 DEF upload_input, Goto, Slots, Kinds
<1>6. CASE create_session
  BY <1>6, <1>0 DEF create_session, Slots, Kinds
<1>7. CASE BonsaiAnswers
  BY <1>7, <1>0 DEF BonsaiAnswers, Slots, Kinds
<1>8. CASE poll_session
  BY <1>8, <1>0 DEF poll_session, Goto, Panic, Return, Slots, Kinds
<1>9. CASE create_snark
  BY <1>9, <1>0 DEF create_snark, Slots, Kinds
<1>10. CASE poll_snark
  BY <1>10, <1>0 DEF poll_snark, Goto, Return, Slots, Kinds
<1>11. CASE download
  BY <1>11, <1>0 DEF download, Deliver, Slots, Kinds
<1>12. CASE submit
  BY <1>12, <1>0 DEF submit, Slots, Kinds
<1>13. CASE MarketFulfils
  BY <1>13, <1>0 DEF MarketFulfils, Slots, Kinds
<1>14. CASE TimeRunsOut
  BY <1>14, <1>0 DEF TimeRunsOut, hostVars, Slots, Kinds
<1>15. CASE wait_for_request_fulfillment
  BY <1>15, <1>0 DEF wait_for_request_fulfillment, Deliver, Return, Slots, Kinds
<1>16. CASE CallFails
  BY <1>16, <1>0 DEF CallFails, RemoteCalls, Fails, Panic, Return, Slots, Kinds
<1>17. CASE join_tasks
  BY <1>17, <1>0 DEF join_tasks, InputOf, Ready, Goto, Panic, Return, Slots, Kinds
<1>18. CASE GuestReads
  BY <1>18, <1>0 DEF GuestReads, hostVars, Slots, Kinds
<1>19. CASE GuestCommits
  BY <1>19, <1>0 DEF GuestCommits, hostVars, Slots, Kinds
<1>20. CASE TaskHangs
  BY <1>20, <1>0 DEF TaskHangs, hostVars, Slots, Kinds
<1>21. CASE CallHangs
  BY <1>21, <1>0 DEF CallHangs, RemoteCalls, Goto, Slots, Kinds
<1>22. CASE UNCHANGED vars
  BY <1>22 DEF vars, hostVars, Slots
<1> QED
  BY <1>1, <1>2, <1>3, <1>4, <1>5, <1>6, <1>7, <1>8, <1>9, <1>10, <1>11, <1>12,
     <1>13, <1>14, <1>15, <1>16, <1>17, <1>18, <1>19, <1>20, <1>21, <1>22
     DEF Next, Host, Guest

------------------------------------------------------------------------------
\* The guest is idle until its input is complete.
LEMMA NextWaits == IInv /\ [Next]_vars => GuestWaits'
<1> SUFFICES ASSUME IInv, TypeOK, req \in Requests, [Next]_vars PROVE GuestWaits'
  BY DEF IInv, TypeOK
<1> USE DEF guestVars, GuestWaits
<1>0. GuestWaits
  BY DEF IInv
<1>1. CASE connect
  BY <1>1, <1>0 DEF connect, Goto, Return
<1>2. CASE spawn_tasks
  BY <1>2, <1>0 DEF spawn_tasks, Goto, Panic, Return
<1>3. CASE TaskEnds
  BY <1>3, <1>0 DEF TaskEnds, hostVars
<1>4. CASE run_locally
  BY <1>4, <1>0 DEF run_locally, Deliver, Fails, Panic, Return
<1>5. CASE upload_input
  BY <1>5, <1>0 DEF upload_input, Goto
<1>6. CASE create_session
  BY <1>6, <1>0 DEF create_session
<1>7. CASE BonsaiAnswers
  BY <1>7, <1>0 DEF BonsaiAnswers
<1>8. CASE poll_session
  BY <1>8, <1>0 DEF poll_session, Goto, Panic, Return
<1>9. CASE create_snark
  BY <1>9, <1>0 DEF create_snark
<1>10. CASE poll_snark
  BY <1>10, <1>0 DEF poll_snark, Goto, Return
<1>11. CASE download
  BY <1>11, <1>0 DEF download, Deliver
<1>12. CASE submit
  BY <1>12, <1>0 DEF submit
<1>13. CASE MarketFulfils
  BY <1>13, <1>0 DEF MarketFulfils
<1>14. CASE TimeRunsOut
  BY <1>14, <1>0 DEF TimeRunsOut, hostVars
<1>15. CASE wait_for_request_fulfillment
  BY <1>15, <1>0 DEF wait_for_request_fulfillment, Deliver, Return
<1>16. CASE CallFails
  BY <1>16, <1>0 DEF CallFails, Fails, Panic, Return
<1>17. CASE join_tasks
  BY <1>17, <1>0 DEF join_tasks, InputOf, Ready, Goto, Panic, Return
<1>18. CASE GuestReads
  BY <1>18, <1>0 DEF GuestReads, hostVars
<1>19. CASE GuestCommits
  BY <1>19, <1>0 DEF GuestCommits, hostVars
<1>20. CASE TaskHangs
  BY <1>20, <1>0 DEF TaskHangs, hostVars
<1>21. CASE CallHangs
  BY <1>21, <1>0 DEF CallHangs, RemoteCalls, Goto
<1>22. CASE UNCHANGED vars
  BY <1>22, <1>0 DEF vars, hostVars
<1> QED
  BY <1>1, <1>2, <1>3, <1>4, <1>5, <1>6, <1>7, <1>8, <1>9, <1>10, <1>11, <1>12,
     <1>13, <1>14, <1>15, <1>16, <1>17, <1>18, <1>19, <1>20, <1>21, <1>22
     DEF Next, Host, Guest

\* A success is that of a run that committed, with all queries answered.
LEMMA NextSuccess == IInv /\ [Next]_vars => SuccessIsOfACommit'
<1> SUFFICES ASSUME IInv, TypeOK, req \in Requests, [Next]_vars PROVE SuccessIsOfACommit'
  BY DEF IInv, TypeOK
<1> USE DEF guestVars, SuccessIsOfACommit
<1>0. SuccessIsOfACommit /\ GuestWaits /\ GuestProgress
  BY DEF IInv
<1>q. req' = req => AllQueries' = AllQueries
  BY DEF AllQueries, Queries, Slots
<1>1. CASE connect
  BY <1>1, <1>0, <1>q DEF connect, Goto, Return
<1>2. CASE spawn_tasks
  BY <1>2, <1>0, <1>q DEF spawn_tasks, Goto, Panic, Return
<1>3. CASE TaskEnds
  BY <1>3, <1>0, <1>q DEF TaskEnds, hostVars
<1>4. CASE run_locally
  BY <1>4, <1>0, <1>q DEF run_locally, Deliver, Fails, Panic, Return
<1>5. CASE upload_input
  BY <1>5, <1>0, <1>q DEF upload_input, Goto
<1>6. CASE create_session
  BY <1>6, <1>0, <1>q DEF create_session
<1>7. CASE BonsaiAnswers
  BY <1>7, <1>0, <1>q DEF BonsaiAnswers
<1>8. CASE poll_session
  BY <1>8, <1>0, <1>q DEF poll_session, Goto, Panic, Return
<1>9. CASE create_snark
  BY <1>9, <1>0, <1>q DEF create_snark
<1>10. CASE poll_snark
  BY <1>10, <1>0, <1>q DEF poll_snark, Goto, Return
<1>11. CASE download
  BY <1>11, <1>0, <1>q DEF download, Deliver
<1>12. CASE submit
  BY <1>12, <1>0, <1>q DEF submit
<1>13. CASE MarketFulfils
  BY <1>13, <1>0, <1>q DEF MarketFulfils
<1>14. CASE TimeRunsOut
  BY <1>14, <1>0, <1>q DEF TimeRunsOut, hostVars
<1>15. CASE wait_for_request_fulfillment
  BY <1>15, <1>0, <1>q DEF wait_for_request_fulfillment, Deliver, Return
<1>16. CASE CallFails
  BY <1>16, <1>0, <1>q DEF CallFails, Fails, Panic, Return
<1>17. CASE join_tasks
  BY <1>17, <1>0, <1>q DEF GuestWaits, join_tasks, Goto, Panic, Return
<1>18. CASE GuestReads
  BY <1>18, <1>0, <1>q DEF GuestReads, hostVars
<1>19. CASE GuestCommits
  <2>1. PICK done \in SUBSET Slots :
           /\ Cardinality(done) + input.count = Len(req.chain_ids)
           /\ output = Answers(done)
    BY <1>19, <1>0 DEF GuestCommits, GuestProgress
  <2>2. IsFiniteSet(done) /\ Cardinality(done) \in Nat
    BY SlotsFinite, FS_Subset, FS_CardinalityType
  <2>3. done = Slots
    BY <1>19, <2>1, <2>2, SlotsFinite, AllSlots DEF GuestCommits
  <2>4. output' = AllQueries'
    BY <1>19, <2>1, <2>3, <1>q DEF GuestCommits, Answers, AllQueries
  <2> QED
    BY <1>19, <2>4, <1>0 DEF GuestCommits, hostVars
<1>20. CASE TaskHangs
  BY <1>20, <1>0, <1>q DEF TaskHangs, hostVars
<1>21. CASE CallHangs
  BY <1>21, <1>0, <1>q DEF CallHangs, RemoteCalls, Goto
<1>22. CASE UNCHANGED vars
  BY <1>22, <1>0, <1>q DEF vars, hostVars
<1> QED
  BY <1>1, <1>2, <1>3, <1>4, <1>5, <1>6, <1>7, <1>8, <1>9, <1>10, <1>11, <1>12,
     <1>13, <1>14, <1>15, <1>16, <1>17, <1>18, <1>19, <1>20, <1>21, <1>22
     DEF Next, Host, Guest

\* What is delivered is the output of such a run.
LEMMA NextComplete == IInv /\ [Next]_vars => JournalIsComplete'
<1> SUFFICES ASSUME IInv, TypeOK, req \in Requests, [Next]_vars PROVE JournalIsComplete'
  BY DEF IInv, TypeOK
<1> USE DEF guestVars, JournalIsComplete
<1>0. JournalIsComplete /\ SuccessIsOfACommit
  BY DEF IInv
<1>q. req' = req => AllQueries' = AllQueries
  BY DEF AllQueries, Queries, Slots
<1>1. CASE connect
  BY <1>1, <1>0, <1>q DEF connect, Goto, Return
<1>2. CASE spawn_tasks
  BY <1>2, <1>0, <1>q DEF spawn_tasks, Goto, Panic, Return
<1>3. CASE TaskEnds
  BY <1>3, <1>0, <1>q DEF TaskEnds, hostVars
<1>4. CASE run_locally
  BY <1>4, <1>0, <1>q DEF SuccessIsOfACommit, run_locally, Deliver, Fails, Panic, Return
<1>5. CASE upload_input
  BY <1>5, <1>0, <1>q DEF upload_input, Goto
<1>6. CASE create_session
  BY <1>6, <1>0, <1>q DEF create_session
<1>7. CASE BonsaiAnswers
  BY <1>7, <1>0, <1>q DEF BonsaiAnswers
<1>8. CASE poll_session
  BY <1>8, <1>0, <1>q DEF poll_session, Goto, Panic, Return
<1>9. CASE create_snark
  BY <1>9, <1>0, <1>q DEF create_snark
<1>10. CASE poll_snark
  BY <1>10, <1>0, <1>q DEF poll_snark, Goto, Return
<1>11. CASE download
  BY <1>11, <1>0, <1>q DEF SuccessIsOfACommit, download, Deliver
<1>12. CASE submit
  BY <1>12, <1>0, <1>q DEF submit
<1>13. CASE MarketFulfils
  BY <1>13, <1>0, <1>q DEF MarketFulfils
<1>14. CASE TimeRunsOut
  BY <1>14, <1>0, <1>q DEF TimeRunsOut, hostVars
<1>15. CASE wait_for_request_fulfillment
  BY <1>15, <1>0, <1>q DEF SuccessIsOfACommit, wait_for_request_fulfillment, Deliver, Return
<1>16. CASE CallFails
  BY <1>16, <1>0, <1>q DEF CallFails, Fails, Panic, Return
<1>17. CASE join_tasks
  BY <1>17, <1>0, <1>q DEF join_tasks, InputOf, Ready, Goto, Panic, Return
<1>18. CASE GuestReads
  BY <1>18, <1>0, <1>q DEF GuestReads, hostVars
<1>19. CASE GuestCommits
  BY <1>19, <1>0, <1>q DEF GuestCommits, hostVars
<1>20. CASE TaskHangs
  BY <1>20, <1>0, <1>q DEF TaskHangs, hostVars
<1>21. CASE CallHangs
  BY <1>21, <1>0, <1>q DEF CallHangs, RemoteCalls, Goto
<1>22. CASE UNCHANGED vars
  BY <1>22, <1>0, <1>q DEF vars, hostVars
<1> QED
  BY <1>1, <1>2, <1>3, <1>4, <1>5, <1>6, <1>7, <1>8, <1>9, <1>10, <1>11, <1>12,
     <1>13, <1>14, <1>15, <1>16, <1>17, <1>18, <1>19, <1>20, <1>21, <1>22
     DEF Next, Host, Guest

------------------------------------------------------------------------------
\* Every step keeps what is done and what is still announced in balance.
LEMMA NextProgress == IInv /\ [Next]_vars => GuestProgress'
<1> SUFFICES ASSUME IInv, TypeOK, req \in Requests, [Next]_vars PROVE GuestProgress'
  BY DEF IInv, TypeOK
<1>0. GuestProgress /\ GuestWaits
  BY DEF IInv
<1>1. req' = req
  BY DEF Next, vars, Host, Guest, connect, spawn_tasks, TaskEnds, run_locally, upload_input,
         create_session, BonsaiAnswers, poll_session, create_snark, poll_snark, download, submit,
         MarketFulfils, TimeRunsOut, wait_for_request_fulfillment, CallFails, CallHangs,
         TaskHangs, join_tasks, GuestReads, GuestCommits
<1>2. Slots' = Slots /\ Len(req'.chain_ids) = Len(req.chain_ids)
      /\ \A done : Answers(done)' = Answers(done)
  BY <1>1 DEF Slots, Answers, Queries
<1>3. ASSUME NEW done \in SUBSET Slots, done \cap input'.chunks = {},
             Cardinality(done) + input'.count = Len(req.chain_ids), output' = Answers(done)
      PROVE  GuestProgress'
  BY <1>1, <1>2, <1>3 DEF GuestProgress
\* A guest that goes on: the input and the output stay.
<1>4. ASSUME guest # "idle" \/ guest' = "idle", input' = input, output' = output
      PROVE  GuestProgress'
  <2>1. CASE guest' = "idle"
    BY <2>1 DEF GuestProgress
  <2>2. CASE guest # "idle"
    BY <1>0, <1>3, <1>4, <2>2 DEF GuestProgress
  <2> QED
    BY <1>4, <2>1, <2>2
\* A guest that starts: all chains are announced, none is done.
<1>5. ASSUME input'.count = Len(req.chain_ids), output' = {}
      PROVE  GuestProgress'
  <2>1. Answers({}) = {} /\ Cardinality({}) = 0 /\ Len(req.chain_ids) \in Nat
    BY FS_EmptySet, SlotsFinite DEF Answers
  <2> QED
    BY <1>3, <1>5, <2>1
<1>6. CASE connect \/ spawn_tasks \/ TaskEnds \/ run_locally \/ upload_input \/ BonsaiAnswers
           \/ poll_session \/ create_snark \/ poll_snark \/ download \/ MarketFulfils
           \/ TimeRunsOut \/ wait_for_request_fulfillment \/ CallFails \/ CallHangs
           \/ TaskHangs
  BY <1>6, <1>4 DEF guestVars, connect, spawn_tasks, TaskEnds, run_locally, upload_input,
         BonsaiAnswers, poll_session, create_snark, poll_snark, download, MarketFulfils,
         TimeRunsOut, wait_for_request_fulfillment, CallFails, CallHangs, TaskHangs
<1>7. CASE create_session \/ submit
  BY <1>7, <1>0, <1>5 DEF create_session, submit, GuestWaits
<1>8. CASE join_tasks
  <2>1. CASE UNCHANGED guestVars
    BY <2>1, <1>4 DEF guestVars
  <2>2. CASE input' = InputOf /\ output' = output
    BY <1>8, <2>2, <1>0, <1>5 DEF join_tasks, GuestWaits, InputOf
  <2> QED
    BY <1>8, <2>1, <2>2 DEF join_tasks
<1>9. CASE GuestReads
  <2>1. CASE input' = input /\ output' = output
    BY <1>9, <2>1, <1>4 DEF GuestReads
  <2>2. CASE \E s \in input.chunks :
                /\ output' = output \cup Queries(s)
                /\ input' = [count |-> input.count - 1, chunks |-> input.chunks \ {s}]
    <3>1. PICK s \in input.chunks :
             /\ output' = output \cup Queries(s)
             /\ input' = [count |-> input.count - 1, chunks |-> input.chunks \ {s}]
      BY <2>2
    <3>2. PICK done \in SUBSET Slots :
             /\ done \cap input.chunks = {}
             /\ Cardinality(done) + input.count = Len(req.chain_ids)
             /\ output = Answers(done)
      BY <1>9, <1>0 DEF GuestReads, GuestProgress
    <3>3. s \in Slots /\ s \notin done /\ input.count \in Nat
      BY <3>1, <3>2 DEF TypeOK
    <3>4. /\ Cardinality(done) \in Nat
          /\ Cardinality(done \cup {s}) = Cardinality(done) + 1
      BY <3>3, SlotsFinite, FS_Subset, FS_CardinalityType, FS_AddElement
    <3>5. Answers(done \cup {s}) = Answers(done) \cup Queries(s)
      BY DEF Answers
    <3>6. done \cup {s} \in SUBSET Slots /\ (done \cup {s}) \cap input'.chunks = {}
      BY <3>1, <3>2, <3>3
    <3>7. input'.count = input.count - 1 /\ output' = Answers(done \cup {s})
      BY <3>1, <3>2, <3>5
    <3>8. Cardinality(done \cup {s}) + input'.count = Len(req.chain_ids)
      BY <3>2, <3>3, <3>4, <3>7, SlotsFinite
    <3> QED
      BY <1>3, <3>6, <3>7, <3>8
  <2> QED
    BY <1>9, <2>1, <2>2 DEF GuestReads
<1>10. CASE GuestCommits
  BY <1>10, <1>4 DEF GuestCommits
<1>11. CASE UNCHANGED vars
  BY <1>11, <1>4 DEF vars, guestVars
<1> QED
  BY <1>6, <1>7, <1>8, <1>9, <1>10, <1>11 DEF Next, Host, Guest

------------------------------------------------------------------------------
\* The invariant holds in every state of every behaviour.
THEOREM InvariantHolds == Spec => []IInv
<1>1. IInv /\ [Next]_vars => IInv'
  BY NextTypeOK, NextWaits, NextProgress, NextSuccess, NextComplete DEF IInv
<1> QED
  BY InitIInv, <1>1, PTL DEF Spec

\* The types hold, and no panic gets out of a blocking task.
THEOREM TypesHold == Spec => []TypeOK
<1>1. IInv => TypeOK
  BY DEF IInv
<1> QED
  BY InvariantHolds, <1>1, PTL

\* A request that succeeds has the answer to every query of every chain.
THEOREM SuccessIsComplete == Spec => []JournalIsComplete
<1>1. IInv => JournalIsComplete
  BY DEF IInv
<1> QED
  BY InvariantHolds, <1>1, PTL
=============================================================================
