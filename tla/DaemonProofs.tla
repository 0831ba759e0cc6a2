----------------------------- MODULE DaemonProofs -----------------------------
(***************************************************************************)
(* Proofs about the daemon, for any handlers, callers and bounds.          *)
(***************************************************************************)
EXTENDS Daemon, TLAPS

(* The pass that applies has read the newest version any pass has read.    *)
AppliesTheNewest == \A r \in Runners : run[r] = "apply" => seen[r] = asked

DInv == TypeOK /\ NoLostWakeup /\ AppliesTheNewest

-----------------------------------------------------------------------------
(* A process that has just started is where the type invariant wants it.   *)
LEMMA Booted ==
    /\ AtRest \in [Handlers -> {"idle", "checked", "wrote"}]
    /\ NoWrites \in [Handlers -> 0 .. 0]
    /\ Outside \in [Runners -> Stages] /\ NothingSeen \in [Runners -> 0 .. 0]
    /\ Loop \in Runners
    /\ \A r \in Runners : Outside[r] = "out" /\ Free # r
  BY RunnersAssumption
  DEF AtRest, NoWrites, Outside, NothingSeen, Runners, Stages

(* A function into 0 .. 0 is one into 0 .. n.                              *)
LEMMA Wider ==
    ASSUME NEW S, NEW n \in Nat, NEW f \in [S -> 0 .. 0]
    PROVE  f \in [S -> 0 .. n]
  <1>1. 0 .. 0 \subseteq 0 .. n OBVIOUS
  <1>2. QED BY <1>1

(* The invariant holds at the start.                                       *)

LEMMA InitDInv == Init => DInv
  <1> SUFFICES ASSUME Init PROVE DInv OBVIOUS
  <1>1. TypeOK
    <2>1. /\ pg = 0 /\ node = 0 /\ marked = 0 /\ asked = 0 /\ missed = 0 /\ failures = 0
          /\ primary \in BOOLEAN /\ dirty = FALSE /\ hung = FALSE
          /\ handler = AtRest /\ wrote = NoWrites /\ loop = "beat"
          /\ runMu = Free /\ run = Outside /\ seen = NothingSeen /\ lastSync = NoStatus
      BY DEF Init
    <2>2. /\ pg \in Versions /\ marked \in 0 .. pg /\ asked \in 0 .. pg /\ node \in 0 .. asked
          /\ wrote \in [Handlers -> 0 .. pg] /\ seen \in [Runners -> 0 .. asked]
          /\ failures \in 0 .. MaxFailures /\ missed \in 0 .. marked
      BY <2>1, Booted, BoundsAssumption DEF Versions
    <2>3. /\ \A r \in Runners : runMu = r <=> run[r] \in {"read", "apply"}
          /\ loop = "sync" <=> run[Loop] # "out"
      BY <2>1, Booted
    <2>4. QED BY <2>1, <2>2, <2>3, Booted DEF TypeOK
  <1>2. NoLostWakeup /\ AppliesTheNewest
    BY DEF Init, NoLostWakeup, AppliesTheNewest, Outside, AboutToRead
  <1>3. QED BY <1>1, <1>2 DEF DInv

(* A handler keeps it: what it marks is in the channel.                    *)
LEMMA HandlerDInv ==
    ASSUME DInv, NEW h \in Handlers, Handle(h)
    PROVE  DInv'
  <1>1. UNCHANGED <<loop, hung, passes>>
    BY DEF Handle, RequireMaster, Commit, Reject, CommitUnnoticed, MarkDirty
  <1>2. AppliesTheNewest' BY <1>1 DEF DInv, AppliesTheNewest, passes
  <1>3. CASE RequireMaster(h) \/ Reject(h)
    <2>1. /\ handler' \in [Handlers -> {"idle", "checked", "wrote"}]
          /\ UNCHANGED <<database, wrote, marked, dirty, failures>>
      BY <1>3 DEF RequireMaster, Reject, DInv, TypeOK
    <2>2. TypeOK' BY <1>1, <2>1 DEF DInv, TypeOK, database, passes
    <2>3. NoLostWakeup'
      BY <1>1, <2>1 DEF DInv, NoLostWakeup, AboutToRead, passes
    <2>4. QED BY <1>2, <2>2, <2>3 DEF DInv
  <1>4. CASE Commit(h) \/ CommitUnnoticed(h)
    <2>1. /\ handler' \in [Handlers -> {"idle", "checked", "wrote"}]
          /\ pg' = pg + 1 /\ pg' \in Versions
          /\ wrote' \in [Handlers -> 0 .. pg']
          /\ failures' \in 0 .. MaxFailures
          /\ UNCHANGED <<primary, marked, dirty>>
      BY <1>4, BoundsAssumption
      DEF Commit, CommitUnnoticed, Fail, DInv, TypeOK, Versions
    <2>2. TypeOK' BY <1>1, <2>1 DEF DInv, TypeOK, Versions, passes
    <2>3. NoLostWakeup'
      BY <1>1, <2>1 DEF DInv, NoLostWakeup, AboutToRead, passes
    <2>4. QED BY <1>2, <2>2, <2>3 DEF DInv
  <1>5. CASE MarkDirty(h)
    <2>1. /\ handler' \in [Handlers -> {"idle", "checked", "wrote"}]
          /\ marked' \in 0 .. pg /\ missed \in 0 .. marked'
          /\ dirty' = TRUE
          /\ UNCHANGED <<database, wrote, failures>>
      BY <1>5 DEF MarkDirty, Highest, DInv, TypeOK, Versions
    <2>2. TypeOK' BY <1>1, <2>1 DEF DInv, TypeOK, database, passes
    <2>3. NoLostWakeup' BY <2>1 DEF NoLostWakeup
    <2>4. QED BY <1>2, <2>2, <2>3 DEF DInv
  <1>6. QED BY <1>3, <1>4, <1>5 DEF Handle

(* Taking the mutex and reading keep it.                                   *)
LEMMA ReadDInv ==
    ASSUME DInv, NEW r \in Runners, Lock(r) \/ Read(r)
    PROVE  DInv'
  <1>1. UNCHANGED <<database, handlers, dirty, loop, hung, missed, lastSync, node, failures>>
    BY DEF Lock, Read
  <1>2. CASE Lock(r)
    <2>1. /\ run[r] = "lock" /\ runMu = Free /\ runMu' = r
          /\ run' = [run EXCEPT ![r] = "read"]
          /\ UNCHANGED <<seen, asked>>
      BY <1>2 DEF Lock
    <2>2. \A q \in Runners : run[q] \notin {"read", "apply"}
      BY <2>1, RunnersAssumption DEF DInv, TypeOK, Runners
    <2>3. /\ run' \in [Runners -> Stages] /\ runMu' \in Runners \cup {Free}
          /\ \A q \in Runners : runMu' = q <=> run'[q] \in {"read", "apply"}
          /\ loop' = "sync" <=> run'[Loop] # "out"
      BY <1>1, <2>1, <2>2 DEF DInv, TypeOK, Stages, Runners
    <2>4. TypeOK'
      BY <1>1, <2>1, <2>3 DEF DInv, TypeOK, database, handlers
    <2>5. NoLostWakeup'
      BY <1>1, <2>1 DEF DInv, TypeOK, NoLostWakeup, AboutToRead, handlers
    <2>6. AppliesTheNewest'
      BY <2>1, <2>2 DEF DInv, TypeOK, AppliesTheNewest
    <2>7. QED BY <2>4, <2>5, <2>6 DEF DInv
  <1>3. CASE Read(r)
    <2>1. /\ run[r] = "read"
          /\ seen' = [seen EXCEPT ![r] = pg]
          /\ asked' = pg
          /\ run' = [run EXCEPT ![r] = "apply"]
          /\ runMu' = runMu
      BY <1>3 DEF Read, Highest, DInv, TypeOK, Versions
    <2>2. runMu = r /\ \A q \in Runners \ {r} : run[q] \notin {"read", "apply"}
      BY <2>1 DEF DInv, TypeOK
    <2>3. /\ run' \in [Runners -> Stages]
          /\ \A q \in Runners : runMu' = q <=> run'[q] \in {"read", "apply"}
          /\ loop' = "sync" <=> run'[Loop] # "out"
      BY <1>1, <2>1, <2>2 DEF DInv, TypeOK, Stages, Runners
    <2>4. /\ asked' \in 0 .. pg' /\ node' \in 0 .. asked'
          /\ seen' \in [Runners -> 0 .. asked']
          /\ lastSync' \in 0 .. asked' \cup {NoStatus}
      BY <1>1, <2>1 DEF DInv, TypeOK, Versions, database
    <2>5. TypeOK'
      BY <1>1, <2>1, <2>3, <2>4 DEF DInv, TypeOK, database, handlers
    <2>6. NoLostWakeup'
      BY <1>1, <2>1 DEF DInv, TypeOK, NoLostWakeup, Highest, Versions, handlers
    <2>7. AppliesTheNewest'
      BY <2>1, <2>2 DEF DInv, TypeOK, AppliesTheNewest
    <2>8. QED BY <2>5, <2>6, <2>7 DEF DInv
  <1>4. QED BY <1>2, <1>3

(* The end of a pass keeps it, whether it succeeded, failed or read        *)
(* nothing.                                                                *)
LEMMA FinishDInv ==
    ASSUME DInv, NEW r \in Runners, ReadFails(r) \/ Succeed(r) \/ FailPass(r)
    PROVE  DInv'
  <1>1. PICK version \in 0 .. asked, shown \in 0 .. asked \cup {NoStatus} :
            Finish(r, version, shown)
    BY DEF ReadFails, Succeed, FailPass, DInv, TypeOK
  <1>2. /\ run[r] \in {"read", "apply"} /\ node' = version /\ lastSync' = shown
        /\ runMu' = Free /\ run' = [run EXCEPT ![r] = "out"]
        /\ loop' = IF r = Loop THEN "wait" ELSE loop
        /\ UNCHANGED <<database, handlers, dirty, hung, seen, asked>>
    BY <1>1 DEF Finish, ReadFails, Succeed, FailPass
  <1>3. failures' \in 0 .. MaxFailures
    BY BoundsAssumption DEF ReadFails, Succeed, FailPass, Fail, DInv, TypeOK
  <1>4. runMu = r /\ \A q \in Runners \ {r} : run[q] \notin {"read", "apply"}
    BY <1>2 DEF DInv, TypeOK
  <1>5. /\ run' \in [Runners -> Stages]
        /\ \A q \in Runners : runMu' = q <=> run'[q] \in {"read", "apply"}
        /\ loop' = "sync" <=> run'[Loop] # "out"
        /\ loop' \in {"beat", "sync", "wait"}
    BY <1>2, <1>4, RunnersAssumption DEF DInv, TypeOK, Stages, Runners
  <1>6. lastSync' \in 0 .. asked' \cup {NoStatus} /\ node' \in 0 .. asked'
    BY <1>2
  <1>7. /\ missed' \in 0 .. marked /\ marked \in Nat /\ asked \in Nat /\ missed \in Nat
        /\ missed' = missed \/ (run[r] = "read" /\ r = Loop /\ ~dirty /\ missed' = marked)
    BY DEF ReadFails, Succeed, FailPass, DInv, TypeOK, Versions
  <1>8. TypeOK'
    BY <1>2, <1>3, <1>5, <1>6, <1>7 DEF DInv, TypeOK, database, handlers
  <1>9. NoLostWakeup'
    <2>1. CASE r = Loop /\ run[r] = "read"
      <3>1. dirty \/ missed' = marked
        <4>1. ReadFails(r) BY <2>1 DEF Succeed, FailPass
        <4>2. QED BY <2>1, <4>1 DEF ReadFails
      <3>2. dirty' \/ ~(marked' > Highest(asked', missed'))
        BY <1>2, <1>7, <3>1 DEF handlers, Highest
      <3>3. QED BY <3>2 DEF NoLostWakeup
    <2>2. CASE r = Loop /\ run[r] = "apply"
      <3>1. ~AboutToRead
        BY <1>2, <2>2 DEF AboutToRead, DInv, TypeOK
      <3>2. marked' > Highest(asked', missed') => dirty'
        BY <1>2, <1>7, <2>2, <3>1 DEF DInv, NoLostWakeup, handlers
      <3>3. QED BY <3>2 DEF NoLostWakeup
    <2>3. CASE r # Loop
      BY <1>2, <1>7, <2>3 DEF DInv, TypeOK, NoLostWakeup, AboutToRead, handlers
    <2>4. QED BY <1>2, <2>1, <2>2, <2>3
  <1>10. AppliesTheNewest' BY <1>2 DEF DInv, TypeOK, AppliesTheNewest
  <1>11. QED BY <1>8, <1>9, <1>10 DEF DInv

(* The loop's own steps and POST /api/sync keep it.                        *)
LEMMA LoopDInv ==
    ASSUME DInv, Beat \/ Hang \/ Tick \/ Wake \/ \E r \in Runners : PostSync(r)
    PROVE  DInv'
  <1>1. UNCHANGED <<database, handlers, runMu, seen, asked, missed, lastSync, node, failures>>
    BY DEF Beat, Hang, Tick, Wake, PostSync, passes
  <1>2. /\ run' \in [Runners -> Stages] /\ hung' \in BOOLEAN /\ dirty' \in BOOLEAN
        /\ loop' \in {"beat", "sync", "wait"}
        /\ \A q \in Runners : run'[q] = run[q] \/ (run[q] = "out" /\ run'[q] = "lock")
        /\ loop' = "sync" <=> run'[Loop] # "out"
        /\ dirty => dirty' \/ (loop' = "sync" /\ run'[Loop] = "lock")
        /\ AboutToRead => AboutToRead'
    <2>1. CASE Beat
      BY <2>1 DEF Beat, DInv, TypeOK, Stages, Runners, AboutToRead
    <2>2. CASE Hang \/ Tick
      BY <2>2 DEF Hang, Tick, passes, DInv, TypeOK, AboutToRead
    <2>3. CASE Wake
      BY <2>3 DEF Wake, DInv, TypeOK, Stages, Runners, AboutToRead
    <2>4. ASSUME NEW r \in Runners, PostSync(r)
          PROVE  /\ run' = [run EXCEPT ![r] = "lock"] /\ run[r] = "out"
                 /\ r # Loop /\ UNCHANGED <<dirty, loop, hung>>
      BY <2>4, RunnersAssumption DEF PostSync
    <2>5. CASE \E r \in Runners : PostSync(r)
      BY <2>4, <2>5 DEF DInv, TypeOK, Stages, Runners, AboutToRead
    <2>6. QED BY <2>1, <2>2, <2>3, <2>5
  <1>3. \A q \in Runners : runMu' = q <=> run'[q] \in {"read", "apply"}
    BY <1>1, <1>2 DEF DInv, TypeOK
  <1>4. TypeOK' BY <1>1, <1>2, <1>3 DEF DInv, TypeOK, database, handlers
  <1>5. NoLostWakeup'
    BY <1>1, <1>2 DEF DInv, NoLostWakeup, AboutToRead, handlers
  <1>6. AppliesTheNewest' BY <1>1, <1>2 DEF DInv, AppliesTheNewest
  <1>7. QED BY <1>4, <1>5, <1>6 DEF DInv

(* Restarts, failovers and replication keep it.                            *)
LEMMA OutsideDInv ==
    ASSUME DInv, Restart \/ Failover \/ Replicate \/ UNCHANGED vars
    PROVE  DInv'
  <1>1. CASE Restart
    <2>1. failures' \in 0 .. MaxFailures
      BY <1>1, BoundsAssumption DEF Restart, Fail, DInv, TypeOK
    <2>2. /\ pg \in Nat /\ asked \in Nat
          /\ UNCHANGED <<pg, primary, node, marked, asked, missed>>
      BY <1>1 DEF Restart, DInv, TypeOK, Versions, database
    <2>3. wrote' \in [Handlers -> 0 .. pg'] /\ seen' \in [Runners -> 0 .. asked']
      BY <1>1, <2>2, Booted, Wider DEF Restart
    <2>4. /\ handler' \in [Handlers -> {"idle", "checked", "wrote"}]
          /\ run' \in [Runners -> Stages]
          /\ \A r \in Runners : runMu' = r <=> run'[r] \in {"read", "apply"}
          /\ loop' = "sync" <=> run'[Loop] # "out"
          /\ runMu' = Free /\ loop' = "beat" /\ lastSync' = NoStatus
          /\ dirty' = FALSE /\ hung' = FALSE
      BY <1>1, Booted DEF Restart
    <2>5. TypeOK' BY <2>1, <2>2, <2>3, <2>4 DEF DInv, TypeOK
    <2>6. NoLostWakeup' /\ AppliesTheNewest'
      BY <1>1 DEF Restart, NoLostWakeup, AppliesTheNewest, Outside, AboutToRead
    <2>7. QED BY <2>5, <2>6 DEF DInv
  <1>2. CASE Failover \/ Replicate
    <2>1. /\ UNCHANGED <<handlers, dirty, loop, hung, passes>>
          /\ primary' \in BOOLEAN /\ failures' \in 0 .. MaxFailures
          /\ pg' \in Versions /\ pg' >= pg
      <3>1. primary' \in BOOLEAN
        BY <1>2, Zenon DEF Failover, Replicate, DInv, TypeOK
      <3>2. CASE Failover
        BY <3>1, <3>2, BoundsAssumption DEF Failover, Fail, DInv, TypeOK, Versions
      <3>3. CASE Replicate
        BY <3>1, <3>3, BoundsAssumption DEF Replicate, DInv, TypeOK, Versions
      <3>4. QED BY <1>2, <3>2, <3>3
    <2>2. marked' \in 0 .. pg' /\ asked' \in 0 .. pg' /\ wrote' \in [Handlers -> 0 .. pg']
      <3>1. 0 .. pg \subseteq 0 .. pg' BY <2>1 DEF DInv, TypeOK, Versions
      <3>2. QED BY <2>1, <3>1 DEF DInv, TypeOK, handlers, passes
    <2>3. TypeOK' BY <2>1, <2>2 DEF DInv, TypeOK, handlers, passes
    <2>4. NoLostWakeup' /\ AppliesTheNewest'
      BY <2>1 DEF DInv, NoLostWakeup, AppliesTheNewest, AboutToRead, handlers, passes
    <2>5. QED BY <2>3, <2>4 DEF DInv
  <1>3. CASE UNCHANGED vars
    BY <1>3
    DEF vars, DInv, TypeOK, NoLostWakeup, AppliesTheNewest, AboutToRead
  <1>4. QED BY <1>1, <1>2, <1>3

(* Every step keeps it.                                                    *)
LEMMA NextDInv == DInv /\ [Next]_vars => DInv'
  <1> SUFFICES ASSUME DInv, [Next]_vars PROVE DInv' OBVIOUS
  <1>1. ASSUME NEW h \in Handlers, Handle(h) PROVE DInv' BY <1>1, HandlerDInv
  <1>2. ASSUME NEW r \in Runners, RunSync(r) PROVE DInv'
    BY <1>2, ReadDInv, FinishDInv DEF RunSync
  <1>3. QED BY <1>1, <1>2, LoopDInv, OutsideDInv DEF Next

(* The invariant holds of every reachable state.                           *)
THEOREM DaemonInvariance == Spec => []DInv
  <1>1. QED BY InitDInv, NextDInv, PTL DEF Spec

(* Types, the mutual exclusion of passes, and the loop's place.            *)
THEOREM DaemonTypeCorrect == Spec => []TypeOK
  <1>1. DInv => TypeOK BY DEF DInv
  <1>2. QED BY <1>1, DaemonInvariance, PTL

(* No debounced signal is lost: an answered change that no pass has read   *)
(* is still signalled, or the loop is about to read, unless the loop's own  *)
(* read failed after the answer and the signal.                            *)
THEOREM WakeupsAreKept == Spec => []NoLostWakeup
  <1>1. DInv => NoLostWakeup BY DEF DInv
  <1>2. QED BY <1>1, DaemonInvariance, PTL

-----------------------------------------------------------------------------
(* Passes go forward. *)

(* A pass that ends leaves the node, or brings it to what was read last,   *)
(* and shows that or no version; no other step changes them but a restart, *)
(* which forgets the status.                                               *)
LEMMA ForwardStep == DInv /\ [Next]_vars => Forward \/ UNCHANGED vars
  <1> SUFFICES ASSUME DInv, Next PROVE Forward OBVIOUS
  <1>1. node \in Nat /\ asked \in Nat /\ node <= asked
    BY DEF DInv, TypeOK, Versions
  <1>2. CASE UNCHANGED <<node, lastSync>> BY <1>1, <1>2 DEF Forward
  <1>3. ASSUME NEW h \in Handlers, Handle(h) PROVE UNCHANGED <<node, lastSync>>
    BY <1>3
    DEF Handle, RequireMaster, Commit, Reject, CommitUnnoticed, MarkDirty, passes
  <1>4. ASSUME NEW r \in Runners, Lock(r) \/ Read(r) \/ PostSync(r)
        PROVE  UNCHANGED <<node, lastSync>>
    BY <1>4 DEF Lock, Read, PostSync
  <1>5. ASSUME NEW r \in Runners, Succeed(r) \/ FailPass(r) PROVE Forward
    <2>1. run[r] = "apply" /\ lastSync' = seen[r] /\ node' \in {node, seen[r]} /\ asked' = asked
      BY <1>5 DEF Succeed, FailPass, Finish
    <2>2. seen[r] = asked BY <2>1 DEF DInv, AppliesTheNewest
    <2>3. QED BY <1>1, <2>1, <2>2 DEF Forward
  <1>6. ASSUME NEW r \in Runners, ReadFails(r) PROVE Forward
    BY <1>1, <1>6 DEF ReadFails, Finish, Forward
  <1>7. ASSUME Beat \/ Hang \/ Tick \/ Wake \/ Failover \/ Replicate
        PROVE  UNCHANGED <<node, lastSync>>
    BY <1>7 DEF Beat, Hang, Tick, Wake, Failover, Replicate, passes
  <1>8. CASE Restart BY <1>1, <1>8 DEF Restart, Forward
  <1>9. QED BY <1>2, <1>3, <1>4, <1>5, <1>6, <1>7, <1>8 DEF Next, RunSync

(* No pass takes the node back to an older state of the database, and a    *)
(* status that begins to show a version shows the newest that was read.    *)
THEOREM PassesGoForward == Spec => NeverGoesBack
  <1>1. DInv /\ [Next]_vars => [Forward]_vars BY ForwardStep
  <1>2. QED BY <1>1, DaemonInvariance, PTL DEF Spec, NeverGoesBack

=============================================================================
