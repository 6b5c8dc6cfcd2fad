---------------------- MODULE ContactProtection_proofs ----------------------
(***************************************************************************)
(* For any nodes, any cap, table and channel sizes, any number of messages *)
(* and any outages: once the frames are through, bus and radio agree on    *)
(* every node no fault came between them for, nobody who wrote is left     *)
(* without a decision, and a protection whose frame left is not reverted.  *)
(* None of this keeps itself while frames and reports are under way: the   *)
(* invariant says what the radio's table will be once they are through     *)
(* (Favoured), what may still be reported of it before (MayHear...), and   *)
(* that until then a stamp of the running window keeps a late report out.  *)
(***************************************************************************)
EXTENDS ContactProtection, FiniteSetTheorems, SequenceTheorems, TLAPS

(* What a task may be at; a node is one it works for, or none. *)
Stage == {"idle", "session", "seed", "key", "decide", "queue", "revert", "mark",
          "clear", "answer", "fresh", "reseed", "ask", "select", "check", "remove"}
Job == [at : Stage, node : Node \cup {NoNode}, victim : Node \cup {NoNode},
        gen : Nat, spare : SUBSET Node]
Frames == [kind : {"connected", "drained", "sync", "contacts", "short", "path",
                   "contact", "full", "protect", "remove"},
           node : Node \cup {NoNode}, fav : BOOLEAN]
Stamp == 0 .. MaxTime \cup {Never}
RecordType == [full : BOOLEAN, bit : BOOLEAN, protectedAt : Stamp,
               unprotectedAt : Stamp, gen : Nat]

Types ==
  /\ DOMAIN bus \in SUBSET Node
  /\ bus \in [DOMAIN bus -> RecordType]
  /\ session \in [Node -> {"none", "unkeyed", "keyed"}]
  /\ pending \in SUBSET Node
  /\ cooling \in BOOLEAN /\ draining \in BOOLEAN /\ online \in BOOLEAN
  /\ task \in [Thread -> Job]
  /\ removals \in SUBSET Node
  /\ cmd \in Seq(Frames) /\ events \in Seq(Frames)
  /\ DOMAIN table \in SUBSET Node
  /\ table \in [DOMAIN table -> BOOLEAN]
  /\ now \in 0 .. MaxTime
  /\ excused \in SUBSET Node /\ tried \in SUBSET Node
  /\ sent \in [Node -> Nat]

(* The frames with a node are the ones about a contact, and who works for a
   node has one. *)
Places ==
  /\ \A i \in DOMAIN cmd :
       cmd[i] \in {Frame("sync", NoNode), Frame("contacts", NoNode)}
                  \cup {Frame(k, n) : k \in {"protect", "remove"}, n \in Node}
  /\ \A i \in DOMAIN events : events[i].kind \in {"short", "path", "contact"} =>
       events[i].node \in Node
  /\ task["loop"].at \notin {"session", "seed", "key", "answer", "fresh", "reseed"}
  /\ task["worker"].at \notin {"ask", "select", "check", "remove"}
  /\ \A t \in Thread : task[t].node \in Node <=> task[t].at \notin {"idle", "select"}
  /\ \A t \in Thread : task[t].at = "queue" => task[t].victim # task[t].node
  /\ \A t \in Thread : task[t].at \in {"queue", "revert"} => task[t].gen # 0

(* A record: the stamps are in the past, a stub has no history, the radio's
   word never stands against a stamp of the running window. *)
RecordOK(r) ==
  /\ r.protectedAt \in 0 .. now \cup {Never} /\ r.unprotectedAt \in 0 .. now \cup {Never}
  /\ ~r.full => r = NewRecord
  /\ r.gen = 0 => ~r.bit /\ r.unprotectedAt = Never
  /\ r.bit => r.unprotectedAt # now
  /\ ~r.bit => r.protectedAt # now
Records == \A n \in Node : RecordOK(Record(n))

Holds(t, n) == task[t].at \in {"queue", "revert"} /\ task[t].node = n
Owes(t, n) == Holds(t, n) /\ task[t].gen = Record(n).gen
Frees(t, n) == task[t].at = "queue" /\ task[t].victim = n
Removes(n) == task["loop"].at = "remove" /\ task["loop"].node = n

(* Every transition of a record has a number of its own: a task holds the one
   it made, and no other task, nor a queued frame, has the same. *)
Numbered(n) ==
  /\ sent[n] <= Record(n).gen
  /\ \A t \in Thread : Holds(t, n) =>
       /\ task[t].gen \in 1 .. Record(n).gen
       /\ task[t].gen # sent[n]
       /\ task[t].gen = Record(n).gen => Record(n).bit
       /\ \A u \in Thread \ {t} : Holds(u, n) => task[u].gen # task[t].gen
  /\ Removes(n) => /\ task["loop"].gen <= Record(n).gen
                   /\ task["loop"].gen = Record(n).gen => ~Record(n).bit
Generations == \A n \in Node \ excused : Numbered(n)

(* What the radio's table will say of a node once the frames on their way to it
   have been taken. *)
Asked(kind, n) == \E i \in DOMAIN cmd : cmd[i] = Frame(kind, n)
Favoured(n) ==
  \/ \E i \in DOMAIN cmd : /\ cmd[i] = Frame("protect", n)
                           /\ \A j \in DOMAIN cmd : j > i => cmd[j] # Frame("remove", n)
  \/ /\ n \in DOMAIN table /\ table[n]
     /\ ~Asked("remove", n)

(* What a report may still say of a node, from the ones already made to what
   the frames on their way will lead to. *)
Told(n, fav) == \E i \in DOMAIN events : events[i] = Contact(n, fav)
MayHearTrue(n) == \/ Told(n, TRUE)
                  \/ n \in DOMAIN table /\ table[n]
                  \/ Asked("protect", n)
MayHearFalse(n) == \/ Told(n, FALSE)
                   \/ ~(n \in DOMAIN table /\ table[n])
                   \/ Asked("remove", n)

(* Somebody is yet to remove the node from the radio. *)
Leaving(n) ==
  \/ n \in removals
  \/ \E t \in Thread : Frees(t, n)
  \/ task["loop"].at = "check" /\ task["loop"].node = n
  \/ Removes(n)

(* Bus and radio agree on a node, as far as what is under way between them goes:
   nothing was ever decided on a stub; who is protected is or will be a
   favourite; who is not, is none or leaves. A report that says otherwise finds
   the stamp that keeps it out. *)
Untouched(n) ==
  /\ ~Asked("protect", n) /\ ~Asked("remove", n)
  /\ ~MayHearTrue(n) \/ ~MayHearFalse(n)
  /\ n \notin removals
  /\ \A t \in Thread : ~Holds(t, n) /\ ~Frees(t, n)
Kept(n) ==
  /\ Favoured(n) \/ \E t \in Thread : Owes(t, n)
  /\ Record(n).protectedAt = now \/ ~MayHearFalse(n)
  /\ \A t \in Thread : Owes(t, n) /\ task[t].gen = 1 => ~MayHearTrue(n)
Released(n) ==
  /\ ~Favoured(n) \/ Leaving(n)
  /\ Record(n).unprotectedAt = now \/ ~MayHearTrue(n)
Agrees(n) ==
  /\ ~Record(n).full => Untouched(n)
  /\ Record(n).bit => Kept(n)
  /\ Record(n).full /\ ~Record(n).bit => Released(n)
Agreement == \A n \in Node \ excused : Agrees(n)

(* A session without its key is one the bus has no record for, or one whose
   record is just being looked up. *)
Keys ==
  /\ \A n \in Node \cap DOMAIN bus : session[n] = "unkeyed" =>
       task["worker"].node = n /\ task["worker"].at \in {"seed", "reseed"}
  /\ task["worker"].at \in {"seed", "key"} => session[task["worker"].node] # "none"
  /\ task["worker"].at = "reseed" => session[task["worker"].node] # "none"

(* Somebody will decide on the node: the worker on its way to it, or the event
   loop when it finds the mark. *)
For(t, n, at) == task[t].node = n /\ task[t].at \in at
Working(n) == For("worker", n, {"session", "seed", "key", "decide"})
Asking(n) ==
  For("loop", n, {"decide"}) \/ (For("loop", n, {"ask"}) /\ n \in pending)
Decided(n) == n \in tried \/ Working(n)
Full(n) == Record(n).full
Marked(n) ==
  /\ n \in pending /\ Full(n) => Decided(n) \/ Asking(n)
  /\ Working(n) \/ For("worker", n, {"mark"}) => n \in pending \/ Full(n)
  /\ For("worker", n, {"mark"}) /\ Full(n) => n \in tried \/ Asking(n)
  /\ For("worker", n, {"queue", "revert", "clear"}) => n \in tried /\ Full(n)
  /\ For("loop", n, {"queue", "revert", "clear"}) => Full(n) /\ Decided(n)
  /\ For("loop", n, {"mark"}) /\ Full(n) => Decided(n)
Marks == \A n \in Node \ excused : Marked(n)

Inv == Types /\ Places /\ Records /\ Generations /\ Agreement /\ Keys /\ Marks

-----------------------------------------------------------------------------
(* Types. *)

(* What the bus has of a node is a record, whether there is one or not. *)
LEMMA RecordType1 ==
  ASSUME Types, NEW n \in Node
  PROVE  Record(n) \in RecordType
<1>1. NewRecord \in RecordType
  BY TimeAssumption DEF NewRecord, RecordType, Stamp, Never
<1>2. n \in DOMAIN bus => bus[n] \in RecordType
  BY DEF Types
<1> QED BY <1>1, <1>2 DEF Record

(* Putting a record of the right shape keeps the bus's. *)
LEMMA PutTypes ==
  ASSUME Types, NEW n \in Node, NEW r \in RecordType, Put(n, r)
  PROVE  /\ DOMAIN bus' \in SUBSET Node /\ bus' \in [DOMAIN bus' -> RecordType]
         /\ Record(n)' = r
         /\ \A m \in Node \ {n} : Record(m)' = Record(m)
         /\ DOMAIN bus' = DOMAIN bus \cup {n}
<1>1. bus' = [m \in DOMAIN bus \cup {n} |-> IF m = n THEN r ELSE bus[m]]
  BY DEF Put
<1>2. DOMAIN bus \in SUBSET Node /\ bus \in [DOMAIN bus -> RecordType]
  BY DEF Types
<1> QED BY <1>1, <1>2 DEF Record

(* A record of the bus is replaced in place. *)
LEMMA ReplaceTypes ==
  ASSUME Types, NEW n \in DOMAIN bus, NEW r \in RecordType,
         bus' = [bus EXCEPT ![n] = r]
  PROVE  /\ n \in Node
         /\ DOMAIN bus' \in SUBSET Node /\ bus' \in [DOMAIN bus' -> RecordType]
         /\ Record(n)' = r
         /\ \A m \in Node \ {n} : Record(m)' = Record(m)
         /\ DOMAIN bus' = DOMAIN bus
<1>2. DOMAIN bus \in SUBSET Node /\ bus \in [DOMAIN bus -> RecordType]
  BY DEF Types
<1> QED BY <1>2 DEF Record

(* The three ways a record makes a transition, and a report of the radio. *)
Protected(r) == [r EXCEPT !.bit = TRUE, !.protectedAt = now,
                          !.unprotectedAt = Never, !.gen = @ + 1]
Unprotected(r) == [r EXCEPT !.bit = FALSE, !.protectedAt = Never,
                            !.unprotectedAt = now, !.gen = @ + 1]
Reverted(r) == [r EXCEPT !.bit = FALSE, !.protectedAt = Never, !.gen = @ + 1]
Reported(r, bit, gen, at) == [r EXCEPT !.full = TRUE, !.bit = bit, !.gen = gen,
                                       !.protectedAt = at]
LEMMA Transitions ==
  ASSUME now \in 0 .. MaxTime, NEW r \in RecordType
  PROVE  /\ Protected(r) \in [full : {r.full}, bit : {TRUE}, protectedAt : {now},
                              unprotectedAt : {Never}, gen : {r.gen + 1}]
         /\ Unprotected(r) \in [full : {r.full}, bit : {FALSE}, protectedAt : {Never},
                                unprotectedAt : {now}, gen : {r.gen + 1}]
         /\ Reverted(r) \in [full : {r.full}, bit : {FALSE}, protectedAt : {Never},
                             unprotectedAt : {r.unprotectedAt}, gen : {r.gen + 1}]
         /\ Protected(r) \in RecordType /\ Unprotected(r) \in RecordType
         /\ Reverted(r) \in RecordType
<1>1. Never \in Stamp /\ now \in Stamp
  BY TimeAssumption DEF Stamp, Never
<1> HIDE DEF Stamp, Never
<1>4. Protected(r) \in [full : {r.full}, bit : {TRUE}, protectedAt : {now},
                        unprotectedAt : {Never}, gen : {r.gen + 1}]
  BY DEF Protected, RecordType
<1>5. Unprotected(r) \in [full : {r.full}, bit : {FALSE}, protectedAt : {Never},
                          unprotectedAt : {now}, gen : {r.gen + 1}]
  BY DEF Unprotected, RecordType
<1>6. Reverted(r) \in [full : {r.full}, bit : {FALSE}, protectedAt : {Never},
                       unprotectedAt : {r.unprotectedAt}, gen : {r.gen + 1}]
  BY DEF Reverted, RecordType
<1>7. r.full \in BOOLEAN /\ r.unprotectedAt \in Stamp /\ r.gen + 1 \in Nat
  BY DEF RecordType
<1>8. Protected(r) \in RecordType
  BY <1>1, <1>4, <1>7 DEF RecordType
<1>9. Unprotected(r) \in RecordType
  BY <1>1, <1>5, <1>7 DEF RecordType
<1>10. Reverted(r) \in RecordType
  BY <1>1, <1>6, <1>7 DEF RecordType
<1> QED BY <1>4, <1>5, <1>6, <1>8, <1>9, <1>10

LEMMA Reports ==
  ASSUME NEW r \in RecordType, NEW bit \in BOOLEAN, NEW gen \in Nat, NEW at \in Stamp
  PROVE  /\ Reported(r, bit, gen, at) \in
              [full : {TRUE}, bit : {bit}, protectedAt : {at},
               unprotectedAt : {r.unprotectedAt}, gen : {gen}]
         /\ Reported(r, bit, gen, at) \in RecordType
<1> HIDE DEF Stamp
<1>1. Reported(r, bit, gen, at) \in
              [full : {TRUE}, bit : {bit}, protectedAt : {at},
               unprotectedAt : {r.unprotectedAt}, gen : {gen}]
  BY DEF Reported, RecordType
<1>2. Reported(r, bit, gen, at) \in RecordType
  BY DEF Reported, RecordType
<1> QED BY <1>1, <1>2

(* The bus's calls, each as what it does to the record. *)
LEMMA BusCalls ==
  ASSUME Types
  PROVE  /\ \A n \in DOMAIN bus : Protect(bus, n) = [bus EXCEPT ![n] = Protected(bus[n])]
         /\ \A n \in DOMAIN bus : Unprotect(bus, n) = [bus EXCEPT ![n] = Unprotected(bus[n])]
<1>1. bus \in [DOMAIN bus -> RecordType]
  BY DEF Types
<1>2. ASSUME NEW n \in DOMAIN bus
      PROVE  Protect(bus, n) = [bus EXCEPT ![n] = Protected(bus[n])]
  BY <1>1 DEF Protect, Protected, RecordType
<1>3. ASSUME NEW n \in DOMAIN bus
      PROVE  Unprotect(bus, n) = [bus EXCEPT ![n] = Unprotected(bus[n])]
  BY <1>1 DEF Unprotect, Unprotected, RecordType
<1> QED BY <1>2, <1>3

(* What a step makes of the task it belongs to. *)
Moves(t, at, node, victim, gen) ==
  /\ task' \in [Thread -> Job]
  /\ task'[t].at = at /\ task'[t].node = node
  /\ task'[t].victim = victim /\ task'[t].gen = gen
  /\ \A u \in Thread \ {t} : task'[u] = task[u]

LEMMA MoveTypes ==
  ASSUME task \in [Thread -> Job], NEW t \in Thread, NEW j \in Job,
         task' = [task EXCEPT ![t] = j]
  PROVE  Moves(t, j.at, j.node, j.victim, j.gen)
BY DEF Moves

LEMMA GotoMoves ==
  ASSUME task \in [Thread -> Job], NEW t \in Thread, NEW at \in Stage, Goto(t, at)
  PROVE  Moves(t, at, task[t].node, task[t].victim, task[t].gen)
<1> HIDE DEF Stage
<1>1. task' = [task EXCEPT ![t] = [task[t] EXCEPT !.at = at]]
  BY DEF Goto, Job
<1>2. [task[t] EXCEPT !.at = at] \in Job
  BY DEF Job
<1>3. [task[t] EXCEPT !.at = at] \in
        [at : {at}, node : {task[t].node}, victim : {task[t].victim},
         gen : {task[t].gen}, spare : {task[t].spare}]
  BY DEF Job
<1> QED BY <1>1, <1>2, <1>3 DEF Moves

LEMMA AttemptMoves ==
  ASSUME task \in [Thread -> Job], NEW t \in Thread, Attempt(t)
  PROVE  Moves(t, "decide", task[t].node, task[t].victim, task[t].gen)
<1> DEFINE j == [task[t] EXCEPT !.at = "decide", !.spare = InSession]
<1>0. "decide" \in Stage /\ InSession \in SUBSET Node
  BY DEF Stage, InSession
<1> HIDE DEF Stage, InSession
<1>1. task' = [task EXCEPT ![t] = j]
  BY DEF Attempt, Job
<1>2. j \in Job
  BY <1>0 DEF Job
<1>3. j \in [at : {"decide"}, node : {task[t].node}, victim : {task[t].victim},
             gen : {task[t].gen}, spare : {InSession}]
  BY DEF Job
<1> QED BY <1>1, <1>2, <1>3 DEF Moves

(* Work on a node that begins with nothing else known. *)
LEMMA FreshMoves ==
  ASSUME task \in [Thread -> Job], NEW t \in Thread, NEW at \in Stage,
         NEW n \in Node \cup {NoNode},
         \/ task' = [task EXCEPT ![t] = [Idle EXCEPT !.at = at, !.node = n]]
         \/ /\ n = NoNode
            /\ \E s \in SUBSET Node :
                 task' = [task EXCEPT ![t] = [Idle EXCEPT !.at = at, !.spare = s]]
  PROVE  Moves(t, at, n, NoNode, 0)
<1> HIDE DEF Stage
<1>0. "idle" \in Stage
  BY DEF Stage
<1>1. ASSUME NEW s \in SUBSET Node
      PROVE  /\ [Idle EXCEPT !.at = at, !.spare = s] \in Job
             /\ [Idle EXCEPT !.at = at, !.spare = s] \in
                  [at : {at}, node : {NoNode}, victim : {NoNode}, gen : {0}, spare : {s}]
  BY DEF Idle, Job
<1>2. /\ [Idle EXCEPT !.at = at, !.node = n] \in Job
      /\ [Idle EXCEPT !.at = at, !.node = n] \in
           [at : {at}, node : {n}, victim : {NoNode}, gen : {0}, spare : {{}}]
  BY DEF Idle, Job
<1> QED BY <1>1, <1>2, ZenonT(30) DEF Moves

LEMMA RestMoves ==
  ASSUME task \in [Thread -> Job], NEW t \in Thread, Rest(t)
  PROVE  Moves(t, "idle", NoNode, NoNode, 0)
<1>1. Idle \in Job /\ Idle \in [at : {"idle"}, node : {NoNode}, victim : {NoNode},
                                gen : {0}, spare : {{}}]
  BY DEF Idle, Job, Stage
<1> QED BY <1>1 DEF Moves, Rest

LEMMA ConcludeMoves ==
  ASSUME task \in [Thread -> Job], NEW t \in Thread, Conclude(t)
  PROVE  \/ t = "worker" /\ Moves(t, "answer", task[t].node, NoNode, 0)
         \/ t = "loop" /\ Moves(t, "idle", NoNode, NoNode, 0)
<1>1. "answer" \in Stage /\ task[t].node \in Node \cup {NoNode}
  BY DEF Job, Stage
<1>2. CASE t = "worker"
  <2>1. task' = [task EXCEPT ![t] = [Idle EXCEPT !.at = "answer", !.node = task[t].node]]
    BY <1>2 DEF Conclude
  <2> QED BY <2>1, <1>1, <1>2, FreshMoves
<1>3. CASE t = "loop"
  BY <1>3, RestMoves DEF Conclude, Thread
<1> QED BY <1>2, <1>3 DEF Thread

LEMMA LoopDoesMoves ==
  ASSUME task \in [Thread -> Job], NEW at \in Stage, NEW n \in Node \cup {NoNode},
         LoopDoes(at, n)
  PROVE  Moves("loop", at, n, NoNode, 0)
<1>1. "loop" \in Thread
  BY DEF Thread
<1>2. task' = [task EXCEPT !["loop"] = [Idle EXCEPT !.at = at, !.node = n]]
  BY DEF LoopDoes
<1> QED BY <1>1, <1>2, FreshMoves

LEMMA LoopRemovesMoves ==
  ASSUME Types, NEW n \in Node, LoopRemoves(n)
  PROVE  Moves("loop", "remove", task["loop"].node, task["loop"].victim, Record(n).gen)
<1> DEFINE j == [task["loop"] EXCEPT !.at = "remove", !.gen = Record(n).gen]
<1>0. "remove" \in Stage /\ "loop" \in Thread /\ task \in [Thread -> Job]
  BY DEF Stage, Thread, Types
<1>1. Record(n).gen \in Nat
  BY RecordType1 DEF RecordType
<1> HIDE DEF Stage, Record
<1>2. task' = [task EXCEPT !["loop"] = j]
  BY <1>0 DEF LoopRemoves, Job
<1>3. j \in Job
  BY <1>0, <1>1 DEF Job
<1>4. j \in [at : {"remove"}, node : {task["loop"].node}, victim : {task["loop"].victim},
             gen : {Record(n).gen}, spare : {task["loop"].spare}]
  BY <1>0 DEF Job
<1> QED BY <1>0, <1>2, <1>3, <1>4 DEF Moves

-----------------------------------------------------------------------------
(* What each step does to the bus. *)

BusTypes == DOMAIN bus \in SUBSET Node /\ bus \in [DOMAIN bus -> RecordType]
Others(S) == \A m \in Node \ S : Record(m)' = Record(m)

LEMMA BusSame ==
  ASSUME Types, UNCHANGED bus
  PROVE  BusTypes' /\ Others({}) /\ DOMAIN bus' = DOMAIN bus
BY DEF Types, BusTypes, Others, Record

LEMMA CommitEffect ==
  ASSUME Types, NEW t \in Thread, NEW n \in DOMAIN bus, task[t].node = n,
         NEW v \in {NoNode} \cup (DOMAIN bus \ {n}), Commit(t, v)
  PROVE  /\ n \in Node
         /\ BusTypes' /\ DOMAIN bus' = DOMAIN bus
         /\ Record(n)' = Protected(Record(n))
         /\ v # NoNode => Record(v)' = Unprotected(Record(v))
         /\ Others({n, v})
         /\ Moves(t, "queue", n, v, Record(n).gen + 1)
<1> DEFINE freed == IF v = NoNode THEN bus ELSE Unprotect(bus, v)
<1>0. /\ DOMAIN bus \in SUBSET Node /\ bus \in [DOMAIN bus -> RecordType]
      /\ now \in 0 .. MaxTime /\ task \in [Thread -> Job] /\ n \in Node
  BY DEF Types
<1>1. NoNode \notin DOMAIN bus
  BY <1>0, NodesAssumption
<1>2. \A m \in DOMAIN bus : /\ bus[m] \in RecordType
                            /\ Protected(bus[m]) \in RecordType
                            /\ Unprotected(bus[m]) \in RecordType
                            /\ Protected(bus[m]).gen = bus[m].gen + 1
  BY <1>0, Transitions
<1>3. v # NoNode => freed = [bus EXCEPT ![v] = Unprotected(bus[v])]
  BY BusCalls
<1>4. freed \in [DOMAIN bus -> RecordType] /\ freed[n] = bus[n] /\ DOMAIN freed = DOMAIN bus
      /\ (v # NoNode => freed[v] = Unprotected(bus[v]))
      /\ \A m \in DOMAIN bus \ {v} : freed[m] = bus[m]
  BY <1>0, <1>1, <1>2, <1>3
<1>5. bus' = Protect(freed, n)
  BY DEF Commit
<1> HIDE DEF freed
<1>6. Protect(freed, n) = [freed EXCEPT ![n] = Protected(freed[n])]
  BY <1>4 DEF Protect, Protected, RecordType
<1>7. bus' = [freed EXCEPT ![n] = Protected(bus[n])]
  BY <1>4, <1>5, <1>6
<1>8. /\ BusTypes' /\ DOMAIN bus' = DOMAIN bus /\ bus'[n] = Protected(bus[n])
      /\ v # NoNode => bus'[v] = Unprotected(bus[v])
      /\ \A m \in DOMAIN bus \ {n, v} : bus'[m] = bus[m]
  BY <1>0, <1>2, <1>4, <1>7 DEF BusTypes
<1>9. /\ Record(n)' = Protected(Record(n))
      /\ v # NoNode => Record(v)' = Unprotected(Record(v))
      /\ Others({n, v})
  BY <1>8, <1>0 DEF Record, Others
<1>10. Moves(t, "queue", n, v, Record(n).gen + 1)
  <2> DEFINE j == [task[t] EXCEPT !.at = "queue", !.victim = v, !.gen = bus'[n].gen]
  <2>1. "queue" \in Stage /\ v \in Node \cup {NoNode} /\ bus'[n].gen \in Nat
        /\ bus'[n].gen = Record(n).gen + 1 /\ task[t] \in Job
    BY <1>0, <1>2, <1>8 DEF Stage, RecordType, Record
  <2> HIDE DEF Stage
  <2>2. task' = [task EXCEPT ![t] = j]
    BY <1>0 DEF Commit, Job
  <2>3. j \in Job
    BY <2>1 DEF Job
  <2>4. j \in [at : {"queue"}, node : {n}, victim : {v}, gen : {bus'[n].gen},
               spare : {task[t].spare}]
    BY <2>1 DEF Job
  <2> QED BY <1>0, <2>1, <2>2, <2>3, <2>4 DEF Moves
<1> QED BY <1>0, <1>8, <1>9, <1>10

LEMMA UnprotectEffect ==
  ASSUME Types, NEW n \in DOMAIN bus, bus' = Unprotect(bus, n)
  PROVE  /\ BusTypes' /\ DOMAIN bus' = DOMAIN bus
         /\ n \in Node /\ Record(n)' = Unprotected(Record(n)) /\ Others({n})
<1>1. bus' = [bus EXCEPT ![n] = Unprotected(bus[n])]
  BY BusCalls
<1>2. bus[n] \in RecordType /\ now \in 0 .. MaxTime /\ bus[n] = Record(n)
  BY DEF Types, Record
<1>3. Unprotected(bus[n]) \in RecordType
  BY <1>2, Transitions
<1> QED BY <1>1, <1>2, <1>3, ReplaceTypes DEF BusTypes, Others

LEMMA RevertEffect ==
  ASSUME Types, NEW n \in Node, NEW g, RevertProtect(n, g)
  PROVE  /\ BusTypes' /\ DOMAIN bus' = DOMAIN bus /\ Others({n})
         /\ IF n \in DOMAIN bus /\ Record(n).gen = g
            THEN Record(n)' = Reverted(Record(n))
            ELSE bus' = bus /\ Record(n)' = Record(n)
<1>0. now \in 0 .. MaxTime /\ bus \in [DOMAIN bus -> RecordType]
  BY DEF Types
<1>1. CASE n \in DOMAIN bus /\ bus[n].gen = g
  <2>1. bus[n] \in RecordType /\ bus[n] = Record(n)
    BY <1>0, <1>1 DEF Record
  <2>2. Reverted(bus[n]) \in RecordType
    BY <2>1, <1>0, Transitions
  <2>3. bus' = [bus EXCEPT ![n] = Reverted(bus[n])]
    BY <1>0, <1>1 DEF RevertProtect, Reverted, RecordType
  <2> QED BY <1>1, <2>1, <2>2, <2>3, ReplaceTypes DEF BusTypes, Others
<1>2. CASE ~(n \in DOMAIN bus /\ bus[n].gen = g)
  <2>1. bus' = bus
    BY <1>2 DEF RevertProtect
  <2> QED BY <1>2, <2>1, BusSame DEF Others, Record
<1> QED BY <1>1, <1>2

LEMMA UpsertShortEffect ==
  ASSUME Types, NEW n \in Node, UpsertShort(n)
  PROVE  BusTypes' /\ Others({}) /\ DOMAIN bus' = DOMAIN bus \cup {n}
<1>1. Record(n) \in RecordType
  BY RecordType1
<1>2. Put(n, Record(n))
  BY DEF UpsertShort
<1> HIDE DEF Put
<1> QED BY <1>1, <1>2, PutTypes DEF BusTypes, Others

(* The bit a report leaves a record with, its generation and its stamp. *)
LEMMA UpsertContactEffect ==
  ASSUME Types, NEW n \in Node, NEW fav \in BOOLEAN, UpsertContact(n, fav)
  PROVE  /\ BusTypes' /\ Others({n}) /\ DOMAIN bus' = DOMAIN bus \cup {n}
         /\ \E at \in Stamp : \E bit \in BOOLEAN : \E gen \in Nat :
              /\ Record(n)' = Reported(Record(n), bit, gen, at)
              /\ bit <=> Merged(Record(n), fav)
              /\ IF bit = Record(n).bit THEN gen = Record(n).gen /\ at = Record(n).protectedAt
                 ELSE /\ gen = Record(n).gen + 1
                      /\ at = Record(n).protectedAt \/ (at = now /\ n \notin DOMAIN bus)
<1> DEFINE r == Record(n)
           bit == Merged(r, fav)
           gen == IF bit # r.bit THEN r.gen + 1 ELSE r.gen
           at == IF bit # r.bit /\ n \notin DOMAIN bus THEN now ELSE r.protectedAt
<1>1. r \in RecordType /\ now \in 0 .. MaxTime
  BY RecordType1 DEF Types
<1>a. bit \in BOOLEAN
  BY DEF Merged
<1>2. gen \in Nat /\ at \in Stamp
  BY <1>1 DEF RecordType, Stamp
<1>3. Put(n, [r EXCEPT !.full = TRUE, !.bit = bit, !.gen = gen, !.protectedAt = at])
  BY <1>1 DEF UpsertContact, RecordType
<1>4. Put(n, Reported(r, bit, gen, at))
  BY <1>3 DEF Reported
<1>5. Reported(r, bit, gen, at) \in RecordType
  BY <1>1, <1>a, <1>2, Reports
<1> HIDE DEF Put
<1>6. BusTypes' /\ Record(n)' = Reported(r, bit, gen, at) /\ Others({n})
      /\ DOMAIN bus' = DOMAIN bus \cup {n}
  BY <1>4, <1>5, PutTypes DEF BusTypes, Others
<1>7. /\ bit <=> Merged(r, fav)
      /\ IF bit = r.bit THEN gen = r.gen /\ at = r.protectedAt
         ELSE gen = r.gen + 1 /\ (at = r.protectedAt \/ (at = now /\ n \notin DOMAIN bus))
  OBVIOUS
<1> QED BY <1>a, <1>2, <1>6, <1>7

LEMMA ClearEffect ==
  ASSUME Types, ClearUnprotected
  PROVE  /\ BusTypes' /\ DOMAIN bus' \subseteq DOMAIN bus
         /\ excused \subseteq excused' /\ excused' \in SUBSET Node
         /\ \A n \in Node \ excused' : Record(n)' = Record(n) /\ (n \in DOMAIN bus' <=> n \in DOMAIN bus)
<1>1. /\ bus' = [n \in {m \in DOMAIN bus : IsProtected(m)} |-> bus[n]]
      /\ excused' = excused \cup (DOMAIN bus \ DOMAIN bus')
  BY DEF ClearUnprotected
<1>2. /\ DOMAIN bus \in SUBSET Node /\ bus \in [DOMAIN bus -> RecordType]
      /\ excused \in SUBSET Node
  BY DEF Types
<1> HIDE DEF IsProtected
<1> QED BY <1>1, <1>2 DEF BusTypes, Record

-----------------------------------------------------------------------------
(* What each step does to the frames under way and to the radio's table. *)

RadioSteady(n) ==
  /\ Favoured(n)' <=> Favoured(n)
  /\ MayHearTrue(n)' => MayHearTrue(n)
  /\ MayHearFalse(n)' => MayHearFalse(n)
  /\ Asked("protect", n)' => Asked("protect", n)
  /\ Asked("remove", n)' => Asked("remove", n)

(* New reports say what the table says; one may come with an entry the table
   did not have. *)
LEMMA ReportsSteady ==
  ASSUME NEW n, UNCHANGED cmd,
         table' = table \/ (/\ n \in DOMAIN table' => (n \in DOMAIN table \/ ~table'[n])
                            /\ n \in DOMAIN table => n \in DOMAIN table' /\ table'[n] = table[n]),
         \A fav \in BOOLEAN : Told(n, fav)' =>
            Told(n, fav) \/ (fav <=> (n \in DOMAIN table /\ table[n]))
  PROVE  RadioSteady(n)
<1>1. Favoured(n)' <=> Favoured(n)
  BY DEF Favoured, Asked
<1>2. MayHearTrue(n)' => MayHearTrue(n)
  BY DEF MayHearTrue, Asked
<1>3. MayHearFalse(n)' => MayHearFalse(n)
  BY DEF MayHearFalse, Asked
<1> QED BY <1>1, <1>2, <1>3 DEF RadioSteady, Asked

LEMMA RadioSame ==
  ASSUME NEW n, UNCHANGED <<cmd, table, events>>
  PROVE  RadioSteady(n)
BY DEF RadioSteady, Favoured, MayHearTrue, MayHearFalse, Asked, Told

(* The event loop takes a frame. *)
LEMMA TakenTold ==
  ASSUME events \in Seq(Frames), events # <<>>, events' = Tail(events), NEW n, NEW fav
  PROVE  Told(n, fav)' => Told(n, fav)
<1>1. DOMAIN events = 1 .. Len(events) /\ DOMAIN events' = 1 .. Len(events) - 1
  BY HeadTailProperties
<1>2. \A i \in 1 .. Len(events) - 1 : events'[i] = events[i + 1] /\ i + 1 \in 1 .. Len(events)
  BY HeadTailProperties
<1> QED BY <1>1, <1>2 DEF Told

(* A frame about another node, or about none. *)
LEMMA OtherAppended ==
  ASSUME cmd \in Seq(Frames), NEW f, cmd' = Append(cmd, f), UNCHANGED <<table, events>>,
         NEW n, f # Frame("protect", n), f # Frame("remove", n)
  PROVE  RadioSteady(n)
<1>1. /\ DOMAIN cmd = 1 .. Len(cmd) /\ DOMAIN cmd' = 1 .. Len(cmd) + 1
      /\ cmd'[Len(cmd) + 1] = f /\ Len(cmd) \in Nat
      /\ \A i \in 1 .. Len(cmd) : cmd'[i] = cmd[i]
  OBVIOUS
<1> HIDE DEF Frame
<1>2. Asked("protect", n)' <=> Asked("protect", n)
  BY <1>1 DEF Asked
<1>3. Asked("remove", n)' <=> Asked("remove", n)
  BY <1>1 DEF Asked
<1>4. Favoured(n)' <=> Favoured(n)
  <2>1. ASSUME NEW i \in 1 .. Len(cmd)
        PROVE  (\A j \in DOMAIN cmd' : j > i => cmd'[j] # Frame("remove", n)) <=>
               (\A j \in DOMAIN cmd : j > i => cmd[j] # Frame("remove", n))
    BY <1>1
  <2>2. (\E i \in DOMAIN cmd' : /\ cmd'[i] = Frame("protect", n)
                                /\ \A j \in DOMAIN cmd' : j > i => cmd'[j] # Frame("remove", n))
        <=> (\E i \in DOMAIN cmd : /\ cmd[i] = Frame("protect", n)
                                /\ \A j \in DOMAIN cmd : j > i => cmd[j] # Frame("remove", n))
    BY <1>1, <2>1
  <2> QED BY <1>3, <2>2 DEF Favoured
<1> QED BY <1>2, <1>3, <1>4 DEF RadioSteady, MayHearTrue, MayHearFalse, Told

(* A protection that is queued comes last; so does a removal. *)
LEMMA ProtectAppended ==
  ASSUME cmd \in Seq(Frames), NEW n, cmd' = Append(cmd, Frame("protect", n)),
         UNCHANGED <<table, events>>
  PROVE  /\ Favoured(n)'
         /\ MayHearFalse(n)' => MayHearFalse(n)
<1>1. /\ DOMAIN cmd = 1 .. Len(cmd) /\ DOMAIN cmd' = 1 .. Len(cmd) + 1
      /\ cmd'[Len(cmd) + 1] = Frame("protect", n) /\ Len(cmd) \in Nat
      /\ \A i \in 1 .. Len(cmd) : cmd'[i] = cmd[i]
  OBVIOUS
<1>2. Frame("protect", n) # Frame("remove", n)
  BY DEF Frame
<1> HIDE DEF Frame
<1>3. Favoured(n)'
  BY <1>1 DEF Favoured
<1>4. Asked("remove", n)' => Asked("remove", n)
  BY <1>1, <1>2 DEF Asked
<1> QED BY <1>3, <1>4 DEF MayHearFalse, Told

LEMMA RemovalAppended ==
  ASSUME cmd \in Seq(Frames), NEW n, cmd' = Append(cmd, Frame("remove", n)),
         UNCHANGED <<table, events>>
  PROVE  /\ ~Favoured(n)'
         /\ MayHearTrue(n)' => MayHearTrue(n)
<1>1. /\ DOMAIN cmd = 1 .. Len(cmd) /\ DOMAIN cmd' = 1 .. Len(cmd) + 1
      /\ cmd'[Len(cmd) + 1] = Frame("remove", n) /\ Len(cmd) \in Nat
      /\ \A i \in 1 .. Len(cmd) : cmd'[i] = cmd[i]
  OBVIOUS
<1>2. Frame("protect", n) # Frame("remove", n)
  BY DEF Frame
<1> HIDE DEF Frame
<1>3. ~Favoured(n)'
  <2>1. Asked("remove", n)'
    BY <1>1 DEF Asked
  <2>2. ASSUME NEW i \in DOMAIN cmd', cmd'[i] = Frame("protect", n)
        PROVE  ~\A j \in DOMAIN cmd' : j > i => cmd'[j] # Frame("remove", n)
    <3>1. i # Len(cmd) + 1
      BY <1>1, <1>2, <2>2
    <3> QED BY <1>1, <2>2, <3>1
  <2> QED BY <2>1, <2>2 DEF Favoured
<1>4. Asked("protect", n)' => Asked("protect", n)
  BY <1>1, <1>2 DEF Asked
<1> QED BY <1>3, <1>4 DEF MayHearTrue, Told

(* The head of the queue goes: to the table as well, or to where it has nothing
   to say of the node. *)
LEMMA HeadGone ==
  ASSUME cmd \in Seq(Frames), cmd # <<>>, cmd' = Tail(cmd), NEW n,
         \A fav \in BOOLEAN : Told(n, fav)' =>
            Told(n, fav) \/ (fav <=> (n \in DOMAIN table /\ table[n])),
         CASE Head(cmd) = Frame("protect", n) -> n \in DOMAIN table' /\ table'[n]
           [] Head(cmd) = Frame("remove", n) -> n \notin DOMAIN table'
           [] OTHER -> (n \in DOMAIN table' /\ table'[n]) <=> (n \in DOMAIN table /\ table[n])
  PROVE  RadioSteady(n)
<1> DEFINE fav == n \in DOMAIN table /\ table[n]
           fav1 == n \in DOMAIN table' /\ table'[n]
<1>1. /\ DOMAIN cmd = 1 .. Len(cmd) /\ DOMAIN cmd' = 1 .. Len(cmd) - 1
      /\ Head(cmd) = cmd[1] /\ Len(cmd) \in Nat /\ Len(cmd) >= 1
      /\ \A i \in 1 .. Len(cmd) - 1 : cmd'[i] = cmd[i + 1]
  BY HeadTailProperties, EmptySeq
<1>2. Frame("protect", n) # Frame("remove", n)
  BY DEF Frame
<1> HIDE DEF Frame
<1>3. \A k \in {"protect", "remove"} :
        Asked(k, n) <=> cmd[1] = Frame(k, n) \/ Asked(k, n)'
  <2>1. ASSUME NEW k \in {"protect", "remove"}
        PROVE  /\ (\E i \in DOMAIN cmd : cmd[i] = Frame(k, n)) <=>
                  (cmd[1] = Frame(k, n) \/ \E i \in DOMAIN cmd' : cmd'[i] = Frame(k, n))
    <3>1. ASSUME NEW i \in DOMAIN cmd, cmd[i] = Frame(k, n), i # 1
          PROVE  i - 1 \in DOMAIN cmd' /\ cmd'[i - 1] = Frame(k, n)
      BY <1>1, <3>1
    <3> QED BY <1>1, <3>1
  <2> QED BY <2>1 DEF Asked
<1> DEFINE Latest(c, i) == /\ c[i] = Frame("protect", n)
                         /\ \A j \in DOMAIN c : j > i => c[j] # Frame("remove", n)
<1>4. (\E i \in DOMAIN cmd : Latest(cmd, i)) <=>
        (cmd[1] = Frame("protect", n) /\ ~Asked("remove", n)') \/ \E i \in DOMAIN cmd' : Latest(cmd', i)
  <2>1. ASSUME NEW i \in DOMAIN cmd'
        PROVE  Latest(cmd', i) <=> Latest(cmd, i + 1)
    <3>1. i + 1 \in DOMAIN cmd /\ cmd'[i] = cmd[i + 1]
      BY <1>1
    <3>2. ASSUME NEW j \in DOMAIN cmd, j > i + 1
          PROVE  j - 1 \in DOMAIN cmd' /\ j - 1 > i /\ cmd'[j - 1] = cmd[j]
      BY <1>1, <3>2
    <3>3. ASSUME NEW j \in DOMAIN cmd', j > i
          PROVE  j + 1 \in DOMAIN cmd /\ j + 1 > i + 1 /\ cmd'[j] = cmd[j + 1]
      BY <1>1, <3>3
    <3> QED BY <3>1, <3>2, <3>3
  <2>2. Latest(cmd, 1) <=> cmd[1] = Frame("protect", n) /\ ~Asked("remove", n)'
    <3>1. ASSUME NEW j \in DOMAIN cmd, j > 1
          PROVE  j - 1 \in DOMAIN cmd' /\ cmd'[j - 1] = cmd[j]
      BY <1>1, <3>1
    <3>2. ASSUME NEW j \in DOMAIN cmd'
          PROVE  j + 1 \in DOMAIN cmd /\ j + 1 > 1 /\ cmd'[j] = cmd[j + 1]
      BY <1>1, <3>2
    <3> QED BY <1>1, <3>1, <3>2 DEF Asked
  <2>3. ASSUME NEW i \in DOMAIN cmd, i # 1
        PROVE  i - 1 \in DOMAIN cmd' /\ (i - 1) + 1 = i
    BY <1>1, <2>3
  <2>4. ASSUME NEW i \in DOMAIN cmd'
        PROVE  i + 1 \in DOMAIN cmd
    BY <1>1
  <2>5. 1 \in DOMAIN cmd
    BY <1>1
  <2> HIDE DEF Latest
  <2> QED BY <2>1, <2>2, <2>3, <2>4, <2>5, ZenonT(30)
<1>5. Favoured(n) <=> (\E i \in DOMAIN cmd : Latest(cmd, i)) \/ (fav /\ ~Asked("remove", n))
  BY DEF Favoured
<1>6. Favoured(n)' <=> (\E i \in DOMAIN cmd' : Latest(cmd', i)) \/ (fav1 /\ ~Asked("remove", n)')
  BY DEF Favoured
<1>7. MayHearTrue(n)' <=> Told(n, TRUE)' \/ fav1 \/ Asked("protect", n)'
  BY DEF MayHearTrue
<1>8. MayHearFalse(n)' <=> Told(n, FALSE)' \/ ~fav1 \/ Asked("remove", n)'
  BY DEF MayHearFalse
<1>9. MayHearTrue(n) <=> Told(n, TRUE) \/ fav \/ Asked("protect", n)
  BY DEF MayHearTrue
<1>10. MayHearFalse(n) <=> Told(n, FALSE) \/ ~fav \/ Asked("remove", n)
  BY DEF MayHearFalse
<1>11. /\ Told(n, TRUE)' => Told(n, TRUE) \/ fav
       /\ Told(n, FALSE)' => Told(n, FALSE) \/ ~fav
  OBVIOUS
<1>12. /\ cmd[1] = Frame("protect", n) => fav1
       /\ cmd[1] = Frame("remove", n) => ~fav1
       /\ cmd[1] # Frame("protect", n) /\ cmd[1] # Frame("remove", n) => (fav1 <=> fav)
  BY <1>1, <1>2
<1> HIDE DEF Latest, fav, fav1
<1> QED BY <1>2, <1>3, <1>4, <1>5, <1>6, <1>7, <1>8, <1>9, <1>10, <1>11, <1>12 DEF RadioSteady

-----------------------------------------------------------------------------
(* What a step leaves alone. *)

TaskSteady(n) ==
  /\ \A t \in Thread : Holds(t, n)' <=> Holds(t, n)
  /\ \A t \in Thread : Holds(t, n) => task'[t].gen = task[t].gen
  /\ \A t \in Thread : Frees(t, n)' => Frees(t, n)
  /\ Leaving(n) => Leaving(n)'
  /\ n \in removals' => n \in removals
  /\ Removes(n)' => Removes(n) /\ task'["loop"].gen = task["loop"].gen

Critical == {"queue", "revert", "check", "remove"}

(* A task that neither comes from nor goes to a stage that matters for the node. *)
LEMMA MoveSteady ==
  ASSUME NEW t \in Thread, NEW at, NEW node, NEW victim, NEW gen,
         Moves(t, at, node, victim, gen), NEW n, n \in removals' <=> n \in removals,
         at \notin {"queue", "revert", "remove"} \/ (node # n /\ victim # n),
         task[t].at \notin Critical \/ (task[t].node # n /\ task[t].victim # n)
  PROVE  TaskSteady(n)
<1>1. \A u \in Thread : /\ Holds(u, n)' <=> Holds(u, n)
                        /\ Holds(u, n) => task'[u].gen = task[u].gen
                        /\ Frees(u, n)' <=> Frees(u, n)
  BY DEF Moves, Critical, Holds, Frees
<1>2. /\ task["loop"].at = "check" /\ task["loop"].node = n =>
           task'["loop"].at = "check" /\ task'["loop"].node = n
      /\ Removes(n) => Removes(n)'
      /\ Removes(n)' => Removes(n) /\ task'["loop"].gen = task["loop"].gen
  BY DEF Moves, Critical, Removes, Thread
<1>3. Leaving(n) => Leaving(n)'
  BY <1>1, <1>2 DEF Leaving
<1> QED BY <1>1, <1>2, <1>3 DEF TaskSteady

LEMMA TaskSame ==
  ASSUME NEW n, UNCHANGED <<task, removals>>
  PROVE  TaskSteady(n)
BY DEF TaskSteady, Holds, Frees, Leaving, Removes

(* Two tasks, one of which works for the node. *)
LEMMA NumberedKept ==
  ASSUME NEW n, Numbered(n), Record(n)' = Record(n), TaskSteady(n), sent'[n] = sent[n]
  PROVE  Numbered(n)'
BY DEF Numbered, TaskSteady

LEMMA AgreesKept ==
  ASSUME NEW n, Agrees(n), Record(n)' = Record(n), TaskSteady(n), RadioSteady(n),
         now' = now
  PROVE  Agrees(n)'
<1>1. \A t \in Thread : Owes(t, n)' <=> Owes(t, n)
  BY DEF Owes, TaskSteady
<1>2. \A t \in Thread : Owes(t, n) => task'[t].gen = task[t].gen
  BY DEF Owes, TaskSteady
<1>3. ~Record(n).full => Untouched(n)'
  BY DEF Agrees, Untouched, TaskSteady, RadioSteady
<1>4. Record(n).bit => Kept(n)'
  BY <1>1, <1>2 DEF Agrees, Kept, RadioSteady
<1>5. Record(n).full /\ ~Record(n).bit => Released(n)'
  BY DEF Agrees, Released, RadioSteady, TaskSteady
<1> QED BY <1>3, <1>4, <1>5 DEF Agrees

(* A step that leaves every node no fault came between for alone. *)
LEMMA CalmStep ==
  ASSUME Generations, Agreement, excused \subseteq excused', UNCHANGED <<now, sent>>,
         \A n \in Node \ excused' : Record(n)' = Record(n) /\ RadioSteady(n) /\ TaskSteady(n)
  PROVE  Generations' /\ Agreement'
<1>1. ASSUME NEW n \in Node \ excused'
      PROVE  Numbered(n)' /\ Agrees(n)'
  BY NumberedKept, AgreesKept DEF Generations, Agreement
<1> QED BY <1>1 DEF Generations, Agreement

LEMMA RecordsKept ==
  ASSUME Records, Others({}), UNCHANGED now
  PROVE  Records'
BY DEF Records, RecordOK, Others

(* What is marked, and for whom the tasks work, stays as it is. *)
MarkSteady(n) ==
  /\ n \in pending' <=> n \in pending
  /\ n \in tried' <=> n \in tried
  /\ Full(n)' <=> Full(n)
LEMMA MarkedAside ==
  ASSUME NEW n, Marked(n), MarkSteady(n),
         \A t \in Thread : task'[t] = task[t] \/ (task'[t].node # n /\ task[t].node # n)
  PROVE  Marked(n)'
<1>1. /\ \A at : For("loop", n, at)' <=> For("loop", n, at)
      /\ \A at : For("worker", n, at)' <=> For("worker", n, at)
  BY DEF For, Thread
<1>2. Working(n)' <=> Working(n)
  BY <1>1 DEF Working
<1>3. Asking(n)' <=> Asking(n)
  BY <1>1 DEF Asking, MarkSteady
<1>4. Decided(n)' <=> Decided(n)
  BY <1>2 DEF Decided, MarkSteady
<1> HIDE DEF For
<1> QED BY <1>1, <1>2, <1>3, <1>4 DEF Marked, MarkSteady

LEMMA MarksAside ==
  ASSUME Marks, excused \subseteq excused', UNCHANGED task,
         \A n \in Node \ excused' : MarkSteady(n)
  PROVE  Marks'
<1>1. ASSUME NEW n \in Node \ excused'
      PROVE  Marked(n)'
  BY MarkedAside DEF Marks
<1> QED BY <1>1 DEF Marks

(* A move for one node: only that node's mark is to be looked at. *)
LEMMA MarksFocus ==
  ASSUME Types, Marks, excused \subseteq excused', NEW t \in Thread, NEW n \in Node \cup {NoNode},
         \A u \in Thread \ {t} : task'[u] = task[u],
         task[t].node \in {n, NoNode}, task'[t].node \in {n, NoNode},
         \A m \in Node \ excused' : m = n \/ MarkSteady(m),
         n \in Node \ excused' => Marked(n)'
  PROVE  Marks'
<1>1. ASSUME NEW m \in Node \ excused', m # n
      PROVE  Marked(m)'
  <2>1. Marked(m) /\ MarkSteady(m) /\ m # NoNode
    BY <1>1, NodesAssumption DEF Marks
  <2>2. \A u \in Thread : task'[u] = task[u] \/ (task'[u].node # m /\ task[u].node # m)
    BY <2>1, <1>1
  <2> QED BY <2>1, <2>2, MarkedAside
<1> QED BY <1>1 DEF Marks

-----------------------------------------------------------------------------
(* The command worker. *)

LEMMA PlainStep ==
  ASSUME Inv, NEW t \in Thread, NEW at, NEW node, NEW victim, NEW gen,
         Moves(t, at, node, victim, gen), at \notin {"queue", "revert", "remove"},
         task[t].at \notin Critical,
         UNCHANGED <<bus, removals, now, sent, excused>>,
         \A n \in Node \ excused : RadioSteady(n)
  PROVE  Records' /\ Generations' /\ Agreement'
<1>1. \A n \in Node : Record(n)' = Record(n) /\ TaskSteady(n)
  BY BusSame, MoveSteady DEF Inv, Others
<1>2. Others({})
  BY BusSame DEF Inv
<1> QED BY <1>1, <1>2, CalmStep, RecordsKept DEF Inv

LEMMA DispatchKeeps ==
  ASSUME Inv, NEW n \in Node, Dispatch(n)
  PROVE  Inv'
<1>0. /\ task["worker"].at = "idle" /\ "worker" \in Thread /\ task \in [Thread -> Job]
      /\ task["worker"].node \notin Node /\ task["worker"].node \in Node \cup {NoNode}
      /\ UNCHANGED <<bus, session, cooling, draining, removals, cmd, online, events,
                     table, now, excused, sent>>
      /\ pending' = pending \cup {n} /\ tried' = tried \ {n}
  BY DEF Dispatch, Inv, Types, Places, Thread, Job
<1>1. Moves("worker", "session", n, NoNode, 0)
  <2>1. task' = [task EXCEPT !["worker"] = [Idle EXCEPT !.at = "session", !.node = n]]
        /\ "session" \in Stage
    BY DEF Dispatch, Stage
  <2> QED BY <1>0, <2>1, FreshMoves
<1>2. Records' /\ Generations' /\ Agreement'
  BY <1>0, <1>1, PlainStep, RadioSame DEF Critical
<1>3. Types'
  BY <1>0, <1>1 DEF Inv, Types, Moves
<1>4. Places'
  BY <1>0, <1>1 DEF Inv, Places, Moves, Thread
<1>5. Keys'
  BY <1>0, <1>1 DEF Inv, Keys, Moves
<1>6. Marks'
  <2>1. \A m \in Node : Full(m)' <=> Full(m)
    BY <1>0, BusSame DEF Inv, Others, Full
  <2>2. n \in Node \ excused' => Marked(n)'
    BY <1>0, <1>1, <2>1 DEF Inv, Marks, Marked, For, Working, Asking, Decided, Moves, Thread
  <2>3. \A m \in Node \ excused' : m = n \/ MarkSteady(m)
    BY <1>0, <2>1 DEF MarkSteady
  <2> QED BY <1>0, <1>1, <2>2, <2>3, MarksFocus DEF Inv, Moves
<1> QED BY <1>2, <1>3, <1>4, <1>5, <1>6 DEF Inv

(* A step of the worker between its sender's mark and the answer, which touches
   nothing but itself and the session. *)
LEMMA WorkerStepKeeps ==
  ASSUME Inv, NEW at \in Stage, NEW victim, NEW gen,
         Moves("worker", at, task["worker"].node, victim, gen),
         at \notin {"idle", "select", "queue", "revert", "remove"},
         task["worker"].at \notin Critical \cup {"idle", "select"},
         at \notin {"ask", "select", "check", "remove"},
         UNCHANGED <<bus, cooling, draining, removals, cmd, online, events, table, now,
                     excused, tried, sent>>,
         session' \in [Node -> {"none", "unkeyed", "keyed"}], pending' \in SUBSET Node, Keys',
         \A m \in Node \ (excused \cup {task["worker"].node}) : m \in pending' <=> m \in pending,
         \A n \in Node \ excused : n = task["worker"].node => Marked(n)'
  PROVE  Inv'
<1> DEFINE n == task["worker"].node
<1>0. "worker" \in Thread /\ task \in [Thread -> Job] /\ n \in Node
  BY DEF Inv, Types, Places, Thread
<1>2. Records' /\ Generations' /\ Agreement'
  BY <1>0, PlainStep, RadioSame DEF Critical
<1>3. Types'
  BY DEF Inv, Types, Moves
<1>4. Places'
  BY <1>0 DEF Inv, Places, Moves, Thread
<1>6. Marks'
  <2>1. \A m \in Node : Full(m)' <=> Full(m)
    BY BusSame DEF Inv, Others, Full
  <2>2. \A m \in Node \ excused' : m = n \/ MarkSteady(m)
    BY <2>1 DEF MarkSteady
  <2>3. \A m \in Node \ excused' : m = n => Marked(m)'
    OBVIOUS
  <2>4. /\ \A u \in Thread \ {"worker"} : task'[u] = task[u]
        /\ task'["worker"].node = n
    BY DEF Moves
  <2> HIDE DEF n
  <2> QED BY <1>0, <2>2, <2>3, <2>4, MarksFocus DEF Inv, n
<1> QED BY <1>2, <1>3, <1>4, <1>6 DEF Inv

LEMMA SessionKeeps ==
  ASSUME Inv, GetOrCreateSession
  PROVE  Inv'
<1>n. PICK n \in Node : task["worker"].node = n
  BY DEF Inv, Places, Thread, GetOrCreateSession
<1>0. /\ task["worker"].node = n /\ task["worker"].at = "session" /\ "worker" \in Thread /\ task \in [Thread -> Job]
      /\ n \in Node /\ "seed" \in Stage /\ "key" \in Stage
      /\ session \in [Node -> {"none", "unkeyed", "keyed"}] /\ pending \in SUBSET Node
      /\ DOMAIN bus \subseteq Node
      /\ UNCHANGED <<bus, pending, cooling, draining, removals, cmd, online, events,
                     table, now, excused, tried, sent>>
  BY <1>n DEF GetOrCreateSession, Inv, Types, Places, Thread, Stage
<1>1. PICK at \in {"seed", "key"} :
        /\ Moves("worker", at, n, task["worker"].victim, task["worker"].gen)
        /\ at = "seed" => session' = [session EXCEPT ![n] = "unkeyed"]
        /\ at = "key" => session' = session /\ session[n] # "none"
  BY <1>0, GotoMoves DEF GetOrCreateSession
<1>2. session' \in [Node -> {"none", "unkeyed", "keyed"}]
  BY <1>0, <1>1
<1>3. Keys'
  BY <1>0, <1>1 DEF Inv, Keys, Moves
<1>4. n \in Node \ excused => Marked(n)'
  <2>1. \A m \in Node : Full(m)' <=> Full(m)
    BY <1>0, BusSame DEF Inv, Others, Full
  <2> QED BY <1>0, <1>1, <2>1 DEF Inv, Marks, Marked, For, Working, Asking, Decided, Moves, Thread
<1> QED BY <1>0, <1>1, <1>2, <1>3, <1>4, WorkerStepKeeps DEF Critical

LEMMA LookUpKeyKeeps ==
  ASSUME Inv, LookUpKey
  PROVE  Inv'
<1>n. PICK n \in Node : task["worker"].node = n
  BY DEF Inv, Places, Thread, LookUpKey
<1>0. /\ task["worker"].node = n /\ task["worker"].at = "key" /\ "worker" \in Thread /\ task \in [Thread -> Job]
      /\ n \in Node /\ "decide" \in Stage /\ "answer" \in Stage
      /\ session \in [Node -> {"none", "unkeyed", "keyed"}] /\ pending \in SUBSET Node
      /\ UNCHANGED <<bus, session, pending, cooling, draining, removals, cmd, online, events,
                     table, now, excused, tried, sent>>
  BY <1>n DEF LookUpKey, Inv, Types, Places, Thread, Stage
<1>1. PICK at \in {"decide", "answer"} :
        /\ Moves("worker", at, n, task["worker"].victim, task["worker"].gen)
        /\ at = "answer" => session[n] # "keyed"
  BY <1>0, GotoMoves, AttemptMoves DEF LookUpKey
<1>3. Keys'
  BY <1>0, <1>1 DEF Inv, Keys, Moves
<1>4. n \in Node \ excused => Marked(n)'
  <2>1. \A m \in Node : Full(m)' <=> Full(m)
    BY <1>0, BusSame DEF Inv, Others, Full
  <2>2. at = "answer" => ~Full(n)
    <3>1. at = "answer" => session[n] = "unkeyed"
      BY <1>0, <1>1 DEF Inv, Keys
    <3>2. at = "answer" => n \notin DOMAIN bus
      BY <1>0, <3>1 DEF Inv, Keys
    <3> QED BY <3>2 DEF Full, Record, NewRecord
  <2> QED BY <1>0, <1>1, <2>1, <2>2
          DEF Inv, Marks, Marked, For, Working, Asking, Decided, Moves, Thread
<1> QED BY <1>0, <1>1, <1>3, <1>4, WorkerStepKeeps DEF Critical

LEMMA SeedKeyKeeps ==
  ASSUME Inv, SeedKey
  PROVE  Inv'
<1>n. PICK n \in Node : task["worker"].node = n
  BY DEF Inv, Places, Thread, SeedKey, WorkerStep
<1>0. /\ task["worker"].node = n /\ "worker" \in Thread /\ task \in [Thread -> Job]
      /\ task["worker"].at \in {"seed", "reseed"}
      /\ n \in Node /\ "key" \in Stage /\ "idle" \in Stage
      /\ session \in [Node -> {"none", "unkeyed", "keyed"}] /\ pending \in SUBSET Node
      /\ UNCHANGED <<bus, pending, cooling, draining, removals, cmd, online, events,
                     table, now, excused, tried, sent>>
      /\ DOMAIN bus \subseteq Node
  BY <1>n DEF SeedKey, WorkerStep, Inv, Types, Places, Thread, Stage
<1>2. session' = IF n \in DOMAIN bus THEN [session EXCEPT ![n] = "keyed"] ELSE session
  BY <1>n DEF SeedKey, Seeded
<1>3. session' \in [Node -> {"none", "unkeyed", "keyed"}]
  BY <1>0, <1>2
<1>4. CASE task["worker"].at = "seed"
  <2>1. Moves("worker", "key", n, task["worker"].victim, task["worker"].gen)
    BY <1>0, <1>4, GotoMoves DEF SeedKey, WorkerStep
  <2>2. Keys'
    BY <1>0, <1>2, <1>4, <2>1 DEF Inv, Keys, Moves
  <2>3. \A m \in Node : Full(m)' <=> Full(m)
    BY <1>0, BusSame DEF Inv, Others, Full
  <2>4. n \in Node \ excused => Marked(n)'
    BY <1>0, <1>4, <2>1, <2>3 DEF Inv, Marks, Marked, For, Working, Asking, Decided, Moves, Thread
  <2> QED BY <1>0, <1>3, <1>4, <2>1, <2>2, <2>4, WorkerStepKeeps DEF Critical
<1>5. CASE task["worker"].at = "reseed"
  <2>1. Moves("worker", "idle", NoNode, NoNode, 0)
    BY <1>0, <1>5, RestMoves DEF SeedKey, WorkerStep
  <2>2. Records' /\ Generations' /\ Agreement'
    BY <1>0, <1>5, <2>1, PlainStep, RadioSame DEF Critical
  <2>3. Types'
    BY <1>0, <1>3, <2>1 DEF Inv, Types, Moves
  <2>4. Places'
    BY <1>0, <2>1, NodesAssumption DEF Inv, Places, Moves, Thread
  <2>5. Keys'
    BY <1>0, <1>2, <1>5, <2>1 DEF Inv, Keys, Moves
  <2>6. Marks'
    <3>1. \A m \in Node : Full(m)' <=> Full(m)
      BY <1>0, BusSame DEF Inv, Others, Full
    <3>2. n \in Node \ excused' => Marked(n)'
      BY <1>0, <1>5, <2>1, <3>1, NodesAssumption
      DEF Inv, Marks, Marked, For, Working, Asking, Decided, Moves, Thread
    <3>3. \A m \in Node \ excused' : m = n \/ MarkSteady(m)
      BY <1>0, <3>1 DEF MarkSteady
    <3>4. /\ \A u \in Thread \ {"worker"} : task'[u] = task[u]
          /\ task'["worker"].node = NoNode
      BY <2>1 DEF Moves
    <3> QED BY <1>0, <3>2, <3>3, <3>4, MarksFocus DEF Inv
  <2> QED BY <2>2, <2>3, <2>4, <2>5, <2>6 DEF Inv
<1> QED BY <1>0, <1>4, <1>5

(* The same for any task and any step that keeps away from the bus and from
   what is decided on it. *)
LEMMA MoveKeeps ==
  ASSUME Inv, NEW t \in Thread, NEW n \in Node \cup {NoNode},
         NEW at, NEW node \in {n, NoNode}, NEW victim, NEW gen,
         Moves(t, at, node, victim, gen), at \notin {"queue", "revert", "remove"},
         task[t].at \notin Critical, task[t].node \in {n, NoNode},
         UNCHANGED <<bus, removals, now, sent, excused>>,
         Types', Places', Keys', \A m \in Node \ excused : RadioSteady(m),
         \A m \in Node \ (excused \cup {n}) :
            (m \in pending' <=> m \in pending) /\ (m \in tried' <=> m \in tried),
         n \in Node \ excused => Marked(n)'
  PROVE  Inv'
<1>1. Records' /\ Generations' /\ Agreement'
  BY PlainStep
<1>2. \A m \in Node : Full(m)' <=> Full(m)
  BY BusSame DEF Inv, Others, Full
<1>3. \A m \in Node \ excused' : m = n \/ MarkSteady(m)
  BY <1>2 DEF MarkSteady
<1>4. (\A u \in Thread \ {t} : task'[u] = task[u]) /\ task'[t].node \in {n, NoNode}
  BY DEF Moves
<1>5. Marks'
  BY <1>3, <1>4, MarksFocus DEF Inv
<1> QED BY <1>1, <1>5 DEF Inv

LEMMA AnswerKeeps ==
  ASSUME Inv, Answer
  PROVE  Inv'
<1>n. PICK n \in Node : task["worker"].node = n
  BY DEF Inv, Places, Thread, Answer, WorkerStep
<1>0. /\ "worker" \in Thread /\ task \in [Thread -> Job] /\ task["worker"].node = n
      /\ task["worker"].at \in {"answer", "fresh"}
      /\ session \in [Node -> {"none", "unkeyed", "keyed"}] /\ pending \in SUBSET Node
      /\ UNCHANGED <<bus, cooling, draining, removals, cmd, online, events, table,
                     now, excused, tried, sent>>
      /\ DOMAIN bus \subseteq Node
  BY <1>n DEF Answer, WorkerStep, Inv, Types, Thread
<1>1. \A m \in Node : Full(m)' <=> Full(m)
  BY <1>0, BusSame DEF Inv, Others, Full
<1>2. CASE task["worker"].at = "answer" /\ Rest("worker") /\ UNCHANGED <<session, pending>>
  <2>1. Moves("worker", "idle", NoNode, NoNode, 0)
    BY <1>0, <1>2, RestMoves
  <2>2. Types'
    BY <1>0, <1>2, <2>1 DEF Inv, Types, Moves
  <2>5. Places'
    BY <1>0, <2>1, NodesAssumption DEF Inv, Places, Moves, Thread
  <2>3. Keys'
    BY <1>0, <1>2, <2>1 DEF Inv, Keys, Moves
  <2>4. n \in Node \ excused => Marked(n)'
    BY <1>0, <1>1, <1>2, <2>1, NodesAssumption
    DEF Inv, Marks, Marked, For, Working, Asking, Decided, Moves, Thread
  <2> QED BY <1>0, <1>2, <2>1, <2>2, <2>3, <2>4, <2>5, RadioSame, MoveKeeps DEF Critical
<1>3. CASE /\ task["worker"].at = "answer" /\ Goto("worker", "fresh")
           /\ session' = [session EXCEPT ![n] = "none"]
           /\ pending' = pending \ {n}
  <2>1. Moves("worker", "fresh", n, task["worker"].victim, task["worker"].gen)
    BY <1>0, <1>3, GotoMoves DEF Stage
  <2>2. Types'
    BY <1>0, <1>3, <2>1 DEF Inv, Types, Moves
  <2>3. Places'
    BY <1>0, <2>1 DEF Inv, Places, Moves, Thread
  <2>4. Keys'
    BY <1>0, <1>3, <2>1 DEF Inv, Keys, Moves
  <2>5. n \in Node \ excused => Marked(n)'
    <3>1. n \notin pending' /\ task'["loop"] = task["loop"] /\ task'["worker"].at = "fresh"
      BY <1>0, <1>3, <2>1 DEF Moves, Thread
    <3>2. n \in Node \ excused => Marked(n)
      BY DEF Inv, Marks
    <3> QED BY <1>0, <1>1, <1>3, <3>1, <3>2 DEF Marked, For, Working, Asking, Decided
  <2>6. \A m \in Node \ (excused \cup {n}) :
           (m \in pending' <=> m \in pending) /\ (m \in tried' <=> m \in tried)
    BY <1>0, <1>3
  <2>7. \A m \in Node \ excused : RadioSteady(m)
    BY <1>0, RadioSame
  <2> QED BY <1>0, <1>3, <2>1, <2>2, <2>3, <2>4, <2>5, <2>6, <2>7, MoveKeeps DEF Critical
<1>4. CASE /\ task["worker"].at = "fresh" /\ Goto("worker", "reseed")
           /\ session' = [session EXCEPT ![n] = "unkeyed"]
           /\ UNCHANGED pending
  <2>1. Moves("worker", "reseed", n, task["worker"].victim, task["worker"].gen)
    BY <1>0, <1>4, GotoMoves DEF Stage
  <2>2. Types'
    BY <1>0, <1>4, <2>1 DEF Inv, Types, Moves
  <2>3. Places'
    BY <1>0, <2>1 DEF Inv, Places, Moves, Thread
  <2>4. Keys'
    BY <1>0, <1>4, <2>1 DEF Inv, Keys, Moves
  <2>5. n \in Node \ excused => Marked(n)'
    BY <1>0, <1>1, <1>4, <2>1
    DEF Inv, Marks, Marked, For, Working, Asking, Decided, Moves, Thread
  <2> QED BY <1>0, <1>4, <2>1, <2>2, <2>3, <2>4, <2>5, RadioSame, MoveKeeps, SMTT(30) DEF Critical
<1> QED BY <1>n, <1>2, <1>3, <1>4 DEF Answer, WorkerStep

-----------------------------------------------------------------------------
(* An attempt, by either task. *)

LEMMA ClearMarkKeeps ==
  ASSUME Inv, NEW t \in Thread, ClearMark(t)
  PROVE  Inv'
<1>n. PICK n \in Node : task[t].node = n
  BY DEF Inv, Places, ClearMark
<1>0. /\ task \in [Thread -> Job] /\ task[t].node = n /\ task[t].at = "clear"
      /\ pending \in SUBSET Node /\ pending' = pending \ {n}
      /\ UNCHANGED <<bus, session, cooling, draining, removals, cmd, online, events, table,
                     now, excused, tried, sent>>
  BY <1>n DEF ClearMark, Inv, Types
<1>1. \A m \in Node : Full(m)' <=> Full(m)
  BY <1>0, BusSame DEF Inv, Others, Full
<1>2. PICK at \in {"answer", "idle"}, node \in {n, NoNode} :
        /\ Moves(t, at, node, NoNode, 0)
        /\ IF t = "worker" THEN at = "answer" /\ node = n ELSE at = "idle" /\ node = NoNode
  BY <1>0, ConcludeMoves DEF ClearMark
<1>3. Types'
  BY <1>0, <1>2 DEF Inv, Types, Moves
<1>4. Places'
  BY <1>0, <1>2, NodesAssumption DEF Inv, Places, Moves, Thread
<1>5. Keys'
  BY <1>0, <1>2 DEF Inv, Keys, Moves, Thread
<1>6. n \in Node \ excused => Marked(n)'
  BY <1>0, <1>1, <1>2, NodesAssumption
  DEF Inv, Marks, Marked, For, Working, Asking, Decided, Moves, Thread
<1> QED BY <1>0, <1>2, <1>3, <1>4, <1>5, <1>6, RadioSame, MoveKeeps DEF Critical

LEMMA MarkKeeps ==
  ASSUME Inv, NEW t \in Thread, Mark(t)
  PROVE  Inv'
<1>n. PICK n \in Node : task[t].node = n
  BY DEF Inv, Places, Mark
<1>0. /\ task \in [Thread -> Job] /\ task[t].node = n /\ task[t].at = "mark"
      /\ pending \in SUBSET Node /\ pending' = pending \cup {n}
      /\ cmd \in Seq(Frames) /\ cooling \in BOOLEAN
      /\ UNCHANGED <<bus, session, draining, removals, online, events, table,
                     now, excused, tried, sent>>
  BY <1>n DEF Mark, Inv, Types
<1>1. \A m \in Node : Full(m)' <=> Full(m)
  BY <1>0, BusSame DEF Inv, Others, Full
<1>2. PICK at \in {"answer", "idle"}, node \in {n, NoNode} :
        /\ Moves(t, at, node, NoNode, 0)
        /\ IF t = "worker" THEN at = "answer" /\ node = n ELSE at = "idle" /\ node = NoNode
  BY <1>0, ConcludeMoves DEF Mark
<1>a. /\ cmd' = cmd \/ cmd' = Append(cmd, Frame("contacts", NoNode))
      /\ cooling' \in BOOLEAN
  BY <1>0 DEF Mark
<1>b. \A m \in Node : RadioSteady(m)
  <2>1. \A m \in Node : \A k \in {"protect", "remove"} : Frame("contacts", NoNode) # Frame(k, m)
    BY NodesAssumption DEF Frame
  <2> QED BY <1>0, <1>a, <2>1, RadioSame, OtherAppended
<1>c. Frame("contacts", NoNode) \in Frames
  BY DEF Frame, Frames
<1>d. cmd' \in Seq(Frames)
  BY <1>0, <1>a, <1>c
<1>3. Types'
  BY <1>0, <1>a, <1>d, <1>2 DEF Inv, Types, Moves
<1>4. Places'
  <2>1. \A i \in DOMAIN cmd' : (i \in DOMAIN cmd /\ cmd'[i] = cmd[i]) \/ cmd'[i] = Frame("contacts", NoNode)
    BY <1>0, <1>a
  <2> QED BY <1>0, <1>2, <2>1, NodesAssumption DEF Inv, Places, Moves, Thread
<1>5. Keys'
  BY <1>0, <1>2 DEF Inv, Keys, Moves, Thread
<1>6. n \in Node \ excused => Marked(n)'
  BY <1>0, <1>1, <1>2, NodesAssumption
  DEF Inv, Marks, Marked, For, Working, Asking, Decided, Moves, Thread
<1> QED BY <1>0, <1>2, <1>b, <1>3, <1>4, <1>5, <1>6, MoveKeeps DEF Critical

(* A transition leaves a full record in order. *)
LEMMA RecordSteps ==
  ASSUME now \in 0 .. MaxTime, NEW r \in RecordType, RecordOK(r), r.full
  PROVE  RecordOK(Protected(r)) /\ RecordOK(Unprotected(r)) /\ RecordOK(Reverted(r))
<1>1. now # Never /\ now \in 0 .. now /\ r.gen \in Nat /\ r.gen + 1 # 0
  BY TimeAssumption DEF Never, RecordType
<1>2. RecordOK(Protected(r))
  BY <1>1, Transitions DEF RecordOK
<1>3. RecordOK(Unprotected(r))
  BY <1>1, Transitions DEF RecordOK
<1>4. RecordOK(Reverted(r))
  BY <1>1, Transitions DEF RecordOK
<1> QED BY <1>2, <1>3, <1>4

(* The bus protects those whose bit is set, and all it has of a stub is that. *)
LEMMA ProtectedBit ==
  ASSUME Types, Records, NEW n \in Node
  PROVE  /\ IsProtected(n) <=> Record(n).bit
         /\ Record(n).bit => Record(n).full /\ n \in DOMAIN bus
         /\ Record(n).full => n \in DOMAIN bus
BY DEF Types, Records, RecordOK, Record, IsProtected, NewRecord, WithinGrace

LEMMA FavouredHeard == ASSUME NEW n PROVE Favoured(n) => MayHearTrue(n)
BY DEF Favoured, MayHearTrue, Asked

LEMMA TransitionFields ==
  ASSUME now \in 0 .. MaxTime, NEW r \in RecordType
  PROVE  /\ Protected(r).full = r.full /\ Protected(r).bit = TRUE
         /\ Protected(r).gen = r.gen + 1 /\ Protected(r).protectedAt = now
         /\ Unprotected(r).full = r.full /\ Unprotected(r).bit = FALSE
         /\ Unprotected(r).gen = r.gen + 1 /\ Unprotected(r).unprotectedAt = now
         /\ Reverted(r).full = r.full /\ Reverted(r).bit = FALSE
         /\ Reverted(r).gen = r.gen + 1
         /\ r.gen \in Nat /\ r.gen + 1 \in Nat
<1>1. r.gen \in Nat /\ r.gen + 1 \in Nat
  BY DEF RecordType
<1>2. /\ Protected(r) \in [full : {r.full}, bit : {TRUE}, protectedAt : {now},
                           unprotectedAt : {Never}, gen : {r.gen + 1}]
      /\ Unprotected(r) \in [full : {r.full}, bit : {FALSE}, protectedAt : {Never},
                             unprotectedAt : {now}, gen : {r.gen + 1}]
      /\ Reverted(r) \in [full : {r.full}, bit : {FALSE}, protectedAt : {Never},
                          unprotectedAt : {r.unprotectedAt}, gen : {r.gen + 1}]
  BY Transitions
<1> QED BY <1>1, <1>2

LEMMA DecideCommits ==
  ASSUME Inv, NEW t \in Thread, NEW n \in Node, task[t].node = n, task[t].at = "decide",
         n \in DOMAIN bus, Record(n).full, ~Record(n).bit,
         NEW v \in {NoNode} \cup (DOMAIN bus \ {n}), v # NoNode => IsProtected(v),
         Commit(t, v), tried' = tried \cup {n},
         UNCHANGED <<session, pending, cooling, draining, removals, cmd, online,
                     events, table, now, excused, sent>>
  PROVE  Inv'
<1> DEFINE r == Record(n)
<1>0. /\ task \in [Thread -> Job] /\ now \in 0 .. MaxTime /\ DOMAIN bus \subseteq Node
      /\ now # Never /\ n # NoNode /\ v \in Node \cup {NoNode} /\ v # n
  BY TimeAssumption, NodesAssumption DEF Inv, Types, Never
<1>1. /\ BusTypes' /\ DOMAIN bus' = DOMAIN bus /\ Record(n)' = Protected(r)
      /\ v # NoNode => Record(v)' = Unprotected(Record(v))
      /\ Others({n, v})
      /\ Moves(t, "queue", n, v, r.gen + 1)
  BY CommitEffect DEF Inv
<1>2. /\ r \in RecordType /\ r.gen \in Nat /\ RecordOK(r)
      /\ Record(n)'.bit = TRUE /\ Record(n)'.full = TRUE /\ Record(n)'.gen = r.gen + 1
      /\ Record(n)'.protectedAt = now
  <2>1. r \in RecordType /\ RecordOK(r)
    BY RecordType1 DEF Inv, Records
  <2> QED BY <1>0, <1>1, <2>1, TransitionFields
<1>3. v # NoNode => /\ Record(v) \in RecordType /\ Record(v).full /\ RecordOK(Record(v))
                    /\ Record(v)'.bit = FALSE /\ Record(v)'.full = TRUE
                    /\ Record(v)'.gen = Record(v).gen + 1 /\ Record(v).gen \in Nat
                    /\ Record(v)'.unprotectedAt = now
  <2> SUFFICES ASSUME v # NoNode PROVE /\ Record(v) \in RecordType /\ Record(v).full /\ RecordOK(Record(v))
                    /\ Record(v)'.bit = FALSE /\ Record(v)'.full = TRUE
                    /\ Record(v)'.gen = Record(v).gen + 1 /\ Record(v).gen \in Nat
                    /\ Record(v)'.unprotectedAt = now
    OBVIOUS
  <2>0. v \in Node
    BY <1>0
  <2>1. Record(v) \in RecordType /\ RecordOK(Record(v)) /\ Record(v).full
    BY <2>0, RecordType1, ProtectedBit DEF Inv, Records
  <2>2. Record(v).full = TRUE
    BY <2>1 DEF RecordType
  <2>3. Record(v)' = Unprotected(Record(v))
    BY <1>1
  <2> QED BY <1>0, <2>1, <2>2, <2>3, TransitionFields
<1>4. Types'
  BY <1>0, <1>1 DEF Inv, Types, BusTypes, Moves
<1>5. Places'
  BY <1>0, <1>1, <1>2 DEF Inv, Places, Moves, Thread
<1>6. Records'
  <2>1. RecordOK(Protected(r)) /\ (v # NoNode => RecordOK(Unprotected(Record(v))))
    BY <1>0, <1>2, <1>3, RecordSteps
  <2>2. ASSUME NEW m \in Node
        PROVE  RecordOK(Record(m))'
    <3>1. CASE m = n
      BY <1>1, <2>1, <3>1 DEF RecordOK
    <3>2. CASE m = v /\ m # n
      BY <1>0, <1>1, <2>1, <3>2, NodesAssumption DEF RecordOK
    <3>3. CASE m \notin {n, v}
      BY <1>1, <3>3 DEF Inv, Records, Others, RecordOK
    <3> QED BY <3>1, <3>2, <3>3
  <2> QED BY <2>2 DEF Records
<1>7. ASSUME NEW m \in Node \ excused, m \notin {n, v}
      PROVE  Numbered(m)' /\ Agrees(m)'
  <2>1. TaskSteady(m)
    BY <1>0, <1>1, <1>7, MoveSteady DEF Critical
  <2>2. RadioSteady(m) /\ Record(m)' = Record(m)
    BY <1>1, <1>7, RadioSame DEF Others
  <2> QED BY <2>1, <2>2, NumberedKept, AgreesKept DEF Inv, Generations, Agreement
<1>8. ASSUME n \notin excused
      PROVE  Numbered(n)' /\ Agrees(n)'
  <2>0. Numbered(n) /\ Agrees(n) /\ Agrees(n)
    BY <1>8 DEF Inv, Generations, Agreement
  <2>1. /\ \A u \in Thread \ {t} : /\ Holds(u, n)' <=> Holds(u, n)
                                   /\ task'[u] = task[u]
        /\ Holds(t, n)' /\ ~Holds(t, n) /\ task'[t].gen = r.gen + 1
        /\ Removes(n)' => Removes(n) /\ task'["loop"] = task["loop"]
    BY <1>0, <1>1 DEF Moves, Holds, Removes, Thread
  <2>2. \A u \in Thread : Holds(u, n) => task[u].gen \in 1 .. r.gen
    BY <2>0 DEF Numbered
  <2>3. sent[n] \in Nat /\ sent[n] <= r.gen /\ (Removes(n) => task["loop"].gen <= r.gen)
        /\ task["loop"].gen \in Nat
    BY <2>0, <1>0 DEF Numbered, Inv, Types, Thread, Job
  <2>4. Numbered(n)'
    <3>1. sent'[n] <= Record(n)'.gen
      BY <1>2, <2>3
    <3>2. ASSUME NEW u \in Thread, Holds(u, n)'
          PROVE  /\ task'[u].gen \in 1 .. Record(n)'.gen
                 /\ task'[u].gen # sent'[n]
                 /\ task'[u].gen = Record(n)'.gen => Record(n)'.bit
                 /\ \A w \in Thread \ {u} : Holds(w, n)' => task'[w].gen # task'[u].gen
      <4>1. CASE u = t
        BY <4>1, <1>2, <2>1, <2>2, <2>3
      <4>2. CASE u # t
        <5>1. Holds(u, n) /\ task'[u].gen = task[u].gen /\ task[u].gen \in 1 .. r.gen
          BY <4>2, <3>2, <2>1, <2>2
        <5>2. \A w \in Thread \ {u} : Holds(w, n) => task[w].gen # task[u].gen
          BY <2>0, <5>1 DEF Numbered
        <5>3. task[u].gen # sent[n]
          BY <2>0, <5>1 DEF Numbered
        <5>4. \A w \in Thread \ {u} : Holds(w, n)' => task'[w].gen # task'[u].gen
          BY <1>2, <2>1, <5>1, <5>2
        <5> QED BY <1>2, <5>1, <5>3, <5>4
      <4> QED BY <4>1, <4>2
    <3>3. Removes(n)' => /\ task'["loop"].gen <= Record(n)'.gen
                         /\ task'["loop"].gen = Record(n)'.gen => ~Record(n)'.bit
      BY <1>2, <2>1, <2>3
    <3> QED BY <3>1, <3>2, <3>3 DEF Numbered
  <2>5. Agrees(n)'
    <3>1. Owes(t, n)'
      BY <2>1, <1>2 DEF Owes
    <3>2. ASSUME NEW u \in Thread, Owes(u, n)', task'[u].gen = 1
          PROVE  ~MayHearTrue(n)'
      <4>1. r.gen = 0
        <5>1. CASE u = t
          BY <3>2, <1>2, <2>1, <5>1
        <5>2. CASE u # t
          <6>1. Holds(u, n)' /\ task'[u].gen = Record(n)'.gen
            BY <3>2 DEF Owes
          <6>2. task[u].gen \in 1 .. r.gen /\ task[u].gen = r.gen + 1
            BY <1>2, <2>1, <2>2, <5>2, <6>1
          <6> QED BY <1>2, <6>2
        <5> QED BY <5>1, <5>2
      <4>2. ~MayHearTrue(n)
        BY <4>1, <1>0, <1>2, <2>0 DEF RecordOK, Agrees, Released
      <4> QED BY <4>2 DEF MayHearTrue, Told, Asked
    <3>3. Kept(n)'
      BY <1>2, <3>1, <3>2 DEF Kept
    <3> QED BY <1>2, <3>3 DEF Agrees
  <2> QED BY <2>4, <2>5
<1>9. ASSUME v \in Node \ excused
      PROVE  Numbered(v)' /\ Agrees(v)'
  <2>0. v # NoNode /\ Numbered(v) /\ v \in Node
    BY <1>9, NodesAssumption DEF Inv, Generations
  <2>1. /\ \A u \in Thread : Holds(u, v)' => Holds(u, v) /\ task'[u].gen = task[u].gen
        /\ Removes(v)' => Removes(v) /\ task'["loop"] = task["loop"]
        /\ Frees(t, v)'
    BY <1>0, <1>1 DEF Moves, Holds, Removes, Frees, Thread
  <2>2. sent[v] \in Nat /\ task["loop"].gen \in Nat
    BY <1>0, <2>0 DEF Inv, Types, Thread, Job
  <2>3. Numbered(v)'
    <3>1. sent'[v] <= Record(v)'.gen
      BY <1>3, <2>0, <2>2 DEF Numbered
    <3>2. ASSUME NEW u \in Thread, Holds(u, v)'
          PROVE  /\ task'[u].gen \in 1 .. Record(v)'.gen
                 /\ task'[u].gen # sent'[v]
                 /\ task'[u].gen # Record(v)'.gen
                 /\ \A w \in Thread \ {u} : Holds(w, v)' => task'[w].gen # task'[u].gen
      <4>1. /\ task[u].gen \in 1 .. Record(v).gen /\ task[u].gen # sent[v]
            /\ \A w \in Thread \ {u} : Holds(w, v) => task[w].gen # task[u].gen
        BY <2>0, <2>1, <3>2 DEF Numbered
      <4> QED BY <1>3, <2>0, <2>1, <3>2, <4>1
    <3>3. Removes(v)' => task'["loop"].gen < Record(v)'.gen
      BY <1>3, <2>0, <2>1, <2>2 DEF Numbered
    <3>4. Removes(v)' => task'["loop"].gen \in Nat
      BY <2>1, <2>2
    <3> QED BY <1>3, <2>0, <3>1, <3>2, <3>3, <3>4 DEF Numbered
  <2>4. Agrees(v)'
    <3>1. Released(v)'
      BY <1>3, <2>0, <2>1 DEF Released, Leaving
    <3> QED BY <1>3, <2>0, <3>1 DEF Agrees
  <2> QED BY <2>3, <2>4
<1>10. Generations' /\ Agreement'
  <2>1. ASSUME NEW m \in Node \ excused
        PROVE  Numbered(m)' /\ Agrees(m)'
    BY <1>7, <1>8, <1>9
  <2>2. excused' = excused
    OBVIOUS
  <2> QED BY <2>1, <2>2 DEF Generations, Agreement
<1>11. Keys'
  BY <1>0, <1>1 DEF Inv, Keys, Moves, Thread
<1>12. Marks'
  <2>1. ASSUME NEW m \in Node
        PROVE  Full(m)' <=> Full(m)
    <3>1. CASE m = n
      BY <1>2, <3>1 DEF Full
    <3>2. CASE m = v
      BY <1>3, <3>2, NodesAssumption DEF Full
    <3>3. CASE m \notin {n, v}
      BY <1>1, <3>3 DEF Full, Others
    <3> QED BY <3>1, <3>2, <3>3
  <2>2. n \in Node \ excused' => Marked(n)'
    BY <1>0, <1>1, <1>2, <2>1 DEF Inv, Marks, Marked, For, Working, Asking, Decided, Full, Moves, Thread
  <2>3. \A m \in Node \ excused' : m = n \/ MarkSteady(m)
    BY <1>0, <2>1 DEF MarkSteady
  <2>4. /\ \A u \in Thread \ {t} : task'[u] = task[u]
        /\ task'[t].node = n
    BY <1>1 DEF Moves
  <2> QED BY <1>0, <2>2, <2>3, <2>4, MarksFocus DEF Inv
<1> QED BY <1>4, <1>5, <1>6, <1>10, <1>11, <1>12 DEF Inv

LEMMA DecideKeeps ==
  ASSUME Inv, NEW t \in Thread, Decide(t)
  PROVE  Inv'
<1>n. PICK n \in Node : task[t].node = n
  BY DEF Inv, Places, Decide
<1>0. /\ task \in [Thread -> Job] /\ task[t].node = n /\ task[t].at = "decide"
      /\ UNCHANGED <<session, pending, cooling, draining, removals, cmd, online,
                     events, table, now, excused, sent>>
      /\ tried \in SUBSET Node
      /\ \A m \in Node : RadioSteady(m)
  BY <1>n, RadioSame DEF Decide, Inv, Types
<1>1. Record(n).full <=> n \in DOMAIN bus /\ bus[n].full
  BY DEF Record, NewRecord
<1>2. tried' = IF Record(n).full THEN tried \cup {n} ELSE tried
  BY <1>n, <1>1 DEF Decide
<1>3. CASE ~Record(n).full /\ Goto(t, "mark") /\ UNCHANGED bus
  <2>1. Moves(t, "mark", n, task[t].victim, task[t].gen)
    BY <1>0, <1>3, GotoMoves DEF Stage
  <2>2. Types'
    BY <1>0, <1>2, <1>3, <2>1 DEF Inv, Types, Moves
  <2>3. Places'
    BY <1>0, <2>1 DEF Inv, Places, Moves, Thread
  <2>4. Keys'
    BY <1>0, <1>3, <2>1 DEF Inv, Keys, Moves, Thread
  <2>5. n \in Node \ excused => Marked(n)'
    <3>1. \A m \in Node : Full(m)' <=> Full(m)
      BY <1>3, BusSame DEF Inv, Others, Full
    <3> QED BY <1>0, <1>2, <1>3, <2>1, <3>1
            DEF Inv, Marks, Marked, For, Working, Asking, Decided, Full, Moves, Thread
  <2> QED BY <1>0, <1>2, <1>3, <2>1, <2>2, <2>3, <2>4, <2>5, MoveKeeps, SMTT(30) DEF Critical
<1>4. CASE Record(n).full /\ Goto(t, "clear") /\ UNCHANGED bus
  <2>1. Moves(t, "clear", n, task[t].victim, task[t].gen)
    BY <1>0, <1>4, GotoMoves DEF Stage
  <2>2. Types'
    BY <1>0, <1>2, <1>4, <2>1 DEF Inv, Types, Moves
  <2>3. Places'
    BY <1>0, <2>1 DEF Inv, Places, Moves, Thread
  <2>4. Keys'
    BY <1>0, <1>4, <2>1 DEF Inv, Keys, Moves, Thread
  <2>5. n \in Node \ excused => Marked(n)'
    <3>1. \A m \in Node : Full(m)' <=> Full(m)
      BY <1>4, BusSame DEF Inv, Others, Full
    <3> QED BY <1>0, <1>2, <1>4, <2>1, <3>1
            DEF Inv, Marks, Marked, For, Working, Asking, Decided, Full, Moves, Thread
  <2>6. \A m \in Node \ (excused \cup {n}) :
           (m \in pending' <=> m \in pending) /\ (m \in tried' <=> m \in tried)
    BY <1>0, <1>2, <1>4
  <2> QED BY <1>0, <1>4, <2>1, <2>2, <2>3, <2>4, <2>5, <2>6, MoveKeeps DEF Critical
<1>5. CASE /\ Record(n).full /\ ~IsProtected(n)
           /\ \E v \in {NoNode} \cup Victims(n, task[t].spare) : Commit(t, v)
  <2>1. PICK v \in {NoNode} \cup Victims(n, task[t].spare) : Commit(t, v)
    BY <1>5
  <2>2. v # NoNode => v \in DOMAIN bus \ {n} /\ IsProtected(v)
    BY DEF Victims
  <2>3. n \in DOMAIN bus /\ ~Record(n).bit
    BY <1>1, <1>5, ProtectedBit DEF Inv
  <2>4. v \in {NoNode} \cup (DOMAIN bus \ {n})
    BY <2>2
  <2> QED BY <1>0, <1>2, <1>5, <2>1, <2>2, <2>3, <2>4, DecideCommits
<1>6. \/ ~Record(n).full /\ Goto(t, "mark") /\ UNCHANGED bus
      \/ Record(n).full /\ Goto(t, "clear") /\ UNCHANGED bus
      \/ /\ Record(n).full /\ ~IsProtected(n)
         /\ \E v \in {NoNode} \cup Victims(n, task[t].spare) : Commit(t, v)
  BY <1>n, <1>1 DEF Decide
<1> QED BY <1>3, <1>4, <1>5, <1>6

LEMMA RevertKeeps ==
  ASSUME Inv, NEW t \in Thread, Revert(t)
  PROVE  Inv'
<1>n. PICK n \in Node : task[t].node = n
  BY DEF Inv, Places, Revert
<1> DEFINE r == Record(n)
<1>0. /\ task \in [Thread -> Job] /\ task[t].node = n /\ task[t].at = "revert"
      /\ UNCHANGED <<session, pending, cooling, draining, removals, cmd, online,
                     events, table, now, tried, sent>>
      /\ now \in 0 .. MaxTime /\ now # Never /\ DOMAIN bus \subseteq Node
      /\ Goto(t, "mark") /\ RevertProtect(n, task[t].gen)
      /\ excused \in SUBSET Node
      /\ excused' = IF task[t].gen > 1 THEN excused \cup {n} ELSE excused
      /\ \A m \in Node : RadioSteady(m)
  BY <1>n, RadioSame, TimeAssumption DEF Revert, Inv, Types, Never
<1>1. Moves(t, "mark", n, task[t].victim, task[t].gen)
  BY <1>0, GotoMoves DEF Stage
<1>2. /\ BusTypes' /\ DOMAIN bus' = DOMAIN bus /\ Others({n})
      /\ IF n \in DOMAIN bus /\ r.gen = task[t].gen
         THEN Record(n)' = Reverted(r)
         ELSE bus' = bus /\ Record(n)' = Record(n)
  BY <1>0, RevertEffect DEF Inv
<1>3. r \in RecordType /\ RecordOK(r)
  BY RecordType1 DEF Inv, Records
<1>4. /\ Reverted(r).full = r.full /\ Reverted(r).bit = FALSE /\ Reverted(r).gen = r.gen + 1
      /\ r.gen \in Nat
  BY <1>0, <1>3, TransitionFields
<1>5. Types'
  BY <1>0, <1>1, <1>2 DEF Inv, Types, BusTypes, Moves
<1>6. Places'
  BY <1>0, <1>1 DEF Inv, Places, Moves, Thread
<1>7. r.gen = task[t].gen => RecordOK(Reverted(r))
  <2>1. task[t].gen # 0
    BY <1>0 DEF Inv, Places
  <2>2. r.gen # 0 => r.full
    BY <1>3 DEF RecordOK, NewRecord
  <2> QED BY <1>0, <1>3, <2>1, <2>2, RecordSteps
<1>8. Records'
  <2>1. ASSUME NEW m \in Node
        PROVE  RecordOK(Record(m))'
    <3>1. CASE m = n
      BY <1>0, <1>2, <1>3, <1>7, <3>1 DEF RecordOK
    <3>2. CASE m # n
      BY <1>0, <1>2, <3>2 DEF Inv, Records, Others, RecordOK
    <3> QED BY <3>1, <3>2
  <2> QED BY <2>1 DEF Records
<1>9. ASSUME NEW m \in Node \ excused, m # n
      PROVE  Numbered(m)' /\ Agrees(m)'
  <2>1. TaskSteady(m)
    <3>1. \A u \in Thread : /\ Holds(u, m)' <=> Holds(u, m)
                            /\ Holds(u, m) => task'[u].gen = task[u].gen
                            /\ Frees(u, m)' <=> Frees(u, m)
      BY <1>0, <1>1, <1>9 DEF Moves, Holds, Frees
    <3>2. /\ task["loop"].at = "check" /\ task["loop"].node = m =>
               task'["loop"].at = "check" /\ task'["loop"].node = m
          /\ Removes(m) => Removes(m)'
          /\ Removes(m)' => Removes(m) /\ task'["loop"].gen = task["loop"].gen
      BY <1>0, <1>1, <1>9 DEF Moves, Removes, Thread
    <3> QED BY <1>0, <3>1, <3>2 DEF TaskSteady, Leaving
  <2>2. Record(m)' = Record(m)
    BY <1>2, <1>9 DEF Others
  <2> QED BY <1>0, <2>1, <2>2, NumberedKept, AgreesKept DEF Inv, Generations, Agreement
<1>10. ASSUME n \notin excused'
       PROVE  Numbered(n)' /\ Agrees(n)'
  <2>0. n \notin excused /\ ~(task[t].gen > 1)
    BY <1>0, <1>10
  <2>1. Numbered(n) /\ Agrees(n) /\ Holds(t, n)
    BY <1>0, <2>0 DEF Inv, Generations, Agreement, Holds
  <2>2. /\ task[t].gen = 1 /\ r.gen >= 1
        /\ n \in DOMAIN bus
    <3>1. task[t].gen \in 1 .. r.gen
      BY <2>1 DEF Numbered
    <3> QED BY <1>4, <2>0, <3>1 DEF Record, NewRecord
  <2>3. /\ \A u \in Thread \ {t} : /\ Holds(u, n)' <=> Holds(u, n)
                                   /\ Frees(u, n)' <=> Frees(u, n)
                                   /\ task'[u] = task[u]
        /\ ~Holds(t, n)' /\ ~Frees(t, n)' /\ ~Frees(t, n)
        /\ Removes(n)' => Removes(n) /\ task'["loop"] = task["loop"]
        /\ task["loop"].at = "check" /\ task["loop"].node = n =>
               task'["loop"].at = "check" /\ task'["loop"].node = n
        /\ Removes(n) => Removes(n)'
    BY <1>0, <1>1 DEF Moves, Holds, Removes, Frees, Thread
  <2>4. Leaving(n) => Leaving(n)'
    BY <1>0, <2>3 DEF Leaving
  <2>5. sent[n] \in Nat /\ task["loop"].gen \in Nat
    BY <1>0 DEF Inv, Types, Thread, Job
  <2>6. CASE r.gen = 1
    <3>1. Record(n)' = Reverted(r) /\ Record(n)'.gen = 2 /\ Record(n)'.bit = FALSE
          /\ Record(n)'.full = r.full /\ Owes(t, n)
      BY <1>2, <1>4, <2>1, <2>2, <2>6 DEF Owes
    <3>2. Numbered(n)'
      <4>1. \A u \in Thread \ {t} : ~Holds(u, n)
        BY <2>1, <2>2, <2>6 DEF Numbered
      <4>2. sent'[n] <= Record(n)'.gen
        BY <1>0, <2>1, <2>5, <2>6, <3>1 DEF Numbered
      <4>3. Removes(n)' => task'["loop"].gen <= Record(n)'.gen
        BY <2>1, <2>3, <2>5, <2>6, <3>1 DEF Numbered
      <4> QED BY <2>3, <3>1, <4>1, <4>2, <4>3 DEF Numbered
    <3>3. r.full /\ ~MayHearTrue(n)
      <4>1. r.bit
        BY <2>1, <2>2, <2>6 DEF Numbered
      <4> QED BY <2>1, <2>2, <3>1, <4>1, ProtectedBit DEF Agrees, Kept, Inv
    <3>4. ~MayHearTrue(n)' /\ ~Favoured(n)'
      BY <1>0, <3>3, FavouredHeard DEF RadioSteady
    <3> QED BY <3>1, <3>2, <3>3, <3>4 DEF Agrees, Released
  <2>7. CASE r.gen # 1
    <3>1. Record(n)' = Record(n)
      BY <1>2, <2>2, <2>7
    <3>2. Numbered(n)'
      BY <1>0, <2>1, <2>3, <3>1 DEF Numbered
    <3>3. \A u \in Thread : Owes(u, n)' <=> Owes(u, n)
      BY <2>2, <2>3, <2>7, <3>1 DEF Owes
    <3>4. \A u \in Thread : Owes(u, n) => task'[u].gen = task[u].gen
      BY <2>2, <2>3, <2>7 DEF Owes
    <3>5. ~r.full => Untouched(n)'
      BY <1>0, <2>1, <2>3 DEF Agrees, Untouched, RadioSteady
    <3>6. r.bit => Kept(n)'
      BY <1>0, <2>1, <3>1, <3>3, <3>4 DEF Agrees, Kept, RadioSteady
    <3>7. r.full /\ ~r.bit => Released(n)'
      BY <1>0, <2>1, <2>4, <3>1 DEF Agrees, Released, RadioSteady
    <3> QED BY <3>1, <3>2, <3>5, <3>6, <3>7 DEF Agrees
  <2> QED BY <2>6, <2>7
<1>11. Generations' /\ Agreement'
  <2>1. ASSUME NEW m \in Node \ excused'
        PROVE  Numbered(m)' /\ Agrees(m)'
    BY <1>0, <1>9, <1>10
  <2> QED BY <2>1 DEF Generations, Agreement
<1>12. Keys'
  BY <1>0, <1>1, <1>2 DEF Inv, Keys, Moves, Thread
<1>13. Marks'
  <2>1. ASSUME NEW m \in Node
        PROVE  Full(m)' <=> Full(m)
    <3>1. CASE m = n
      BY <1>2, <1>4, <3>1 DEF Full
    <3>2. CASE m # n
      BY <1>2, <3>2 DEF Full, Others
    <3> QED BY <3>1, <3>2
  <2>2. n \in Node \ excused' => Marked(n)'
    BY <1>0, <1>1, <2>1 DEF Inv, Marks, Marked, For, Working, Asking, Decided, Moves, Thread
  <2>3. \A m \in Node \ excused' : m = n \/ MarkSteady(m)
    BY <1>0, <2>1 DEF MarkSteady
  <2>4. /\ \A u \in Thread \ {t} : task'[u] = task[u]
        /\ task'[t].node = n /\ excused \subseteq excused'
    BY <1>0, <1>1 DEF Moves
  <2> QED BY <1>0, <2>2, <2>3, <2>4, MarksFocus DEF Inv
<1> QED BY <1>5, <1>6, <1>8, <1>11, <1>12, <1>13 DEF Inv

LEMMA QueueProtectKeeps ==
  ASSUME Inv, NEW t \in Thread, QueueProtect(t)
  PROVE  Inv'
<1>n. PICK n \in Node : task[t].node = n
  BY DEF Inv, Places, QueueProtect
<1>v. PICK v \in Node \cup {NoNode} : task[t].victim = v
  BY DEF Inv, Types, Job
<1>0. /\ task \in [Thread -> Job] /\ task[t].node = n /\ task[t].at = "queue"
      /\ task[t].victim = v /\ v # n
      /\ UNCHANGED <<bus, session, pending, cooling, draining, online,
                     events, table, now, tried>>
      /\ cmd \in Seq(Frames) /\ excused \in SUBSET Node /\ removals \in SUBSET Node
      /\ sent \in [Node -> Nat] /\ task[t].gen \in Nat
  BY <1>n, <1>v DEF QueueProtect, Inv, Types, Places, Job
<1>1. /\ \A m \in Node : Record(m)' = Record(m)
      /\ \A m \in Node : Full(m)' <=> Full(m)
      /\ Others({})
  BY <1>0, BusSame DEF Inv, Others, Full
<1>2. CASE /\ cmd' = Append(cmd, Frame("protect", n))
           /\ removals' = removals \cup ({v} \ {NoNode})
           /\ sent' = [sent EXCEPT ![n] = task[t].gen]
           /\ Goto(t, "clear")
           /\ excused' = IF Standing(t) THEN excused ELSE excused \cup {n}
  <2>1. Moves(t, "clear", n, v, task[t].gen)
    BY <1>0, <1>2, GotoMoves DEF Stage
  <2>2. excused \subseteq excused' /\ excused' \in SUBSET Node
    BY <1>0, <1>2
  <2>3. cmd' \in Seq(Frames)
    <3>1. Frame("protect", n) \in Frames
      BY DEF Frame, Frames
    <3> QED BY <1>0, <1>2, <3>1
  <2>4. Types'
    <3>1. removals' \in SUBSET Node /\ sent' \in [Node -> Nat]
      BY <1>0, <1>2
    <3> QED BY <1>0, <1>2, <2>1, <2>2, <2>3, <3>1 DEF Inv, Types, Moves
  <2>5. Places'
    <3>1. \A i \in DOMAIN cmd' : (i \in DOMAIN cmd /\ cmd'[i] = cmd[i]) \/ cmd'[i] = Frame("protect", n)
      BY <1>0, <1>2
    <3> QED BY <1>0, <2>1, <3>1 DEF Inv, Places, Moves, Thread
  <2>6. Records'
    BY <1>0, <1>1, RecordsKept DEF Inv
  <2>7. /\ \A u \in Thread \ {t} : task'[u] = task[u]
        /\ \A m : ~Holds(t, m)' /\ ~Frees(t, m)'
        /\ \A m : m # v => ~Frees(t, m)
        /\ \A m : m # n => ~Holds(t, m)
        /\ Holds(t, n)
        /\ \A m : /\ Removes(m)' <=> Removes(m)
                  /\ Removes(m) => task'["loop"].gen = task["loop"].gen
                  /\ task["loop"].at = "check" /\ task["loop"].node = m =>
                       task'["loop"].at = "check" /\ task'["loop"].node = m
    BY <1>0, <2>1 DEF Moves, Holds, Frees, Removes, Thread
  <2>8. \A m : \A u \in Thread \ {t} : /\ Holds(u, m)' <=> Holds(u, m)
                                       /\ Frees(u, m)' <=> Frees(u, m)
    BY <2>7 DEF Holds, Frees
  <2>9. \A m \in Node \ {n} : RadioSteady(m)
    <3>1. \A m \in Node \ {n} : /\ Frame("protect", n) # Frame("protect", m)
                                /\ Frame("protect", n) # Frame("remove", m)
      BY DEF Frame
    <3> QED BY <1>0, <1>2, <3>1, OtherAppended
  <2>10. ASSUME n \notin excused'
         PROVE  Numbered(n)' /\ Agrees(n)'
    <3>0. n \notin excused /\ Standing(t)
      BY <1>2, <2>10
    <3>1. Numbered(n) /\ Agrees(n) /\ Holds(t, n) /\ task[t].gen = Record(n).gen
      BY <1>0, <3>0 DEF Inv, Generations, Agreement, Holds, Standing, Record
    <3>2. Owes(t, n) /\ Record(n).bit /\ Record(n).full
      BY <3>1, ProtectedBit DEF Owes, Numbered, Inv
    <3>3. \A u \in Thread \ {t} : Holds(u, n) => task[u].gen # task[t].gen
      BY <3>1 DEF Numbered
    <3>4. Numbered(n)'
      <4>1. sent'[n] = task[t].gen /\ sent'[n] <= Record(n)'.gen
        BY <1>0, <1>1, <1>2, <3>1
      <4>2. \A u \in Thread : Holds(u, n)' => u # t /\ Holds(u, n) /\ task'[u] = task[u]
        BY <2>7, <2>8
      <4>3. ASSUME NEW u \in Thread, Holds(u, n)'
            PROVE  /\ task'[u].gen \in 1 .. Record(n)'.gen
                   /\ task'[u].gen # sent'[n]
                   /\ task'[u].gen = Record(n)'.gen => Record(n)'.bit
                   /\ \A w \in Thread \ {u} : Holds(w, n)' => task'[w].gen # task'[u].gen
        BY <1>1, <3>1, <3>3, <4>1, <4>2, <4>3 DEF Numbered
      <4>4. Removes(n)' => /\ task'["loop"].gen <= Record(n)'.gen
                           /\ task'["loop"].gen = Record(n)'.gen => ~Record(n)'.bit
        BY <1>1, <2>7, <3>1 DEF Numbered
      <4> QED BY <4>1, <4>3, <4>4 DEF Numbered
    <3>5. Kept(n)'
      <4>1. Favoured(n)' /\ (MayHearFalse(n)' => MayHearFalse(n))
        BY <1>0, <1>2, ProtectAppended
      <4>2. \A u \in Thread : ~Owes(u, n)'
        BY <1>1, <2>7, <2>8, <3>1, <3>3 DEF Owes
      <4> QED BY <1>0, <1>1, <3>1, <3>2, <4>1, <4>2 DEF Kept, Agrees
    <3> QED BY <1>1, <3>2, <3>4, <3>5 DEF Agrees
  <2>11. ASSUME NEW m \in Node \ excused', m # n
         PROVE  Numbered(m)' /\ Agrees(m)'
    <3>1. Numbered(m) /\ Agrees(m) /\ Record(m)' = Record(m)
      BY <1>1, <2>2 DEF Inv, Generations, Agreement
    <3>2. /\ \A u \in Thread : Holds(u, m)' <=> Holds(u, m)
          /\ \A u \in Thread : Holds(u, m) => task'[u].gen = task[u].gen
          /\ \A u \in Thread : Frees(u, m)' => Frees(u, m)
          /\ Removes(m)' => Removes(m) /\ task'["loop"].gen = task["loop"].gen
      BY <2>7, <2>8, <2>11
    <3>3. Leaving(m) => Leaving(m)'
      BY <1>0, <1>2, <2>7, <2>8, NodesAssumption DEF Leaving
    <3>4. sent'[m] = sent[m]
      BY <1>0, <1>2, <2>11
    <3>5. Numbered(m)'
      BY <3>1, <3>2, <3>4 DEF Numbered
    <3>6. CASE m # v
      <4>1. TaskSteady(m)
        BY <1>2, <3>2, <3>3, <3>6 DEF TaskSteady
      <4> QED BY <1>0, <2>9, <2>11, <3>1, <3>5, <4>1, AgreesKept
    <3>7. CASE m = v
      <4>1. Record(m).full
        BY <1>0, <3>1, <3>7 DEF Agrees, Untouched, Frees
      <4>2. \A u \in Thread : Owes(u, m)' <=> Owes(u, m)
        BY <3>1, <3>2 DEF Owes
      <4>3. RadioSteady(m)
        BY <2>9, <2>11
      <4>4. Record(m).bit => Kept(m)'
        BY <1>0, <3>1, <3>2, <4>2, <4>3 DEF Agrees, Kept, RadioSteady, Owes
      <4>5. ~Record(m).bit => Released(m)'
        BY <1>0, <3>1, <3>3, <4>1, <4>3 DEF Agrees, Released, RadioSteady
      <4> QED BY <3>1, <3>5, <4>1, <4>4, <4>5 DEF Agrees
    <3> QED BY <3>6, <3>7
  <2>12. Generations' /\ Agreement'
    <3>1. ASSUME NEW m \in Node \ excused'
          PROVE  Numbered(m)' /\ Agrees(m)'
      BY <2>10, <2>11
    <3> QED BY <3>1 DEF Generations, Agreement
  <2>13. Keys'
    BY <1>0, <2>1 DEF Inv, Keys, Moves, Thread
  <2>14. Marks'
    <3>1. n \in Node \ excused' => Marked(n)'
      BY <1>0, <1>1, <2>1, <2>2 DEF Inv, Marks, Marked, For, Working, Asking, Decided, Moves, Thread
    <3>2. \A m \in Node \ excused' : m = n \/ MarkSteady(m)
      BY <1>0, <1>1 DEF MarkSteady
    <3>3. /\ \A u \in Thread \ {t} : task'[u] = task[u]
          /\ task'[t].node = n
      BY <2>1 DEF Moves
    <3> QED BY <1>0, <2>2, <3>1, <3>2, <3>3, MarksFocus DEF Inv
  <2> QED BY <2>4, <2>5, <2>6, <2>12, <2>13, <2>14 DEF Inv
<1>3. CASE /\ Goto(t, "revert")
           /\ excused' = excused \cup ({v} \ {NoNode})
           /\ UNCHANGED <<cmd, removals, sent>>
  <2>1. Moves(t, "revert", n, v, task[t].gen)
    BY <1>0, <1>3, GotoMoves DEF Stage
  <2>2. excused \subseteq excused' /\ excused' \in SUBSET Node
    BY <1>0, <1>3, <1>v
  <2>3. Types'
    BY <1>0, <1>3, <2>1, <2>2 DEF Inv, Types, Moves
  <2>4. Places'
    BY <1>0, <1>3, <2>1 DEF Inv, Places, Moves, Thread
  <2>5. Records'
    BY <1>0, <1>1, RecordsKept DEF Inv
  <2>6. ASSUME NEW m \in Node \ excused'
        PROVE  TaskSteady(m)
    <3>0. m # v
      BY <1>3, NodesAssumption
    <3>1. /\ \A u \in Thread : Holds(u, m)' <=> Holds(u, m)
          /\ \A u \in Thread : Holds(u, m) => task'[u].gen = task[u].gen
          /\ \A u \in Thread : Frees(u, m)' <=> Frees(u, m)
      BY <1>0, <2>1, <3>0 DEF Moves, Holds, Frees
    <3>2. /\ Removes(m)' <=> Removes(m)
          /\ Removes(m)' => task'["loop"].gen = task["loop"].gen
          /\ task["loop"].at = "check" /\ task["loop"].node = m =>
                       task'["loop"].at = "check" /\ task'["loop"].node = m
      BY <1>0, <2>1 DEF Moves, Removes, Thread
    <3> QED BY <1>3, <3>1, <3>2 DEF TaskSteady, Leaving
  <2>7. Generations' /\ Agreement'
    BY <1>0, <1>1, <1>3, <2>2, <2>6, RadioSame, CalmStep DEF Inv
  <2>8. Keys'
    BY <1>0, <2>1 DEF Inv, Keys, Moves, Thread
  <2>9. Marks'
    <3>1. n \in Node \ excused' => Marked(n)'
      BY <1>0, <1>1, <2>1, <2>2 DEF Inv, Marks, Marked, For, Working, Asking, Decided, Moves, Thread
    <3>2. \A m \in Node \ excused' : m = n \/ MarkSteady(m)
      BY <1>0, <1>1 DEF MarkSteady
    <3>3. /\ \A u \in Thread \ {t} : task'[u] = task[u]
          /\ task'[t].node = n
      BY <2>1 DEF Moves
    <3> QED BY <1>0, <2>2, <3>1, <3>2, <3>3, MarksFocus DEF Inv
  <2> QED BY <2>3, <2>4, <2>5, <2>7, <2>8, <2>9 DEF Inv
<1> QED BY <1>n, <1>v, <1>2, <1>3 DEF QueueProtect

-----------------------------------------------------------------------------
(* The event loop. *)

EventPlaces == \A i \in DOMAIN events : events[i].kind \in {"short", "path", "contact"} =>
                 events[i].node \in Node

LEMMA LoopTakesFacts ==
  ASSUME Inv, NEW kind, LoopTakes(kind)
  PROVE  /\ task["loop"].at = "idle" /\ task["loop"].node = NoNode /\ "loop" \in Thread
         /\ events # <<>> /\ events' = Tail(events) /\ events' \in Seq(Frames) /\ EventPlaces'
         /\ Head(events) \in Frames /\ Head(events).kind = kind
         /\ kind \in {"short", "path", "contact"} => Head(events).node \in Node
         /\ \A n, fav : Told(n, fav)' => Told(n, fav)
         /\ \A n, fav : Head(events) = Contact(n, fav) => Told(n, fav)
<1>1. /\ events \in Seq(Frames) /\ events # <<>> /\ events' = Tail(events)
      /\ task["loop"].at = "idle" /\ Head(events).kind = kind /\ "loop" \in Thread
      /\ task \in [Thread -> Job]
  BY DEF LoopTakes, Inv, Types, Thread
<1>2. task["loop"].node = NoNode
  BY <1>1 DEF Inv, Places, Job
<1>3. /\ DOMAIN events = 1 .. Len(events) /\ DOMAIN events' = 1 .. Len(events) - 1
      /\ \A i \in 1 .. Len(events) - 1 : events'[i] = events[i + 1] /\ i + 1 \in DOMAIN events
      /\ Head(events) = events[1] /\ 1 \in DOMAIN events /\ Head(events) \in Frames
      /\ events' \in Seq(Frames)
  BY <1>1, HeadTailProperties, EmptySeq
<1>4. EventPlaces'
  BY <1>3 DEF Inv, Places, EventPlaces
<1>5. kind \in {"short", "path", "contact"} => Head(events).node \in Node
  BY <1>1, <1>3 DEF Inv, Places
<1>6. \A n, fav : Told(n, fav)' => Told(n, fav)
  BY <1>1, TakenTold
<1>7. \A n, fav : Head(events) = Contact(n, fav) => Told(n, fav)
  BY <1>3 DEF Told
<1> QED BY <1>1, <1>2, <1>3, <1>4, <1>5, <1>6, <1>7

(* A step that changes neither what the bus has, nor who works for whom. *)
LEMMA AsideKeeps ==
  ASSUME Inv, Types', Places', UNCHANGED <<bus, session, pending, task, removals, now, tried, sent>>,
         excused \subseteq excused', \A n \in Node \ excused' : RadioSteady(n)
  PROVE  Inv'
<1>1. /\ \A n \in Node : Record(n)' = Record(n)
      /\ \A n \in Node : Full(n)' <=> Full(n)
      /\ Others({})
  BY BusSame DEF Inv, Others, Full
<1>2. Records'
  BY <1>1, RecordsKept DEF Inv
<1>3. Generations' /\ Agreement'
  BY <1>1, TaskSame, CalmStep DEF Inv
<1>4. Keys'
  BY DEF Inv, Keys
<1>5. Marks'
  BY <1>1, MarksAside DEF Inv, MarkSteady
<1> QED BY <1>2, <1>3, <1>4, <1>5 DEF Inv

LEMMA OnConnectedKeeps ==
  ASSUME Inv, OnConnected
  PROVE  Inv'
<1> DEFINE f == Frame("sync", NoNode)
           g == Frame("contacts", NoNode)
<1>0. /\ cmd \in Seq(Frames) /\ cmd' = cmd \o <<f, g>> /\ draining' = TRUE
      /\ LoopTakes("connected")
      /\ UNCHANGED <<bus, session, pending, cooling, task, removals, online, table,
                     now, excused, tried, sent>>
  BY DEF OnConnected, Inv, Types
<1>1. /\ events' \in Seq(Frames) /\ EventPlaces'
      /\ \A n, fav : Told(n, fav)' => Told(n, fav)
  BY <1>0, LoopTakesFacts
<1>2. f \in Frames /\ g \in Frames
  BY DEF Frame, Frames
<1>3. \A k \in {"protect", "remove"}, n \in Node : f # Frame(k, n) /\ g # Frame(k, n)
  BY DEF Frame
<1> HIDE DEF f, g
<1>4. /\ cmd' \in Seq(Frames) /\ Len(cmd) \in Nat
      /\ DOMAIN cmd = 1 .. Len(cmd) /\ DOMAIN cmd' = 1 .. Len(cmd) + 2
      /\ \A i \in 1 .. Len(cmd) : cmd'[i] = cmd[i]
      /\ cmd'[Len(cmd) + 1] = f /\ cmd'[Len(cmd) + 2] = g
  BY <1>0, <1>2
<1>5. \A i \in DOMAIN cmd' : \/ i \in DOMAIN cmd /\ cmd'[i] = cmd[i]
                             \/ i \notin DOMAIN cmd /\ cmd'[i] \in {f, g}
  BY <1>4
<1>6. ASSUME NEW n \in Node
      PROVE  RadioSteady(n)
  <2> DEFINE p == Frame("protect", n)
             q == Frame("remove", n)
  <2>1. f # p /\ g # p /\ f # q /\ g # q
    BY <1>3
  <2>2. p # q
    BY DEF Frame
  <2>3. (\E i \in DOMAIN cmd' : cmd'[i] = p) <=> (\E i \in DOMAIN cmd : cmd[i] = p)
    <3> HIDE DEF p, q
    <3> QED BY <1>4, <1>5, <2>1
  <2>4. (\E i \in DOMAIN cmd' : cmd'[i] = q) <=> (\E i \in DOMAIN cmd : cmd[i] = q)
    <3> HIDE DEF p, q
    <3> QED BY <1>4, <1>5, <2>1
  <2>5. (\E i \in DOMAIN cmd' : cmd'[i] = p /\ \A j \in DOMAIN cmd' : j > i => cmd'[j] # q)
        <=> (\E i \in DOMAIN cmd : cmd[i] = p /\ \A j \in DOMAIN cmd : j > i => cmd[j] # q)
    <3> HIDE DEF p, q
    <3>1. ASSUME NEW i \in 1 .. Len(cmd)
          PROVE  (\A j \in DOMAIN cmd' : j > i => cmd'[j] # q)
                 <=> (\A j \in DOMAIN cmd : j > i => cmd[j] # q)
      BY <1>4, <1>5, <2>1
    <3> QED BY <1>4, <1>5, <2>1, <3>1
  <2>6. Told(n, TRUE)' => Told(n, TRUE)
    BY <1>1
  <2>7. Told(n, FALSE)' => Told(n, FALSE)
    BY <1>1
  <2> QED BY <1>0, <2>3, <2>4, <2>5, <2>6, <2>7
          DEF RadioSteady, Favoured, MayHearTrue, MayHearFalse, Asked
<1>7. Types'
  BY <1>0, <1>1, <1>4 DEF Inv, Types
<1>8. Places'
  <2>1. \A i \in DOMAIN cmd' :
          cmd'[i] \in {f, g} \cup {Frame(k, n) : k \in {"protect", "remove"}, n \in Node}
    BY <1>5 DEF Inv, Places, f, g
  <2> QED BY <1>0, <1>1, <2>1, SMTT(30) DEF Inv, Places, EventPlaces, f, g
<1> QED BY <1>0, <1>6, <1>7, <1>8, AsideKeeps

LEMMA OnDrainedKeeps ==
  ASSUME Inv, OnDrained
  PROVE  Inv'
<1>0. /\ draining' = FALSE /\ LoopTakes("drained")
      /\ UNCHANGED <<bus, session, pending, cooling, task, removals, cmd, online,
                     table, now, excused, tried, sent>>
  BY DEF OnDrained
<1>1. /\ events' \in Seq(Frames) /\ EventPlaces'
      /\ \A n, fav : Told(n, fav)' => Told(n, fav)
  BY <1>0, LoopTakesFacts
<1>2. Types'
  BY <1>0, <1>1 DEF Inv, Types
<1>3. Places'
  BY <1>0, <1>1 DEF Inv, Places, EventPlaces
<1>4. \A n \in Node : RadioSteady(n)
  BY <1>0, <1>1, ReportsSteady
<1> QED BY <1>0, <1>2, <1>3, <1>4, AsideKeeps

(* The step of the event loop that begins work on what a frame says. *)
LEMMA LoopBegins ==
  ASSUME Inv, NEW kind, LoopTakes(kind), NEW at \in Stage, NEW n \in Node \cup {NoNode},
         at \notin {"idle", "queue", "revert", "remove", "session", "seed", "key", "answer",
                    "fresh", "reseed"},
         n \in Node <=> at # "select",
         Moves("loop", at, n, NoNode, 0),
         UNCHANGED <<bus, pending, cooling, draining, removals, cmd, online, table, now,
                     excused, tried, sent>>,
         session' \in [Node -> {"none", "unkeyed", "keyed"}],
         \A m \in Node : session'[m] = session[m] \/ (m = n /\ session[m] # "none" /\ session'[m] = "keyed"),
         n \in Node \ excused => Marked(n)'
  PROVE  Inv'
<1>1. /\ events' \in Seq(Frames) /\ EventPlaces' /\ "loop" \in Thread
      /\ \A m, fav : Told(m, fav)' => Told(m, fav)
      /\ task["loop"].at = "idle" /\ task["loop"].node = NoNode
  BY LoopTakesFacts
<1>2. Types'
  BY <1>1 DEF Inv, Types, Moves
<1>3. Places'
  BY <1>1, NodesAssumption DEF Inv, Places, EventPlaces, Moves, Thread
<1>4. Keys'
  <2>1. task'["worker"] = task["worker"]
    BY DEF Moves, Thread
  <2>2. task["worker"].at \in {"seed", "key", "reseed"} => task["worker"].node \in Node
    BY DEF Inv, Places, Thread
  <2> QED BY <2>1, <2>2 DEF Inv, Keys
<1>5. \A m \in Node : RadioSteady(m)
  BY <1>1, ReportsSteady
<1> QED BY <1>1, <1>2, <1>3, <1>4, <1>5, MoveKeeps, ZenonT(30) DEF Critical

LEMMA LearnKeyFacts ==
  ASSUME Types, NEW n \in Node, LearnKey(n)
  PROVE  /\ session' \in [Node -> {"none", "unkeyed", "keyed"}]
         /\ \A m \in Node : session'[m] = session[m] \/ (m = n /\ session[m] # "none" /\ session'[m] = "keyed")
         /\ session'[n] # "unkeyed"
BY DEF Types, LearnKey

LEMMA OnPathUpdatedKeeps ==
  ASSUME Inv, OnPathUpdated
  PROVE  Inv'
<1>1. PICK n \in Node : Head(events).node = n
  BY LoopTakesFacts DEF OnPathUpdated
<1>2. LearnKey(n) /\ LoopDoes("ask", n) /\ LoopTakes("path") /\ "ask" \in Stage
      /\ UNCHANGED <<bus, pending, cooling, draining, removals, cmd, online, table,
                     now, excused, tried, sent>>
  BY <1>1 DEF OnPathUpdated, Stage
<1>3. Moves("loop", "ask", n, NoNode, 0)
  BY <1>2, LoopDoesMoves DEF Inv, Types
<1>4. n \in Node \ excused => Marked(n)'
  <2>1. \A m \in Node : Full(m)' <=> Full(m)
    BY <1>2, BusSame DEF Inv, Others, Full
  <2>2. task["loop"].at = "idle" /\ task["loop"].node = NoNode
    BY <1>2, LoopTakesFacts
  <2> QED BY <1>2, <1>3, <2>1, <2>2
          DEF Inv, Marks, Marked, For, Working, Asking, Decided, Moves, Thread
<1> QED BY <1>2, <1>3, <1>4, LearnKeyFacts, LoopBegins DEF Inv

LEMMA OnContactsFullKeeps ==
  ASSUME Inv, OnContactsFull
  PROVE  Inv'
<1>0. /\ LoopTakes("full") /\ "select" \in Stage /\ InSession \in SUBSET Node
      /\ task' = [task EXCEPT !["loop"] = [Idle EXCEPT !.at = "select", !.spare = InSession]]
      /\ UNCHANGED <<bus, session, pending, cooling, draining, removals, cmd, online, table,
                     now, excused, tried, sent>>
      /\ session \in [Node -> {"none", "unkeyed", "keyed"}]
  BY DEF OnContactsFull, Stage, InSession, Inv, Types
<1>1. Moves("loop", "select", NoNode, NoNode, 0)
  BY <1>0, FreshMoves DEF Inv, Types, Thread
<1> QED BY <1>0, <1>1, NodesAssumption, LoopBegins

LEMMA AskPendingKeeps ==
  ASSUME Inv, AskPending
  PROVE  Inv'
<1>n. PICK n \in Node : task["loop"].node = n
  BY DEF Inv, Places, AskPending, Thread
<1>0. /\ task \in [Thread -> Job] /\ task["loop"].node = n /\ task["loop"].at = "ask"
      /\ "loop" \in Thread
      /\ UNCHANGED <<bus, session, pending, cooling, draining, removals, cmd, online, events,
                     table, now, excused, tried, sent>>
  BY <1>n DEF AskPending, Inv, Types, Thread
<1>1. \A m \in Node : Full(m)' <=> Full(m)
  BY <1>0, BusSame DEF Inv, Others, Full
<1>2. PICK at \in {"decide", "idle"}, node \in {n, NoNode}, victim \in Node \cup {NoNode}, gen \in Nat :
        /\ Moves("loop", at, node, victim, gen)
        /\ IF n \in pending THEN at = "decide" /\ node = n ELSE at = "idle" /\ node = NoNode
  <2>1. CASE n \in pending
    <3>1. Moves("loop", "decide", n, task["loop"].victim, task["loop"].gen)
      BY <1>0, <2>1, AttemptMoves DEF AskPending
    <3> QED BY <1>0, <2>1, <3>1 DEF Job
  <2>2. CASE n \notin pending
    <3>1. Moves("loop", "idle", NoNode, NoNode, 0)
      BY <1>0, <2>2, RestMoves DEF AskPending
    <3> QED BY <2>2, <3>1
  <2> QED BY <2>1, <2>2
<1>3. Types'
  BY <1>0, <1>2 DEF Inv, Types, Moves
<1>4. Places'
  BY <1>0, <1>2, NodesAssumption DEF Inv, Places, Moves, Thread
<1>5. Keys'
  BY <1>0, <1>2 DEF Inv, Keys, Moves, Thread
<1>6. n \in Node \ excused => Marked(n)'
  BY <1>0, <1>1, <1>2, NodesAssumption
  DEF Inv, Marks, Marked, For, Working, Asking, Decided, Moves, Thread
<1> QED BY <1>0, <1>2, <1>3, <1>4, <1>5, <1>6, RadioSame, MoveKeeps DEF Critical

LEMMA SelectStaleKeeps ==
  ASSUME Inv, SelectStale
  PROVE  Inv'
<1>0. /\ task \in [Thread -> Job] /\ task["loop"].node = NoNode /\ task["loop"].at = "select"
      /\ "loop" \in Thread /\ DOMAIN bus \subseteq Node
      /\ UNCHANGED <<bus, session, pending, cooling, draining, removals, cmd, online, events,
                     table, now, excused, tried, sent>>
  BY DEF SelectStale, Inv, Types, Thread, Places, Job
<1>1. \A m \in Node : Full(m)' <=> Full(m)
  BY <1>0, BusSame DEF Inv, Others, Full
<1>2. PICK at \in {"check", "idle"}, n \in Node \cup {NoNode} :
        /\ Moves("loop", at, n, NoNode, 0)
        /\ n \in Node <=> at = "check"
  <2>1. CASE Rest("loop")
    BY <1>0, <2>1, RestMoves, NodesAssumption
  <2>2. ASSUME NEW n \in DOMAIN bus, LoopDoes("check", n)
        PROVE  Moves("loop", "check", n, NoNode, 0)
    BY <1>0, <2>2, LoopDoesMoves DEF Stage
  <2>3. Rest("loop") \/ \E n \in DOMAIN bus : LoopDoes("check", n)
    BY DEF SelectStale
  <2> QED BY <1>0, <2>1, <2>2, <2>3
<1>3. Types'
  BY <1>0, <1>2 DEF Inv, Types, Moves
<1>4. Places'
  BY <1>0, <1>2, NodesAssumption DEF Inv, Places, Moves, Thread
<1>5. Keys'
  BY <1>0, <1>2 DEF Inv, Keys, Moves, Thread
<1>6. n \in Node \ excused => Marked(n)'
  BY <1>0, <1>1, <1>2, NodesAssumption
  DEF Inv, Marks, Marked, For, Working, Asking, Decided, Moves, Thread
<1> QED BY <1>0, <1>2, <1>3, <1>4, <1>5, <1>6, RadioSame, MoveKeeps DEF Critical

LEMMA OnRemovalRequestKeeps ==
  ASSUME Inv, OnRemovalRequest
  PROVE  Inv'
<1>0. /\ task \in [Thread -> Job] /\ task["loop"].node = NoNode /\ task["loop"].at = "idle"
      /\ "loop" \in Thread /\ removals \in SUBSET Node
      /\ UNCHANGED <<bus, session, pending, cooling, draining, cmd, online, events,
                     table, now, excused, tried, sent>>
  BY DEF OnRemovalRequest, Inv, Types, Thread, Places, Job
<1>1. PICK n \in Node : LoopDoes("check", n) /\ removals' = removals \ {n}
  BY <1>0 DEF OnRemovalRequest
<1>2. Moves("loop", "check", n, NoNode, 0)
  BY <1>0, <1>1, LoopDoesMoves DEF Stage
<1>3. /\ \A m \in Node : Full(m)' <=> Full(m)
      /\ \A m \in Node : Record(m)' = Record(m)
      /\ Others({})
  BY <1>0, BusSame DEF Inv, Others, Full
<1>4. Types'
  BY <1>0, <1>1, <1>2 DEF Inv, Types, Moves
<1>5. Places'
  BY <1>0, <1>2, NodesAssumption DEF Inv, Places, Moves, Thread
<1>6. Records'
  BY <1>0, <1>3, RecordsKept DEF Inv
<1>7. ASSUME NEW m \in Node
      PROVE  TaskSteady(m)
  <2>1. CASE m # n
    BY <1>0, <1>1, <1>2, <2>1, NodesAssumption, MoveSteady DEF Critical
  <2>2. CASE m = n
    <3>1. \A u \in Thread : /\ Holds(u, m)' <=> Holds(u, m)
                            /\ Holds(u, m) => task'[u].gen = task[u].gen
                            /\ Frees(u, m)' <=> Frees(u, m)
      BY <1>0, <1>2 DEF Moves, Holds, Frees
    <3>2. ~Removes(m)' /\ Leaving(m)' /\ m \notin removals'
      BY <1>0, <1>1, <1>2, <2>2 DEF Moves, Removes, Leaving
    <3> QED BY <3>1, <3>2 DEF TaskSteady
  <2> QED BY <2>1, <2>2
<1>8. Generations' /\ Agreement'
  BY <1>0, <1>3, <1>7, RadioSame, CalmStep DEF Inv
<1>9. Keys'
  BY <1>0, <1>2 DEF Inv, Keys, Moves, Thread
<1>10. Marks'
  <2>1. n \in Node \ excused' => Marked(n)'
    BY <1>0, <1>2, <1>3, NodesAssumption
    DEF Inv, Marks, Marked, For, Working, Asking, Decided, Moves, Thread
  <2>2. \A m \in Node \ excused' : m = n \/ MarkSteady(m)
    BY <1>0, <1>3 DEF MarkSteady
  <2>3. /\ \A u \in Thread \ {"loop"} : task'[u] = task[u]
        /\ task'["loop"].node = n
    BY <1>2 DEF Moves
  <2> QED BY <1>0, <2>1, <2>2, <2>3, MarksFocus DEF Inv
<1> QED BY <1>4, <1>5, <1>6, <1>8, <1>9, <1>10 DEF Inv

(* A report reaches the bus and its task asks for the mark. *)
LEMMA ReportTaken ==
  ASSUME Inv, NEW kind \in {"short", "contact"}, LoopTakes(kind), NEW n \in Node,
         LoopDoes("ask", n), LearnKey(n),
         BusTypes', Others({n}), DOMAIN bus' = DOMAIN bus \cup {n},
         RecordOK(Record(n))', Record(n).full => Full(n)',
         n \in Node \ excused => Numbered(n)' /\ Agrees(n)',
         UNCHANGED <<pending, cooling, draining, removals, cmd, online, table, now,
                     excused, tried, sent>>
  PROVE  Inv'
<1>0. /\ task["loop"].at = "idle" /\ task["loop"].node = NoNode /\ "loop" \in Thread
      /\ events' \in Seq(Frames) /\ EventPlaces' /\ \A m, fav : Told(m, fav)' => Told(m, fav)
      /\ task \in [Thread -> Job] /\ DOMAIN bus \subseteq Node
  BY LoopTakesFacts DEF Inv, Types
<1>1. Moves("loop", "ask", n, NoNode, 0)
  BY <1>0, LoopDoesMoves DEF Stage
<1>2. /\ session' \in [Node -> {"none", "unkeyed", "keyed"}]
      /\ \A m \in Node : session'[m] = session[m] \/ (m = n /\ session[m] # "none" /\ session'[m] = "keyed")
      /\ session'[n] # "unkeyed"
  BY LearnKeyFacts DEF Inv
<1>3. Types'
  BY <1>0, <1>1, <1>2 DEF Inv, Types, BusTypes, Moves
<1>4. Places'
  BY <1>0, <1>1, NodesAssumption DEF Inv, Places, EventPlaces, Moves, Thread
<1>5. Records'
  <2>1. ASSUME NEW m \in Node, m # n
        PROVE  RecordOK(Record(m))'
    BY <2>1 DEF Others, Inv, Records, RecordOK
  <2> QED BY <2>1 DEF Records
<1>6. Generations' /\ Agreement'
  <2>1. ASSUME NEW m \in Node \ excused', m # n
        PROVE  Numbered(m)' /\ Agrees(m)'
    <3>1. TaskSteady(m)
      BY <1>0, <1>1, <2>1, NodesAssumption, MoveSteady DEF Critical
    <3>2. RadioSteady(m) /\ Record(m)' = Record(m)
      BY <1>0, <2>1, ReportsSteady DEF Others
    <3> QED BY <3>1, <3>2, NumberedKept, AgreesKept DEF Inv, Generations, Agreement
  <2>2. ASSUME NEW m \in Node \ excused'
        PROVE  Numbered(m)' /\ Agrees(m)'
    BY <2>1
  <2> QED BY <2>2 DEF Generations, Agreement
<1>7. Keys'
  <2>1. task'["worker"] = task["worker"]
    BY <1>1 DEF Moves, Thread
  <2>2. task["worker"].at \in {"seed", "key", "reseed"} => task["worker"].node \in Node
    BY DEF Inv, Places, Thread
  <2> QED BY <1>2, <2>1, <2>2 DEF Inv, Keys
<1>8. Marks'
  <2>1. \A m \in Node \ {n} : Full(m)' <=> Full(m)
    BY DEF Full, Others
  <2>2. n \in Node \ excused' => Marked(n)'
    BY <1>0, <1>1 DEF Inv, Marks, Marked, For, Working, Asking, Decided, Full, Moves, Thread
  <2>3. \A m \in Node \ excused' : m = n \/ MarkSteady(m)
    BY <2>1 DEF MarkSteady
  <2>4. /\ \A u \in Thread \ {"loop"} : task'[u] = task[u]
        /\ task'["loop"].node = n
    BY <1>1 DEF Moves
  <2> QED BY <1>0, <2>2, <2>3, <2>4, MarksFocus DEF Inv
<1> QED BY <1>3, <1>4, <1>5, <1>6, <1>7, <1>8 DEF Inv

LEMMA OnAdvertKeeps ==
  ASSUME Inv, OnAdvert
  PROVE  Inv'
<1>1. PICK n \in Node : Head(events).node = n
  BY LoopTakesFacts DEF OnAdvert
<1>2. /\ UpsertShort(n) /\ LearnKey(n) /\ LoopDoes("ask", n) /\ LoopTakes("short")
      /\ UNCHANGED <<pending, cooling, draining, removals, cmd, online, table, now,
                     excused, tried, sent>>
  BY <1>1 DEF OnAdvert
<1>3. BusTypes' /\ Others({}) /\ DOMAIN bus' = DOMAIN bus \cup {n} /\ Record(n)' = Record(n)
  BY <1>2, UpsertShortEffect DEF Inv, Others
<1>4. RecordOK(Record(n))'
  BY <1>2, <1>3 DEF Inv, Records, RecordOK
<1>5. n \in Node \ excused => Numbered(n)' /\ Agrees(n)'
  <2>1. task["loop"].at = "idle" /\ task["loop"].node = NoNode /\ "loop" \in Thread
        /\ \A m, fav : Told(m, fav)' => Told(m, fav)
    BY <1>2, LoopTakesFacts
  <2>2. Moves("loop", "ask", n, NoNode, 0)
    BY <1>2, LoopDoesMoves DEF Stage, Inv, Types
  <2>3. TaskSteady(n)
    BY <1>2, <2>1, <2>2, MoveSteady DEF Critical
  <2>4. RadioSteady(n)
    BY <1>2, <2>1, ReportsSteady
  <2> QED BY <1>2, <1>3, <2>3, <2>4, NumberedKept, AgreesKept DEF Inv, Generations, Agreement
<1>6. Others({n}) /\ (Record(n).full => Full(n)')
  BY <1>3 DEF Others, Full
<1> QED BY <1>2, <1>3, <1>4, <1>5, <1>6, ReportTaken

LEMMA SameReport ==
  ASSUME NEW r \in RecordType, r.full
  PROVE  Reported(r, r.bit, r.gen, r.protectedAt) = r
<1>1. r.full = TRUE
  BY DEF RecordType
<1> QED BY <1>1 DEF Reported, RecordType

LEMMA OnContactKeeps ==
  ASSUME Inv, OnContact
  PROVE  Inv'
<1>1. PICK n \in Node, fav \in BOOLEAN : Head(events) = Contact(n, fav)
  <2>1. /\ Head(events).node \in Node /\ Head(events) \in Frames /\ Head(events).kind = "contact"
    BY LoopTakesFacts DEF OnContact
  <2>2. Head(events).fav \in BOOLEAN
    BY <2>1 DEF Frames
  <2>3. Head(events) = Contact(Head(events).node, Head(events).fav)
    BY <2>1 DEF Frames, Contact
  <2> QED BY <2>1, <2>2, <2>3
<1> DEFINE r == Record(n)
<1>2. /\ UpsertContact(n, fav) /\ LearnKey(n) /\ LoopDoes("ask", n) /\ LoopTakes("contact")
      /\ UNCHANGED <<pending, cooling, draining, removals, cmd, online, table, now,
                     excused, tried, sent>>
  BY <1>1 DEF OnContact, Contact
<1>3. /\ task["loop"].at = "idle" /\ task["loop"].node = NoNode /\ "loop" \in Thread
      /\ \A m, f : Told(m, f)' => Told(m, f)
      /\ Told(n, fav)
  BY <1>1, <1>2, LoopTakesFacts
<1>4. /\ BusTypes' /\ Others({n}) /\ DOMAIN bus' = DOMAIN bus \cup {n}
  BY <1>2, UpsertContactEffect DEF Inv
<1>5. PICK at \in Stamp, bit \in BOOLEAN, gen \in Nat :
        /\ Record(n)' = Reported(r, bit, gen, at)
        /\ bit <=> Merged(r, fav)
        /\ IF bit = r.bit THEN gen = r.gen /\ at = r.protectedAt
           ELSE gen = r.gen + 1 /\ (at = r.protectedAt \/ (at = now /\ n \notin DOMAIN bus))
  BY <1>2, UpsertContactEffect DEF Inv
<1>6. /\ r \in RecordType /\ RecordOK(r) /\ r.gen \in Nat /\ r.bit \in BOOLEAN
      /\ now \in 0 .. MaxTime /\ now # Never
      /\ n \notin DOMAIN bus => ~r.bit
  <2>1. r \in RecordType /\ RecordOK(r)
    BY RecordType1 DEF Inv, Records
  <2>2. r.gen \in Nat /\ r.bit \in BOOLEAN
    BY <2>1 DEF RecordType
  <2>3. now \in 0 .. MaxTime /\ now # Never
    BY TimeAssumption DEF Inv, Types, Never
  <2>4. n \notin DOMAIN bus => ~r.bit
    BY DEF Record, NewRecord
  <2> QED BY <2>1, <2>2, <2>3, <2>4
<1>7. /\ Record(n)'.full = TRUE /\ Record(n)'.bit = bit /\ Record(n)'.gen = gen
      /\ Record(n)'.protectedAt = at /\ Record(n)'.unprotectedAt = r.unprotectedAt
  <2>1. Record(n)' \in [full : {TRUE}, bit : {bit}, protectedAt : {at},
                        unprotectedAt : {r.unprotectedAt}, gen : {gen}]
    <3>1. Reported(r, bit, gen, at) \in [full : {TRUE}, bit : {bit}, protectedAt : {at},
                        unprotectedAt : {r.unprotectedAt}, gen : {gen}]
      BY <1>6, Reports, ZenonT(30)
    <3> QED BY <1>5, <3>1
  <2> HIDE DEF r
  <2> QED BY <2>1
<1>8. /\ bit <=> r.protectedAt = now \/ (r.unprotectedAt # now /\ fav)
  BY <1>5 DEF Merged, WithinGrace
<1>9. RecordOK(Record(n))'
  <2>1. Record(n)'.protectedAt \in 0 .. now \cup {Never}
    BY <1>5, <1>6, <1>7 DEF RecordOK
  <2>2. Record(n)'.gen = 0 => ~Record(n)'.bit /\ Record(n)'.unprotectedAt = Never
    BY <1>5, <1>6, <1>7 DEF RecordOK
  <2>3. Record(n)'.bit => Record(n)'.unprotectedAt # now
    BY <1>6, <1>7, <1>8 DEF RecordOK
  <2>4. ~Record(n)'.bit => Record(n)'.protectedAt # now
    BY <1>5, <1>6, <1>7, <1>8 DEF RecordOK
  <2>5. Record(n)'.unprotectedAt \in 0 .. now \cup {Never}
    BY <1>6, <1>7 DEF RecordOK
  <2>6. now' = now
    BY <1>2
  <2> QED BY <1>7, <2>1, <2>2, <2>3, <2>4, <2>5, <2>6 DEF RecordOK
<1>10. Moves("loop", "ask", n, NoNode, 0)
  BY <1>2, LoopDoesMoves DEF Stage, Inv, Types
<1>11. TaskSteady(n)
  BY <1>2, <1>3, <1>10, MoveSteady DEF Critical
<1>12. RadioSteady(n)
  BY <1>2, <1>3, ReportsSteady
<1>13. ASSUME n \in Node \ excused
       PROVE  Numbered(n)' /\ Agrees(n)'
  <2>1. Numbered(n) /\ Agrees(n)
    BY <1>13 DEF Inv, Generations, Agreement
  <2>2. fav => MayHearTrue(n)
    BY <1>3 DEF MayHearTrue
  <2>3. ~fav => MayHearFalse(n)
    BY <1>3 DEF MayHearFalse
  <2>4. CASE r.full
    <3>1. bit = r.bit
      <4>1. CASE r.bit
        <5>1. r.unprotectedAt # now
          BY <1>6, <4>1 DEF RecordOK
        <5>2. fav \/ r.protectedAt = now
          BY <2>1, <2>3, <4>1 DEF Agrees, Kept
        <5> QED BY <1>6, <1>8, <4>1, <5>1, <5>2
      <4>2. CASE ~r.bit
        <5>1. r.protectedAt # now
          BY <1>6, <4>2 DEF RecordOK
        <5>2. ~fav \/ r.unprotectedAt = now
          BY <2>1, <2>2, <2>4, <4>2 DEF Agrees, Released
        <5> QED BY <1>6, <1>8, <4>2, <5>1, <5>2
      <4> QED BY <4>1, <4>2
    <3>2. Record(n)' = Record(n)
      BY <1>5, <1>6, <2>4, <3>1, SameReport
    <3> QED BY <1>2, <1>11, <1>12, <2>1, <3>2, NumberedKept, AgreesKept
  <2>5. CASE ~r.full
    <3>1. /\ r.gen = 0 /\ ~r.bit /\ r.protectedAt = Never /\ r.unprotectedAt = Never
      BY <1>6, <2>5 DEF RecordOK, NewRecord
    <3>2. bit <=> fav
      BY <1>6, <1>8, <3>1
    <3>3. Untouched(n) /\ ~Removes(n)'
      BY <1>10, <2>1, <2>5 DEF Agrees, Moves, Removes
    <3>4. \A t \in Thread : ~Holds(t, n)'
      BY <1>11, <3>3 DEF Untouched, TaskSteady
    <3>5. Numbered(n)'
      <4>1. sent[n] <= 0 /\ sent[n] \in Nat
        BY <2>1, <3>1 DEF Numbered, Inv, Types
      <4>2. sent'[n] <= Record(n)'.gen
        BY <1>2, <1>5, <1>7, <4>1
      <4> QED BY <3>3, <3>4, <4>2 DEF Numbered
    <3>6. CASE fav
      <4>1. ~MayHearFalse(n) /\ ~Asked("remove", n)
        BY <2>2, <3>3, <3>6 DEF Untouched
      <4>2. Favoured(n)
        BY <4>1 DEF MayHearFalse, Favoured
      <4>3. Kept(n)'
        BY <1>12, <3>4, <4>1, <4>2 DEF Kept, RadioSteady, Owes
      <4> QED BY <1>7, <3>2, <3>5, <3>6, <4>3 DEF Agrees
    <3>7. CASE ~fav
      <4>1. ~MayHearTrue(n)
        BY <2>3, <3>3, <3>7 DEF Untouched
      <4>2. Released(n)'
        BY <1>12, <4>1, FavouredHeard DEF Released, RadioSteady
      <4> QED BY <1>7, <3>2, <3>5, <3>7, <4>2 DEF Agrees
    <3> QED BY <3>6, <3>7
  <2> QED BY <2>4, <2>5
<1>14. Record(n).full => Full(n)'
  BY <1>7 DEF Full
<1> QED BY <1>2, <1>4, <1>9, <1>13, <1>14, ReportTaken

LEMMA CheckAgainKeeps ==
  ASSUME Inv, CheckAgain
  PROVE  Inv'
<1>n. PICK n \in Node : task["loop"].node = n
  BY DEF Inv, Places, CheckAgain, Thread
<1>0. /\ task \in [Thread -> Job] /\ task["loop"].node = n /\ task["loop"].at = "check"
      /\ "loop" \in Thread
      /\ UNCHANGED <<bus, session, pending, cooling, draining, removals, cmd, online,
                     events, table, now, excused, tried, sent>>
      /\ IF IsProtected(n) THEN Rest("loop") ELSE LoopRemoves(n)
  BY <1>n DEF CheckAgain, Inv, Types, Thread
<1>1. /\ \A m \in Node : Full(m)' <=> Full(m)
      /\ \A m \in Node : Record(m)' = Record(m)
      /\ Others({})
  BY <1>0, BusSame DEF Inv, Others, Full
<1>2. Record(n).gen \in Nat /\ (IsProtected(n) <=> Record(n).bit)
      /\ (Record(n).bit => Record(n).full)
  BY RecordType1, ProtectedBit DEF Inv, RecordType
<1>3. PICK at \in {"idle", "remove"}, node \in {n, NoNode}, victim \in Node \cup {NoNode}, gen \in Nat :
        /\ Moves("loop", at, node, victim, gen)
        /\ Record(n).bit => at = "idle" /\ node = NoNode
        /\ ~Record(n).bit => at = "remove" /\ node = n /\ gen = Record(n).gen
  <2>1. CASE Record(n).bit
    BY <1>0, <1>2, <2>1, RestMoves
  <2>2. CASE ~Record(n).bit
    <3>1. Moves("loop", "remove", n, task["loop"].victim, Record(n).gen)
      BY <1>0, <1>2, <2>2, LoopRemovesMoves DEF Inv
    <3> QED BY <1>0, <1>2, <2>2, <3>1 DEF Job
  <2> QED BY <2>1, <2>2
<1>4. Types'
  BY <1>0, <1>3 DEF Inv, Types, Moves
<1>5. Places'
  BY <1>0, <1>3, NodesAssumption DEF Inv, Places, Moves, Thread
<1>6. Records'
  BY <1>0, <1>1, RecordsKept DEF Inv
<1>7. \A m : /\ \A u \in Thread : Holds(u, m)' <=> Holds(u, m)
             /\ \A u \in Thread : Holds(u, m) => task'[u].gen = task[u].gen
             /\ \A u \in Thread : Frees(u, m)' <=> Frees(u, m)
  BY <1>0, <1>3 DEF Moves, Holds, Frees
<1>8. ~Removes(n) /\ (Removes(n)' => ~Record(n).bit /\ task'["loop"].gen = Record(n).gen)
      /\ (~Record(n).bit => Removes(n)')
  BY <1>0, <1>3 DEF Moves, Removes
<1>9. ASSUME NEW m \in Node \ excused, m # n
      PROVE  Numbered(m)' /\ Agrees(m)'
  <2>1. ~Removes(m)' /\ ~Removes(m) /\ ~(task["loop"].at = "check" /\ task["loop"].node = m)
    BY <1>0, <1>3, <1>9, NodesAssumption DEF Moves, Removes
  <2>2. Leaving(m) => Leaving(m)'
    BY <1>0, <1>7, <2>1 DEF Leaving
  <2>3. TaskSteady(m)
    BY <1>0, <1>7, <2>1, <2>2 DEF TaskSteady
  <2> QED BY <1>0, <1>1, <2>3, RadioSame, NumberedKept, AgreesKept DEF Inv, Generations, Agreement
<1>10. ASSUME n \notin excused
       PROVE  Numbered(n)' /\ Agrees(n)'
  <2>1. Numbered(n) /\ Agrees(n) /\ Record(n)' = Record(n) /\ RadioSteady(n)
    BY <1>0, <1>1, <1>10, RadioSame DEF Inv, Generations, Agreement
  <2>2. Numbered(n)'
    BY <1>0, <1>2, <1>7, <1>8, <2>1 DEF Numbered
  <2>3. \A u \in Thread : Owes(u, n)' <=> Owes(u, n)
    BY <1>7, <2>1 DEF Owes
  <2>4. ~Record(n).full => Untouched(n)'
    BY <1>0, <1>7, <2>1 DEF Agrees, Untouched, RadioSteady
  <2>5. Record(n).bit => Kept(n)'
    BY <1>0, <1>7, <2>1, <2>3 DEF Agrees, Kept, RadioSteady, Owes
  <2>6. Record(n).full /\ ~Record(n).bit => Released(n)'
    BY <1>0, <1>8, <2>1 DEF Agrees, Released, RadioSteady, Leaving
  <2> QED BY <2>1, <2>2, <2>4, <2>5, <2>6 DEF Agrees
<1>11. Generations' /\ Agreement'
  <2>1. ASSUME NEW m \in Node \ excused'
        PROVE  Numbered(m)' /\ Agrees(m)'
    BY <1>0, <1>9, <1>10
  <2> QED BY <2>1 DEF Generations, Agreement
<1>12. Keys'
  BY <1>0, <1>3 DEF Inv, Keys, Moves, Thread
<1>13. Marks'
  <2>1. n \in Node \ excused' => Marked(n)'
    BY <1>0, <1>1, <1>3, NodesAssumption
    DEF Inv, Marks, Marked, For, Working, Asking, Decided, Moves, Thread
  <2>2. \A m \in Node \ excused' : m = n \/ MarkSteady(m)
    BY <1>0, <1>1 DEF MarkSteady
  <2>3. /\ \A u \in Thread \ {"loop"} : task'[u] = task[u]
        /\ task'["loop"].node \in {n, NoNode}
    BY <1>3 DEF Moves
  <2> QED BY <1>0, <2>1, <2>2, <2>3, MarksFocus DEF Inv
<1> QED BY <1>4, <1>5, <1>6, <1>11, <1>12, <1>13 DEF Inv

LEMMA QueueRemovalKeeps ==
  ASSUME Inv, QueueRemoval
  PROVE  Inv'
<1>n. PICK n \in Node : task["loop"].node = n
  BY DEF Inv, Places, QueueRemoval, Thread
<1> DEFINE crossed == Record(n).gen # task["loop"].gen
<1>0. /\ task \in [Thread -> Job] /\ task["loop"].node = n /\ task["loop"].at = "remove"
      /\ "loop" \in Thread /\ Rest("loop") /\ cmd \in Seq(Frames) /\ excused \in SUBSET Node
      /\ UNCHANGED <<bus, session, pending, cooling, draining, removals, online,
                     events, table, now, tried, sent>>
      /\ cmd' = IF HasRoom THEN Append(cmd, Frame("remove", n)) ELSE cmd
      /\ excused' = IF crossed \/ ~Record(n).full \/ ~HasRoom
                     THEN excused \union {n} ELSE excused
  BY <1>n DEF QueueRemoval, Inv, Types, Thread
<1>1. /\ \A m \in Node : Full(m)' <=> Full(m)
      /\ \A m \in Node : Record(m)' = Record(m)
      /\ Others({})
  BY <1>0, BusSame DEF Inv, Others, Full
<1>2. Moves("loop", "idle", NoNode, NoNode, 0)
  BY <1>0, RestMoves
<1>3. excused \subseteq excused' /\ excused' \in SUBSET Node
  BY <1>0
<1>4. Types'
  <2>1. Frame("remove", n) \in Frames
    BY DEF Frame, Frames
  <2>2. cmd' \in Seq(Frames)
    BY <1>0, <2>1
  <2> QED BY <1>0, <1>2, <1>3, <2>2 DEF Inv, Types, Moves
<1>5. Places'
  <2>1. \A i \in DOMAIN cmd' : (i \in DOMAIN cmd /\ cmd'[i] = cmd[i]) \/ cmd'[i] = Frame("remove", n)
    BY <1>0
  <2> QED BY <1>0, <1>2, <2>1, NodesAssumption DEF Inv, Places, Moves, Thread
<1>6. Records'
  BY <1>0, <1>1, RecordsKept DEF Inv
<1>7. \A m : /\ \A u \in Thread : Holds(u, m)' <=> Holds(u, m)
             /\ \A u \in Thread : Holds(u, m) => task'[u].gen = task[u].gen
             /\ \A u \in Thread : Frees(u, m)' <=> Frees(u, m)
  BY <1>0, <1>2 DEF Moves, Holds, Frees
<1>8. ASSUME NEW m \in Node \ excused, m # n
      PROVE  Numbered(m)' /\ Agrees(m)'
  <2>1. ~Removes(m)' /\ ~Removes(m) /\ ~(task["loop"].at = "check" /\ task["loop"].node = m)
    BY <1>0, <1>2, <1>8, NodesAssumption DEF Moves, Removes
  <2>2. Leaving(m) => Leaving(m)'
    BY <1>0, <1>7, <2>1 DEF Leaving
  <2>3. TaskSteady(m)
    BY <1>0, <1>7, <2>1, <2>2 DEF TaskSteady
  <2>4. RadioSteady(m)
    <3>1. /\ Frame("remove", n) # Frame("protect", m)
          /\ Frame("remove", n) # Frame("remove", m)
      BY <1>8 DEF Frame
    <3> QED BY <1>0, <3>1, OtherAppended, RadioSame
  <2> QED BY <1>0, <1>1, <2>3, <2>4, NumberedKept, AgreesKept DEF Inv, Generations, Agreement
<1>9. ASSUME n \notin excused'
      PROVE  Numbered(n)' /\ Agrees(n)'
  <2>0. /\ n \notin excused /\ ~crossed /\ Record(n).full
        /\ cmd' = Append(cmd, Frame("remove", n))
    BY <1>0, <1>9
  <2>1. Numbered(n) /\ Agrees(n) /\ Record(n)' = Record(n) /\ Removes(n) /\ ~Removes(n)'
    BY <1>0, <1>1, <1>2, <2>0, NodesAssumption DEF Inv, Generations, Agreement, Removes, Moves
  <2>2. ~Record(n).bit
    BY <2>0, <2>1 DEF Numbered
  <2>3. Numbered(n)'
    BY <1>0, <1>7, <2>1 DEF Numbered
  <2>4. Released(n)'
    <3>1. ~Favoured(n)' /\ (MayHearTrue(n)' => MayHearTrue(n))
      BY <1>0, <2>0, RemovalAppended
    <3> QED BY <1>0, <2>0, <2>1, <2>2, <3>1 DEF Released, Agrees
  <2> QED BY <2>0, <2>1, <2>2, <2>3, <2>4 DEF Agrees
<1>10. Generations' /\ Agreement'
  <2>1. ASSUME NEW m \in Node \ excused'
        PROVE  Numbered(m)' /\ Agrees(m)'
    BY <1>3, <1>8, <1>9
  <2> QED BY <2>1 DEF Generations, Agreement
<1>11. Keys'
  BY <1>0, <1>2 DEF Inv, Keys, Moves, Thread
<1>12. Marks'
  <2>1. n \in Node \ excused' => Marked(n)'
    BY <1>0, <1>1, <1>2, <1>3, NodesAssumption
    DEF Inv, Marks, Marked, For, Working, Asking, Decided, Moves, Thread
  <2>2. \A m \in Node \ excused' : m = n \/ MarkSteady(m)
    BY <1>0, <1>1 DEF MarkSteady
  <2>3. /\ \A u \in Thread \ {"loop"} : task'[u] = task[u]
        /\ task'["loop"].node \in {n, NoNode}
    BY <1>2 DEF Moves
  <2> QED BY <1>0, <1>3, <2>1, <2>2, <2>3, MarksFocus DEF Inv
<1> QED BY <1>4, <1>5, <1>6, <1>10, <1>11, <1>12 DEF Inv

-----------------------------------------------------------------------------
(* The web admin, the radio, its link and the clock. *)

LEMMA DeleteContactKeeps ==
  ASSUME Inv, NEW n \in Node, DeleteContact(n)
  PROVE  Inv'
<1> DEFINE r == Record(n)
<1>0. /\ bus' = Unprotect(bus, n) /\ removals' = removals \cup {n} /\ removals \in SUBSET Node
      /\ UNCHANGED <<session, pending, cooling, draining, task, cmd, online, events,
                     table, now, excused, tried, sent>>
      /\ now \in 0 .. MaxTime /\ IsProtected(n) /\ task \in [Thread -> Job]
      /\ DOMAIN bus \subseteq Node
  BY DEF DeleteContact, Inv, Types
<1>1. /\ r \in RecordType /\ RecordOK(r) /\ r.full /\ n \in DOMAIN bus
  BY <1>0, RecordType1, ProtectedBit DEF Inv, Records
<1>2. /\ BusTypes' /\ DOMAIN bus' = DOMAIN bus
      /\ Record(n)' = Unprotected(r) /\ Others({n})
  BY <1>0, <1>1, UnprotectEffect DEF Inv
<1>3. /\ Record(n)'.full = r.full /\ Record(n)'.bit = FALSE /\ Record(n)'.gen = r.gen + 1
      /\ Record(n)'.unprotectedAt = now /\ r.gen \in Nat
  BY <1>0, <1>1, <1>2, TransitionFields
<1>4. Types'
  BY <1>0, <1>2 DEF Inv, Types, BusTypes
<1>5. Places'
  BY <1>0 DEF Inv, Places
<1>6. Records'
  <2>1. RecordOK(Unprotected(r))
    BY <1>0, <1>1, RecordSteps
  <2>2. ASSUME NEW m \in Node
        PROVE  RecordOK(Record(m))'
    <3>1. CASE m = n
      BY <1>0, <1>2, <2>1, <3>1 DEF RecordOK
    <3>2. CASE m # n
      BY <1>0, <1>2, <3>2 DEF Inv, Records, Others, RecordOK
    <3> QED BY <3>1, <3>2
  <2> QED BY <2>2 DEF Records
<1>7. ASSUME NEW m \in Node \ excused, m # n
      PROVE  Numbered(m)' /\ Agrees(m)'
  <2>1. TaskSteady(m)
    BY <1>0, <1>7 DEF TaskSteady, Holds, Frees, Leaving, Removes
  <2>2. RadioSteady(m) /\ Record(m)' = Record(m)
    BY <1>0, <1>2, <1>7, RadioSame DEF Others
  <2> QED BY <1>0, <2>1, <2>2, NumberedKept, AgreesKept DEF Inv, Generations, Agreement
<1>8. ASSUME n \notin excused
      PROVE  Numbered(n)' /\ Agrees(n)'
  <2>1. Numbered(n)
    BY <1>8 DEF Inv, Generations
  <2>2. /\ \A u \in Thread : Holds(u, n)' <=> Holds(u, n)
        /\ Removes(n)' <=> Removes(n)
    BY <1>0 DEF Holds, Removes
  <2>3. sent[n] \in Nat /\ task["loop"].gen \in Nat
    BY <1>0 DEF Inv, Types, Thread, Job
  <2>4. Numbered(n)'
    <3>1. sent'[n] <= Record(n)'.gen
      BY <1>0, <1>3, <2>1, <2>3 DEF Numbered
    <3>2. ASSUME NEW u \in Thread, Holds(u, n)'
          PROVE  /\ task'[u].gen \in 1 .. Record(n)'.gen
                 /\ task'[u].gen # sent'[n]
                 /\ task'[u].gen # Record(n)'.gen
                 /\ \A w \in Thread \ {u} : Holds(w, n)' => task'[w].gen # task'[u].gen
      <4>1. /\ task[u].gen \in 1 .. r.gen /\ task[u].gen # sent[n]
            /\ \A w \in Thread \ {u} : Holds(w, n) => task[w].gen # task[u].gen
        BY <2>1, <2>2, <3>2 DEF Numbered
      <4> QED BY <1>0, <1>3, <2>2, <3>2, <4>1
    <3>3. Removes(n)' => task'["loop"].gen <= Record(n)'.gen
      BY <1>0, <1>3, <2>1, <2>2, <2>3 DEF Numbered
    <3> QED BY <1>3, <3>1, <3>2, <3>3 DEF Numbered
  <2>5. Agrees(n)'
    <3>1. Released(n)'
      BY <1>0, <1>3 DEF Released, Leaving
    <3> QED BY <1>1, <1>3, <3>1 DEF Agrees
  <2> QED BY <2>4, <2>5
<1>9. Generations' /\ Agreement'
  <2>1. ASSUME NEW m \in Node \ excused'
        PROVE  Numbered(m)' /\ Agrees(m)'
    BY <1>0, <1>7, <1>8
  <2> QED BY <2>1 DEF Generations, Agreement
<1>10. Keys'
  BY <1>0, <1>2 DEF Inv, Keys
<1>11. Marks'
  <2>1. ASSUME NEW m \in Node
        PROVE  Full(m)' <=> Full(m)
    <3>1. CASE m = n
      BY <1>3, <3>1 DEF Full
    <3>2. CASE m # n
      BY <1>2, <3>2 DEF Full, Others
    <3> QED BY <3>1, <3>2
  <2> QED BY <1>0, <2>1, MarksAside DEF Inv, MarkSteady
<1> QED BY <1>4, <1>5, <1>6, <1>9, <1>10, <1>11 DEF Inv

LEMMA ClearUnprotectedKeeps ==
  ASSUME Inv, ClearUnprotected
  PROVE  Inv'
<1>0. /\ UNCHANGED <<session, pending, cooling, draining, task, removals, cmd, online,
                     events, table, now, tried, sent>>
      /\ bus' = [n \in {m \in DOMAIN bus : IsProtected(m)} |-> bus[n]]
      /\ now \in 0 .. MaxTime /\ now # Never /\ DOMAIN bus \subseteq Node
  BY TimeAssumption DEF ClearUnprotected, Inv, Types, Never
<1>1. /\ BusTypes' /\ DOMAIN bus' \subseteq DOMAIN bus
      /\ excused \subseteq excused' /\ excused' \in SUBSET Node
      /\ \A n \in Node \ excused' : Record(n)' = Record(n) /\ (n \in DOMAIN bus' <=> n \in DOMAIN bus)
  BY ClearEffect DEF Inv
<1>2. \A n \in Node : Record(n)' = Record(n) \/ Record(n)' = NewRecord
  <2> HIDE DEF IsProtected
  <2> QED BY <1>0 DEF Record, NewRecord
<1>3. Types'
  BY <1>0, <1>1 DEF Inv, Types, BusTypes
<1>4. Places'
  BY <1>0 DEF Inv, Places
<1>5. Records'
  <2>1. RecordOK(NewRecord)
    BY <1>0 DEF RecordOK, NewRecord
  <2>2. ASSUME NEW m \in Node
        PROVE  RecordOK(Record(m))'
    <3>1. CASE Record(m)' = NewRecord
      BY <1>0, <2>1, <3>1 DEF RecordOK
    <3>2. CASE Record(m)' = Record(m)
      BY <1>0, <3>2 DEF Inv, Records, RecordOK
    <3> QED BY <1>2, <3>1, <3>2
  <2> QED BY <2>2 DEF Records
<1>6. Generations' /\ Agreement'
  BY <1>0, <1>1, TaskSame, RadioSame, CalmStep DEF Inv
<1>7. Keys'
  BY <1>0, <1>1 DEF Inv, Keys
<1>8. Marks'
  BY <1>0, <1>1, MarksAside DEF Inv, MarkSteady, Full
<1> QED BY <1>3, <1>4, <1>5, <1>6, <1>7, <1>8 DEF Inv

(* A frame the radio sends, if the link is up. *)
LEMMA ReportFacts ==
  ASSUME Inv, NEW e \in Frames, Report(e),
         e.kind \in {"short", "path", "contact"} => e.node \in Node
  PROVE  /\ events' \in Seq(Frames) /\ EventPlaces'
         /\ \A n, fav : Told(n, fav)' => Told(n, fav) \/ e = Contact(n, fav)
<1>1. events \in Seq(Frames) /\ EventPlaces
  BY DEF Inv, Types, Places, EventPlaces
<1>2. events' = events \/ events' = Append(events, e)
  BY DEF Report
<1>3. CASE events' = events
  BY <1>1, <1>3 DEF Told, EventPlaces
<1>4. CASE events' = Append(events, e)
  <2>1. /\ events' \in Seq(Frames)
        /\ \A i \in DOMAIN events' : (i \in DOMAIN events /\ events'[i] = events[i]) \/ events'[i] = e
    BY <1>1, <1>4
  <2> QED BY <1>1, <2>1 DEF Told, EventPlaces
<1> QED BY <1>2, <1>3, <1>4

LEMMA RadioHearsKeeps ==
  ASSUME Inv, NEW n \in Node, RadioHears(n)
  PROVE  Inv'
<1>0. /\ UNCHANGED <<bus, session, pending, cooling, draining, task, removals, cmd,
                     online, now, excused, tried, sent>>
      /\ DOMAIN table \in SUBSET Node /\ table \in [DOMAIN table -> BOOLEAN]
  BY DEF RadioHears, Inv, Types
<1>1. PICK e \in Frames :
        /\ Report(e) /\ (e.kind \in {"short", "path", "contact"} => e.node \in Node)
        /\ \/ table' = table /\ (\A m, fav : e # Contact(m, fav))
           \/ /\ e = Contact(n, FALSE) /\ n \notin DOMAIN table
              /\ table' = [m \in DOMAIN table \union {n} |-> IF m = n THEN FALSE ELSE table[m]]
  <2>1. \A kind \in {"short", "path"} : Frame(kind, n) \in Frames /\ Frame(kind, n).node = n
    BY DEF Frame, Frames
  <2>2. Contact(n, FALSE) \in Frames /\ Contact(n, FALSE).node = n
    BY DEF Contact, Frames
  <2>3. Frame("full", NoNode) \in Frames /\ Frame("full", NoNode).kind = "full"
    BY DEF Frame, Frames
  <2>4. \A kind \in {"short", "path", "full"} : \A v, m, fav : Frame(kind, v) # Contact(m, fav)
    BY DEF Frame, Contact
  <2>5. \/ \E kind \in {"short", "path"} : Report(Frame(kind, n)) /\ table' = table
        \/ /\ n \notin DOMAIN table /\ Report(Contact(n, FALSE))
           /\ table' = [m \in DOMAIN table \union {n} |-> IF m = n THEN FALSE ELSE table[m]]
        \/ Report(Frame("full", NoNode)) /\ table' = table
    BY DEF RadioHears
  <2> HIDE DEF Report, Frame, Contact, Frames
  <2> QED BY <2>1, <2>2, <2>3, <2>4, <2>5
<1>2. /\ events' \in Seq(Frames) /\ EventPlaces'
      /\ \A m, fav : Told(m, fav)' => Told(m, fav) \/ e = Contact(m, fav)
  BY <1>1, ReportFacts
<1>3. Types'
  <2>1. DOMAIN table' \in SUBSET Node /\ table' \in [DOMAIN table' -> BOOLEAN]
    BY <1>0, <1>1
  <2> QED BY <1>0, <1>2, <2>1 DEF Inv, Types
<1>4. Places'
  BY <1>0, <1>2 DEF Inv, Places, EventPlaces
<1>5. ASSUME NEW m \in Node
      PROVE  RadioSteady(m)
  <2>1. CASE table' = table /\ (\A v, fav : e # Contact(v, fav))
    BY <1>0, <1>2, <2>1, ReportsSteady
  <2>2. CASE /\ e = Contact(n, FALSE) /\ n \notin DOMAIN table
             /\ table' = [v \in DOMAIN table \union {n} |-> IF v = n THEN FALSE ELSE table[v]]
    <3>1. /\ m \in DOMAIN table' => (m \in DOMAIN table \/ ~table'[m])
          /\ m \in DOMAIN table => m \in DOMAIN table' /\ table'[m] = table[m]
      BY <2>2
    <3>2. ASSUME NEW fav \in BOOLEAN, e = Contact(m, fav)
          PROVE  fav = FALSE /\ m = n
      BY <2>2, <3>2 DEF Contact
    <3>3. \A fav \in BOOLEAN : Told(m, fav)' =>
            Told(m, fav) \/ (fav <=> (m \in DOMAIN table /\ table[m]))
      BY <1>2, <2>2, <3>2
    <3> QED BY <1>0, <3>1, <3>3, ReportsSteady
  <2> QED BY <1>1, <2>1, <2>2
<1> QED BY <1>0, <1>3, <1>4, <1>5, AsideKeeps

LEMMA LinkUpKeeps ==
  ASSUME Inv, LinkUp
  PROVE  Inv'
<1> DEFINE e == Frame("connected", NoNode)
<1>0. /\ UNCHANGED <<bus, session, pending, cooling, draining, task, removals, cmd,
                     table, now, excused, tried, sent>>
      /\ online' = TRUE /\ events' = Append(events, e) /\ events \in Seq(Frames)
  BY DEF LinkUp, Inv, Types
<1>1. /\ e \in Frames /\ e.kind = "connected" /\ \A m, fav : e # Contact(m, fav)
  BY DEF Frame, Frames, Contact
<1>2. /\ events' \in Seq(Frames)
      /\ \A i \in DOMAIN events' : (i \in DOMAIN events /\ events'[i] = events[i]) \/ events'[i] = e
  BY <1>0, <1>1
<1> HIDE DEF e
<1>3. \A m, fav : Told(m, fav)' => Told(m, fav)
  BY <1>1, <1>2 DEF Told
<1>4. Types'
  BY <1>0, <1>2 DEF Inv, Types
<1>5. Places'
  BY <1>0, <1>1, <1>2 DEF Inv, Places
<1>6. \A m \in Node : RadioSteady(m)
  BY <1>0, <1>3, ReportsSteady
<1> QED BY <1>0, <1>4, <1>5, <1>6, AsideKeeps

LEMMA CooldownEndsKeeps ==
  ASSUME Inv, CooldownEnds
  PROVE  Inv'
<1>0. /\ UNCHANGED <<bus, session, pending, draining, task, removals, cmd, online,
                     events, table, now, excused, tried, sent>>
      /\ cooling' = FALSE
  BY DEF CooldownEnds
<1>1. Types'
  BY <1>0 DEF Inv, Types
<1>2. Places'
  BY <1>0 DEF Inv, Places
<1> QED BY <1>0, <1>1, <1>2, RadioSame, AsideKeeps

LEMMA RadioTakesKeeps ==
  ASSUME Inv, RadioTakes
  PROVE  Inv'
<1> DEFINE f == Head(cmd)
<1>0. /\ UNCHANGED <<bus, session, pending, cooling, draining, task, removals,
                     online, now, tried, sent>>
      /\ cmd \in Seq(Frames) /\ cmd # <<>> /\ cmd' = Tail(cmd)
      /\ events \in Seq(Frames) /\ EventPlaces /\ excused \in SUBSET Node
      /\ DOMAIN table \in SUBSET Node /\ table \in [DOMAIN table -> BOOLEAN]
  BY DEF RadioTakes, Inv, Types, Places, EventPlaces
<1>1. /\ DOMAIN cmd = 1 .. Len(cmd) /\ DOMAIN cmd' = 1 .. Len(cmd) - 1
      /\ f = cmd[1] /\ Len(cmd) \in Nat /\ 1 \in DOMAIN cmd /\ cmd' \in Seq(Frames)
      /\ \A i \in 1 .. Len(cmd) - 1 : cmd'[i] = cmd[i + 1] /\ i + 1 \in DOMAIN cmd
  BY <1>0, HeadTailProperties, EmptySeq
<1>2. \/ f = Frame("sync", NoNode) \/ f = Frame("contacts", NoNode)
      \/ \E n \in Node : f \in {Frame("protect", n), Frame("remove", n)}
  BY <1>1 DEF Inv, Places
<1>3. \A k, n : Frame(k, n).kind = k /\ Frame(k, n).node = n
  BY DEF Frame
<1>4. \A i \in DOMAIN cmd' : cmd'[i] \in {Frame("sync", NoNode), Frame("contacts", NoNode)}
                  \cup {Frame(k, n) : k \in {"protect", "remove"}, n \in Node}
  BY <1>1 DEF Inv, Places
<1> HIDE DEF f
<1>5. ASSUME events' \in Seq(Frames), EventPlaces', excused \subseteq excused', excused' \in SUBSET Node,
             DOMAIN table' \in SUBSET Node, table' \in [DOMAIN table' -> BOOLEAN],
             \A n \in Node \ excused' : RadioSteady(n)
      PROVE  Inv'
  <2>1. Types'
    BY <1>0, <1>1, <1>5 DEF Inv, Types
  <2>2. Places'
    BY <1>0, <1>4, <1>5 DEF Inv, Places, EventPlaces
  <2> QED BY <1>0, <1>5, <2>1, <2>2, AsideKeeps
<1>6. CASE f = Frame("sync", NoNode)
  <2>1. /\ Report(Frame("drained", NoNode)) /\ UNCHANGED <<table, excused>>
    <3>1. f.kind = "sync"
      BY <1>3, <1>6
    <3> QED BY <3>1 DEF RadioTakes, f
  <2>2. /\ Frame("drained", NoNode) \in Frames /\ Frame("drained", NoNode).kind = "drained"
        /\ \A n, fav : Frame("drained", NoNode) # Contact(n, fav)
    BY DEF Frame, Frames, Contact
  <2>3. events' \in Seq(Frames) /\ EventPlaces' /\ \A n, fav : Told(n, fav)' => Told(n, fav)
    <3> HIDE DEF Frame
    <3> QED BY <2>1, <2>2, ReportFacts
  <2>4. ASSUME NEW n \in Node
        PROVE  RadioSteady(n)
    <3>1. f # Frame("protect", n) /\ f # Frame("remove", n)
      BY <1>6 DEF Frame
    <3> HIDE DEF Frame
    <3> QED BY <1>0, <2>1, <2>3, <3>1, HeadGone DEF f
  <2> QED BY <1>0, <1>5, <2>1, <2>3, <2>4
<1>7. CASE f = Frame("contacts", NoNode)
  <2>0. f.kind = "contacts"
    BY <1>3, <1>7
  <2>1. PICK order \in SetToSeqs(DOMAIN table) :
          events' = events \o [i \in DOMAIN order |-> Contact(order[i], table[order[i]])]
    BY <2>0 DEF RadioTakes, f
  <2>2. UNCHANGED <<table, excused>>
    BY <2>0 DEF RadioTakes, f
  <2> DEFINE c == Cardinality(DOMAIN table)
             s == [i \in DOMAIN order |-> Contact(order[i], table[order[i]])]
  <2>3. c \in Nat
    BY <1>0, NodesAssumption, FS_Subset, FS_CardinalityType
  <2>4. order \in [1 .. c -> DOMAIN table]
    BY DEF SetToSeqs
  <2>5. \A n \in Node, fav \in BOOLEAN : Contact(n, fav) \in Frames /\ Contact(n, fav).node = n
    BY DEF Contact, Frames
  <2>6. ASSUME NEW i \in 1 .. c
        PROVE  s[i] \in Frames /\ s[i].node \in Node /\ \E n \in DOMAIN table : s[i] = Contact(n, table[n])
    BY <1>0, <2>4, <2>5
  <2>7. DOMAIN s = 1 .. c
    BY <2>4
  <2> HIDE DEF s, c
  <2>8. s \in Seq(Frames) /\ Len(s) = c
    <3>1. s \in [1 .. c -> Frames]
      BY <2>6, <2>7 DEF s
    <3> QED BY <2>3, <3>1
  <2>9. /\ events' \in Seq(Frames)
        /\ \A i \in DOMAIN events' : \/ i \in DOMAIN events /\ events'[i] = events[i]
                                     \/ \E j \in 1 .. c : events'[i] = s[j]
    <3>1. events' = events \o s
      BY <2>1 DEF s
    <3>2. /\ DOMAIN events' = 1 .. Len(events) + c /\ events' \in Seq(Frames)
          /\ \A i \in 1 .. Len(events) + c :
               events'[i] = IF i <= Len(events) THEN events[i] ELSE s[i - Len(events)]
      BY <1>0, <2>3, <2>8, <3>1, ConcatProperties
    <3>3. DOMAIN events = 1 .. Len(events) /\ Len(events) \in Nat
      BY <1>0
    <3> QED BY <2>3, <3>2, <3>3
  <2>10. EventPlaces'
    BY <1>0, <2>6, <2>9 DEF EventPlaces
  <2>11. ASSUME NEW n \in Node, NEW fav \in BOOLEAN, Told(n, fav)'
         PROVE  Told(n, fav) \/ (fav <=> (n \in DOMAIN table /\ table[n]))
    <3>1. PICK i \in DOMAIN events' : events'[i] = Contact(n, fav)
      BY <2>11 DEF Told
    <3>2. CASE i \in DOMAIN events /\ events'[i] = events[i]
      BY <3>1, <3>2 DEF Told
    <3>3. ASSUME NEW j \in 1 .. c, events'[i] = s[j]
          PROVE  fav <=> (n \in DOMAIN table /\ table[n])
      <4>1. PICK m \in DOMAIN table : Contact(n, fav) = Contact(m, table[m])
        BY <2>6, <3>1, <3>3
      <4>2. n = m /\ fav = table[m]
        BY <4>1 DEF Contact
      <4> QED BY <4>2
    <3> QED BY <2>9, <3>2, <3>3
  <2>12. ASSUME NEW n \in Node
         PROVE  RadioSteady(n)
    <3>1. f # Frame("protect", n) /\ f # Frame("remove", n)
      BY <1>7 DEF Frame
    <3> HIDE DEF Frame
    <3> QED BY <1>0, <2>2, <2>11, <3>1, HeadGone DEF f
  <2> QED BY <1>0, <1>5, <2>2, <2>9, <2>10, <2>12
<1>8. ASSUME NEW n \in Node, f = Frame("remove", n)
      PROVE  Inv'
  <2>0. f.kind = "remove" /\ f.node = n
    BY <1>3, <1>8
  <2>1. /\ table' = [m \in DOMAIN table \ {n} |-> table[m]]
        /\ UNCHANGED <<events, excused>>
    BY <2>0 DEF RadioTakes, f
  <2>2. DOMAIN table' \in SUBSET Node /\ table' \in [DOMAIN table' -> BOOLEAN]
    BY <1>0, <2>1
  <2>3. ASSUME NEW m \in Node
        PROVE  RadioSteady(m)
    <3>1. /\ f # Frame("protect", m)
          /\ f = Frame("remove", m) => m = n
      BY <1>8 DEF Frame
    <3>2. m # n => ((m \in DOMAIN table' /\ table'[m]) <=> (m \in DOMAIN table /\ table[m]))
      BY <2>1
    <3>3. m = n => m \notin DOMAIN table' /\ f = Frame("remove", m)
      BY <1>8, <2>1
    <3>4. \A fav \in BOOLEAN : Told(m, fav)' => Told(m, fav)
      BY <2>1 DEF Told
    <3> HIDE DEF Frame
    <3> QED BY <1>0, <3>1, <3>2, <3>3, <3>4, HeadGone DEF f
  <2>4. events' \in Seq(Frames) /\ EventPlaces'
    BY <1>0, <2>1 DEF EventPlaces
  <2> QED BY <1>0, <1>5, <2>1, <2>2, <2>3, <2>4
<1>9. ASSUME NEW n \in Node, f = Frame("protect", n)
      PROVE  Inv'
  <2>0. f.kind = "protect" /\ f.node = n
    BY <1>3, <1>9
  <2>1. /\ events' = events
        /\ \/ /\ table' = [m \in DOMAIN table \union {n} |-> IF m = n THEN TRUE ELSE table[m]]
              /\ excused' = excused
           \/ excused' = excused \cup {n} /\ table' = table
    BY <2>0 DEF RadioTakes, f
  <2>2. DOMAIN table' \in SUBSET Node /\ table' \in [DOMAIN table' -> BOOLEAN]
        /\ excused \subseteq excused' /\ excused' \in SUBSET Node
    BY <1>0, <2>1
  <2>3. ASSUME NEW m \in Node \ excused'
        PROVE  RadioSteady(m)
    <3>1. /\ f # Frame("remove", m)
          /\ f = Frame("protect", m) => m = n
      BY <1>9 DEF Frame
    <3>2. m # n => ((m \in DOMAIN table' /\ table'[m]) <=> (m \in DOMAIN table /\ table[m]))
      BY <2>1
    <3>3. m = n => m \in DOMAIN table' /\ table'[m] /\ f = Frame("protect", m)
      BY <1>9, <2>1
    <3>4. \A fav \in BOOLEAN : Told(m, fav)' => Told(m, fav)
      BY <2>1 DEF Told
    <3> HIDE DEF Frame
    <3> QED BY <1>0, <3>1, <3>2, <3>3, <3>4, HeadGone DEF f
  <2>4. events' \in Seq(Frames) /\ EventPlaces'
    BY <1>0, <2>1 DEF EventPlaces
  <2> QED BY <1>5, <2>2, <2>3, <2>4
<1> QED BY <1>2, <1>6, <1>7, <1>8, <1>9

LEMMA LinkBreaksKeeps ==
  ASSUME Inv, LinkBreaks
  PROVE  Inv'
<1>0. /\ UNCHANGED <<bus, session, pending, cooling, draining, task, removals, table,
                     now, tried, sent>>
      /\ online' = FALSE
      /\ cmd \in Seq(Frames) /\ events \in Seq(Frames) /\ excused \in SUBSET Node
  BY DEF LinkBreaks, Inv, Types
<1>1. PICK k \in 0 .. Len(events) : events' = SubSeq(events, 1, k)
  BY DEF LinkBreaks
<1>2. /\ events' \in Seq(Frames)
      /\ \A i \in DOMAIN events' : i \in DOMAIN events /\ events'[i] = events[i]
  BY <1>0, <1>1, SubSeqProperties
<1>3. \A n, fav : Told(n, fav)' => Told(n, fav)
  BY <1>2 DEF Told
<1>4. \/ UNCHANGED <<cmd, excused>>
      \/ /\ cmd # <<>> /\ cmd' = Tail(cmd)
         /\ excused' = excused \union ({Head(cmd).node} \ {NoNode})
  BY DEF LinkBreaks
<1>5. CASE UNCHANGED <<cmd, excused>>
  <2>1. Types'
    BY <1>0, <1>2, <1>5 DEF Inv, Types
  <2>2. Places'
    BY <1>0, <1>2, <1>5 DEF Inv, Places
  <2>3. \A n \in Node : RadioSteady(n)
    BY <1>0, <1>3, <1>5, ReportsSteady
  <2> QED BY <1>0, <1>5, <2>1, <2>2, <2>3, AsideKeeps
<1>6. CASE /\ cmd # <<>> /\ cmd' = Tail(cmd)
           /\ excused' = excused \union ({Head(cmd).node} \ {NoNode})
  <2>1. /\ DOMAIN cmd = 1 .. Len(cmd) /\ DOMAIN cmd' = 1 .. Len(cmd) - 1
        /\ Head(cmd) = cmd[1] /\ Len(cmd) \in Nat /\ 1 \in DOMAIN cmd /\ cmd' \in Seq(Frames)
        /\ \A i \in 1 .. Len(cmd) - 1 : cmd'[i] = cmd[i + 1] /\ i + 1 \in DOMAIN cmd
    BY <1>0, <1>6, HeadTailProperties, EmptySeq
  <2>2. Head(cmd) \in Frames
    BY <1>0, <2>1
  <2>3. excused \subseteq excused' /\ excused' \in SUBSET Node
    BY <1>0, <1>6, <2>2 DEF Frames
  <2>4. Types'
    BY <1>0, <1>2, <2>1, <2>3 DEF Inv, Types
  <2>5. Places'
    <3>1. \A i \in DOMAIN cmd' : \E j \in DOMAIN cmd : cmd'[i] = cmd[j]
      BY <2>1
    <3> QED BY <1>0, <1>2, <3>1 DEF Inv, Places
  <2>6. ASSUME NEW n \in Node \ excused'
        PROVE  RadioSteady(n)
    <3>1. Head(cmd).node # n
      BY <1>6, <2>6, NodesAssumption
    <3>2. Head(cmd) # Frame("protect", n) /\ Head(cmd) # Frame("remove", n)
      BY <3>1 DEF Frame
    <3> HIDE DEF Frame
    <3> QED BY <1>0, <1>3, <1>6, <3>2, HeadGone
  <2> QED BY <1>0, <2>3, <2>4, <2>5, <2>6, AsideKeeps
<1> QED BY <1>4, <1>5, <1>6

(* A window ends: what is still on its way to the radio is late, and for
   everybody else the radio has what the bus says. *)
LEMMA TickKeeps ==
  ASSUME Inv, Tick
  PROVE  Inv'
<1>0. /\ UNCHANGED <<bus, session, pending, draining, task, removals, cmd, online,
                     events, table, tried, sent>>
      /\ cooling' = FALSE /\ now' = now + 1 /\ now \in 0 .. MaxTime /\ now < MaxTime
      /\ excused' = excused \union ({cmd[i].node : i \in DOMAIN cmd} \ {NoNode})
      /\ excused \in SUBSET Node /\ cmd \in Seq(Frames)
      /\ events = <<>> /\ removals = {} /\ \A t \in Thread : task[t].at = "idle"
  BY DEF Tick, AtRest, Inv, Types
<1>1. /\ now' \in 0 .. MaxTime /\ 0 .. now \subseteq 0 .. now' /\ now' \notin 0 .. now
      /\ now' # Never
  BY <1>0, TimeAssumption DEF Never
<1>2. excused \subseteq excused' /\ excused' \in SUBSET Node
  <2>1. \A i \in DOMAIN cmd : cmd[i].node \in Node \cup {NoNode}
    <3>1. \A i \in DOMAIN cmd : cmd[i] \in Frames
      BY <1>0
    <3> QED BY <3>1 DEF Frames
  <2> QED BY <1>0, <2>1
<1>3. Types'
  BY <1>0, <1>1, <1>2 DEF Inv, Types
<1>4. Places'
  BY <1>0 DEF Inv, Places
<1>5. /\ \A n \in Node : Record(n)' = Record(n)
      /\ \A n \in Node : Full(n)' <=> Full(n)
  BY <1>0, BusSame DEF Inv, Others, Full
<1>6. Records'
  <2>1. ASSUME NEW n \in Node
        PROVE  RecordOK(Record(n))'
    <3>1. RecordOK(Record(n))
      BY DEF Inv, Records
    <3> QED BY <1>1, <1>5, <3>1 DEF RecordOK
  <2> QED BY <2>1 DEF Records
<1>7. ASSUME NEW n \in Node \ excused'
      PROVE  Numbered(n)' /\ Agrees(n)'
  <2>1. Numbered(n) /\ Agrees(n)
    BY <1>2 DEF Inv, Generations, Agreement
  <2>2. TaskSteady(n) /\ RadioSteady(n)
    BY <1>0, TaskSame, RadioSame
  <2>3. Numbered(n)'
    BY <1>0, <1>5, <2>1, <2>2, NumberedKept
  <2>4. ~Asked("protect", n) /\ ~Asked("remove", n)
    <3>1. \A i \in DOMAIN cmd : cmd[i].node # n
      BY <1>0, NodesAssumption
    <3>2. \A k : Frame(k, n).node = n
      BY DEF Frame
    <3> HIDE DEF Frame
    <3> QED BY <3>1, <3>2 DEF Asked
  <2>5. /\ \A fav : ~Told(n, fav)
        /\ ~Leaving(n)
        /\ \A t \in Thread : ~Owes(t, n)
    BY <1>0 DEF Told, Leaving, Frees, Removes, Owes, Holds, Thread
  <2>6. /\ Favoured(n) <=> n \in DOMAIN table /\ table[n]
        /\ MayHearTrue(n) <=> n \in DOMAIN table /\ table[n]
        /\ MayHearFalse(n) <=> ~(n \in DOMAIN table /\ table[n])
    BY <2>4, <2>5 DEF Favoured, MayHearTrue, MayHearFalse, Asked
  <2>7. Agrees(n)'
    <3>1. ~Record(n).full => Untouched(n)'
      BY <2>1, <2>2 DEF Agrees, Untouched, TaskSteady, RadioSteady
    <3>2. Record(n).bit => Kept(n)'
      <4>1. Record(n).bit => Favoured(n) /\ ~MayHearFalse(n)
        BY <2>1, <2>5, <2>6 DEF Agrees, Kept
      <4>2. \A t \in Thread : ~Owes(t, n)'
        BY <1>5, <2>2, <2>5 DEF TaskSteady, Owes
      <4> QED BY <2>2, <4>1, <4>2 DEF Kept, RadioSteady
    <3>3. Record(n).full /\ ~Record(n).bit => Released(n)'
      <4>1. Record(n).full /\ ~Record(n).bit => ~Favoured(n) /\ ~MayHearTrue(n)
        BY <2>1, <2>5, <2>6 DEF Agrees, Released
      <4> QED BY <2>2, <4>1 DEF Released, RadioSteady
    <3> QED BY <1>5, <3>1, <3>2, <3>3 DEF Agrees
  <2> QED BY <2>3, <2>7
<1>8. Generations' /\ Agreement'
  BY <1>7 DEF Generations, Agreement
<1>9. Keys'
  BY <1>0 DEF Inv, Keys
<1>10. Marks'
  BY <1>0, <1>2, <1>5, MarksAside DEF Inv, MarkSteady
<1> QED BY <1>3, <1>4, <1>6, <1>8, <1>9, <1>10 DEF Inv

-----------------------------------------------------------------------------
(* The theorems. *)

(* The program has just connected: nothing is under way. *)
LEMMA InitInv == Init => Inv
<1> SUFFICES ASSUME Init PROVE Inv
  OBVIOUS
<1>0. /\ DOMAIN bus = {} /\ bus = [n \in {} |-> NewRecord]
      /\ session = [n \in Node |-> "none"]
      /\ pending = {} /\ cooling = FALSE /\ draining = FALSE /\ online = TRUE
      /\ task = [t \in Thread |-> Idle]
      /\ removals = {} /\ cmd = <<>> /\ events = <<Frame("connected", NoNode)>>
      /\ now = 0 /\ excused = {} /\ tried = {} /\ sent = [n \in Node |-> 0]
  BY DEF Init
<1>1. /\ DOMAIN table \in SUBSET Node
      /\ table \in [DOMAIN table -> BOOLEAN]
  BY DEF Init
<1>2. \A t \in Thread : /\ task[t] = Idle /\ task[t].at = "idle"
                        /\ task[t].node = NoNode /\ task[t].gen = 0
  BY <1>0 DEF Idle
<1>3. Idle \in Job
  BY DEF Idle, Job, Stage
<1>4. Types
  <2>1. Frame("connected", NoNode) \in Frames
    BY DEF Frame, Frames
  <2>2. events \in Seq(Frames) /\ cmd \in Seq(Frames)
    BY <1>0, <2>1
  <2>3. task \in [Thread -> Job]
    BY <1>0, <1>3
  <2>4. bus \in [DOMAIN bus -> RecordType] /\ DOMAIN bus \in SUBSET Node
    BY <1>0
  <2>5. now \in 0 .. MaxTime
    BY <1>0, TimeAssumption
  <2> QED BY <1>0, <1>1, <2>2, <2>3, <2>4, <2>5 DEF Types
<1>5. Places
  <2>1. DOMAIN cmd = {}
    BY <1>0
  <2>2. \A i \in DOMAIN events : events[i].kind = "connected"
    BY <1>0 DEF Frame
  <2>3. NoNode \notin Node
    BY NodesAssumption
  <2> QED BY <1>2, <2>1, <2>2, <2>3 DEF Places, Thread
<1>6. ASSUME NEW n \in Node
      PROVE  Record(n) = NewRecord
  BY <1>0 DEF Record
<1>7. /\ NewRecord.full = FALSE /\ NewRecord.bit = FALSE /\ NewRecord.gen = 0
      /\ NewRecord.protectedAt = Never /\ NewRecord.unprotectedAt = Never
      /\ Never # now
  BY <1>0, TimeAssumption DEF NewRecord, Never
<1>8. Records
  BY <1>6, <1>7 DEF Records, RecordOK
<1>9. Generations
  BY <1>0, <1>2, <1>6, <1>7 DEF Generations, Numbered, Holds, Removes, Thread
<1>10. Agreement
  <2>1. ASSUME NEW n \in Node
        PROVE  Untouched(n)
    <3>1. ~Asked("protect", n) /\ ~Asked("remove", n)
      BY <1>0 DEF Asked
    <3>2. \A fav : ~Told(n, fav)
      <4>1. \A i \in DOMAIN events : events[i].kind = "connected"
        BY <1>0 DEF Frame
      <4>2. \A fav : Contact(n, fav).kind = "contact"
        BY DEF Contact
      <4> QED BY <4>1, <4>2 DEF Told
    <3>3. ~MayHearTrue(n) \/ ~MayHearFalse(n)
      BY <3>1, <3>2 DEF MayHearTrue, MayHearFalse
    <3>4. \A t \in Thread : ~Holds(t, n) /\ ~Frees(t, n)
      BY <1>2 DEF Holds, Frees
    <3> QED BY <1>0, <3>1, <3>3, <3>4 DEF Untouched
  <2> QED BY <1>6, <1>7, <2>1 DEF Agreement, Agrees
<1>11. Keys
  BY <1>0, <1>2 DEF Keys, Thread
<1>12. Marks
  BY <1>0, <1>2 DEF Marks, Marked, For, Working, Asking, Thread
<1> QED BY <1>4, <1>5, <1>8, <1>9, <1>10, <1>11, <1>12 DEF Inv

(* No step of the worker, the event loop, the web admin, the radio, its link or
   the clock breaks the invariant. *)
LEMMA AttemptsKeep ==
  ASSUME Inv, NEW t \in Thread, Attempts(t)
  PROVE  Inv'
BY DecideKeeps, QueueProtectKeeps, RevertKeeps, MarkKeeps, ClearMarkKeeps DEF Attempts

LEMMA WorkerKeeps ==
  ASSUME Inv, Worker
  PROVE  Inv'
<1>1. "worker" \in Thread
  BY DEF Thread
<1> QED BY <1>1, DispatchKeeps, SessionKeeps, SeedKeyKeeps, LookUpKeyKeeps,
           AttemptsKeep, AnswerKeeps DEF Worker

LEMMA LoopKeeps ==
  ASSUME Inv, Loop
  PROVE  Inv'
<1>1. "loop" \in Thread
  BY DEF Thread
<1> QED BY <1>1, OnConnectedKeeps, OnDrainedKeeps, OnAdvertKeeps, OnContactKeeps,
           OnPathUpdatedKeeps, AskPendingKeeps, AttemptsKeep, OnContactsFullKeeps,
           SelectStaleKeeps, OnRemovalRequestKeeps, CheckAgainKeeps,
           QueueRemovalKeeps DEF Loop

LEMMA StepKeeps == Inv /\ [Next]_vars => Inv'
<1> SUFFICES ASSUME Inv, [Next]_vars PROVE Inv'
  OBVIOUS
<1>1. CASE Worker
  BY <1>1, WorkerKeeps
<1>2. CASE Loop
  BY <1>2, LoopKeeps
<1>3. CASE \E n \in Node : DeleteContact(n)
  BY <1>3, DeleteContactKeeps
<1>4. CASE ClearUnprotected
  BY <1>4, ClearUnprotectedKeeps
<1>5. CASE \E n \in Node : RadioHears(n)
  BY <1>5, RadioHearsKeeps
<1>6. CASE RadioTakes
  BY <1>6, RadioTakesKeeps
<1>7. CASE LinkUp \/ LinkBreaks
  BY <1>7, LinkUpKeeps, LinkBreaksKeeps
<1>8. CASE CooldownEnds \/ Tick
  BY <1>8, CooldownEndsKeeps, TickKeeps
<1>9. CASE UNCHANGED vars
  <2>1. UNCHANGED <<bus, session, pending, cooling, draining, task, removals, cmd,
                    online, events, table, now, excused, tried, sent>>
    BY <1>9 DEF vars
  <2>2. Types' /\ Places' /\ Keys'
    BY <2>1 DEF Inv, Types, Places, Keys
  <2>3. \A n \in Node : Record(n)' = Record(n)
    BY <2>1 DEF Record
  <2>4. Records'
    BY <2>1, <2>3 DEF Inv, Records, RecordOK
  <2>5. Generations'
    BY <2>1, <2>3 DEF Inv, Generations, Numbered, Holds, Removes
  <2>6. ASSUME NEW n \in Node \ excused
        PROVE  Agrees(n)'
    <3>1. TaskSteady(n) /\ RadioSteady(n)
      BY <2>1, TaskSame, RadioSame
    <3> QED BY <2>1, <2>3, <3>1, AgreesKept DEF Inv, Agreement
  <2>7. Agreement'
    BY <2>1, <2>6 DEF Agreement
  <2>8. Marks'
    BY <2>1, <2>3 DEF Inv, Marks, Marked, For, Working, Asking, Decided, Full
  <2> QED BY <2>2, <2>4, <2>5, <2>7, <2>8 DEF Inv
<1> QED BY <1>1, <1>2, <1>3, <1>4, <1>5, <1>6, <1>7, <1>8, <1>9 DEF Next

(* What is under way between bus, tasks and radio is accounted for at every
   moment: the records' generations, what the table will be, who will decide. *)
THEOREM Invariance == Spec => []Inv
<1>1. Init => Inv
  BY InitInv
<1>2. Inv /\ [Next]_vars => Inv'
  BY StepKeeps
<1> QED BY <1>1, <1>2, PTL DEF Spec

(* When all is quiet nothing is on its way, and nobody is at anything. *)
LEMMA Quiet ==
  ASSUME Inv, Settled, NEW n \in Node
  PROVE  /\ \A k : ~Asked(k, n)
         /\ \A fav : ~Told(n, fav)
         /\ \A t \in Thread : ~Owes(t, n)
         /\ ~Leaving(n) /\ ~Working(n) /\ ~Asking(n)
<1>1. /\ \A t \in Thread : task[t].at = "idle"
      /\ events = <<>> /\ removals = {} /\ cmd = <<>>
  BY DEF Settled, AtRest
<1>2. "worker" \in Thread /\ "loop" \in Thread
  BY DEF Thread
<1>3. DOMAIN events = {} /\ DOMAIN cmd = {}
  BY <1>1
<1> QED BY <1>1, <1>2, <1>3 DEF Asked, Told, Owes, Holds, Leaving, Frees, Removes,
           Working, Asking, For

(* Once the frames are through, whoever the bus protects is a favourite of the
   radio, unless a fault came between the two (try_protect_contact and the
   re-checks before a removal). *)
THEOREM ProtectedIsFavourites == Spec => []ProtectedIsFavourite
<1>1. Inv => ProtectedIsFavourite
  <2> SUFFICES ASSUME Inv, Settled, NEW n \in DOMAIN bus \ excused, bus[n].bit
               PROVE  n \in DOMAIN table /\ table[n]
    BY DEF ProtectedIsFavourite
  <2>1. n \in Node \ excused
    BY DEF Inv, Types
  <2>2. Kept(n)
    BY <2>1 DEF Inv, Agreement, Agrees, Record
  <2>3. Favoured(n)
    BY <2>1, <2>2, Quiet DEF Kept
  <2> QED BY <2>1, <2>3, Quiet DEF Favoured, Asked
<1> QED BY <1>1, Invariance, PTL

(* Once the frames are through, no favourite of the radio whose record is known
   passes for unprotected (upsert_contact, clear_unprotected,
   api_delete_contact). *)
THEOREM FavouritesAreKnown == Spec => []FavouriteIsKnown
<1>1. Inv => FavouriteIsKnown
  <2> SUFFICES ASSUME Inv, Settled, NEW n \in DOMAIN bus \ excused,
                      bus[n].full, n \in DOMAIN table, table[n]
               PROVE  bus[n].bit
    BY DEF FavouriteIsKnown
  <2>1. n \in Node \ excused /\ Record(n) = bus[n]
    BY DEF Inv, Types, Record
  <2>2. Favoured(n) /\ ~Leaving(n)
    BY <2>1, Quiet DEF Favoured
  <2>3. bus[n].bit \in BOOLEAN
    BY <2>1 DEF Inv, Types, RecordType
  <2> QED BY <2>1, <2>2, <2>3 DEF Inv, Agreement, Agrees, Released
<1> QED BY <1>1, Invariance, PTL

(* Whoever is still marked when all is quiet, with a complete record, had a
   decision since the message: mark, message and record come in any order on two
   tasks, and one of them finds the others (dispatch_message). *)
THEOREM MarkedHadDecisions == Spec => []MarkedHadDecision
<1>1. Inv => MarkedHadDecision
  <2> SUFFICES ASSUME Inv, Settled, NEW n \in pending \ excused,
                      n \in DOMAIN bus, bus[n].full
               PROVE  n \in tried
    BY DEF MarkedHadDecision
  <2>1. n \in Node \ excused /\ Full(n)
    BY DEF Inv, Types, Record, Full
  <2> QED BY <2>1, Quiet DEF Inv, Marks, Marked, Decided
<1> QED BY <1>1, Invariance, PTL

(* A protection whose frame was queued is never taken back by the revert of
   another attempt: every transition has a number of its own, and a task reverts
   the one it made (RevertProtect, generation). *)
THEOREM OnlyOwnReverts == Spec => RevertsOwn
<1>1. Inv /\ [Next]_vars =>
        [\A t \in Thread : Revert(t) =>
           \/ bus' = bus \/ task[t].node \in excused
           \/ sent[task[t].node] # bus[task[t].node].gen]_vars
  <2> SUFFICES ASSUME Inv, NEW t \in Thread, Revert(t), bus' # bus,
                      task[t].node \notin excused
               PROVE  sent[task[t].node] # bus[task[t].node].gen
    OBVIOUS
  <2>1. PICK n \in Node : task[t].node = n
    BY DEF Revert, Inv, Places
  <2>2. n \in DOMAIN bus /\ bus[n].gen = task[t].gen /\ Holds(t, n)
    BY <2>1 DEF Revert, RevertProtect, Holds
  <2>3. Numbered(n)
    BY <2>1 DEF Inv, Generations
  <2> QED BY <2>1, <2>2, <2>3 DEF Numbered
<1> QED BY <1>1, Invariance, PTL DEF Spec, RevertsOwn
=============================================================================
