---------------------------- MODULE ServiceProofs ----------------------------
(***************************************************************************)
(* Proofs about the services that several callers share: the provider      *)
(* execution service (ProviderChain), the document room (DocSync) and the  *)
(* history of a session (Conversation).                                    *)
(***************************************************************************)
EXTENDS ProviderChain, DocSync, Conversation, SequenceProofs, FiniteSetTheorems, SequenceTheorems

(* The provider execution service. The invariant says where the entries of the *)
(* copied chain are for every execute, and what an open breaker still counts.   *)

Pieces == Seq({"piece", "whole"})

ExecRec == [pc: {"idle", "entry", "attempt", "chat", "backoff", "done"},
            target: ChannelIds \cup {0}, copy: SUBSET Providers, left: SUBSET Providers,
            p: Providers, attempt: 0..MaxRetries, emitted: BOOLEAN, err: BOOLEAN,
            acc: Pieces, shown: Pieces, end: {"none", "answer", "error", "cancelled"},
            degraded: BOOLEAN, failed: SUBSET Providers, skipped: SUBSET Providers]

AdminRec == [pc: {"idle", "put", "build", "swap"}, id: ChannelIds \cup {0}, row: Channel,
             built: SUBSET Providers]

Breaker == [failures: Nat, until: {"none", "later", "past"}]

Trying == {"attempt", "chat", "backoff"}

(* The entries behind an execute, and the one it is at. *)
Behind(e) == e.failed \cup e.skipped

(* Between two entries: the copy is split into what is left and what is behind, *)
(* and an error was seen exactly when an entry failed.                           *)
EntryOK(e) ==
    /\ e.copy = e.left \cup Behind(e) /\ e.left \cap Behind(e) = {}
    /\ e.err <=> e.failed # {}

(* At an entry; when it is the mock, nothing is left. *)
TryOK(e) ==
    /\ e.copy = e.left \cup Behind(e) \cup {e.p}
    /\ e.left \cap Behind(e) = {} /\ e.p \notin e.left \cup Behind(e)
    /\ e.p = Mock => e.left = {} /\ (e.err <=> e.failed # {})

(* What an answer may claim. *)
EndOK(e) ==
    e.end = "answer" =>
        /\ e.shown = e.acc
        /\ e.p = Mock => /\ e.copy \ {Mock} = Behind(e)
                         /\ e.degraded <=> e.failed # {}

ExecOK(e) ==
    /\ e.left \subseteq e.copy
    /\ e.pc # "done" => e.end = "none"
    /\ e.pc = "entry" => EntryOK(e)
    /\ e.pc \in Trying => TryOK(e)
    /\ e.pc # "done" => (~e.emitted => e.shown = << >>)
    /\ e.pc = "chat" => e.shown = e.acc
    /\ e.pc = "backoff" => e.attempt < MaxRetries /\ e.p # Mock
    /\ EndOK(e)

(* The executes at p: each may still add one failure to an open breaker. *)
InFlight(p) == {x \in ExecIds : exec[x].pc \in Trying /\ exec[x].p = p}

Counted ==
    \A p \in Providers :
        /\ breakers[p].until = "none" => breakers[p].failures < Threshold
        /\ breakers[p].until # "none" =>
             breakers[p].failures + Cardinality(InFlight(p)) <= Threshold + Cardinality(ExecIds)

ProvTypes ==
    /\ channels \in [ChannelIds -> Channel] /\ chain \in SUBSET Providers
    /\ breakers \in [Providers -> Breaker] /\ exec \in [ExecIds -> ExecRec]
    /\ admin \in [Admins -> AdminRec]

ProvInv == ProvTypes /\ (\A x \in ExecIds : ExecOK(exec[x])) /\ Counted

LEMMA NumbersFacts ==
    /\ Mock \in Nat /\ Mock \in Providers /\ ChannelIds \subseteq Providers
    /\ Mock \notin ChannelIds \cup {0} /\ Providers \subseteq Int
    /\ \A p \in Providers : p <= Mock
    /\ Threshold \in Nat \ {0} /\ MaxRetries \in Nat /\ IsFiniteSet(ExecIds)
    /\ Cardinality(ExecIds) \in Nat
<1>1. NumChannels \in Nat /\ NumEnv \in Nat /\ Threshold \in Nat \ {0} /\ MaxRetries \in Nat
      /\ IsFiniteSet(ExecIds)
      BY ProviderAssumption
<1>2. Cardinality(ExecIds) \in Nat
      BY <1>1, FS_CardinalityType
<1> QED
      BY <1>1, <1>2 DEF Mock, Providers, ChannelIds

LEMMA BuildChainType ==
    ASSUME NEW store PROVE BuildChain(store) \subseteq Providers
<1>1. NumChannels \in Nat /\ NumEnv \in Nat
      BY ProviderAssumption
<1> QED
      BY <1>1 DEF BuildChain, Providers, Mock, ChannelIds

LEMMA IdleOK == ExecIdle \in ExecRec /\ ExecOK(ExecIdle)
<1>1. << >> \in Pieces
      BY DEF Pieces
<1>2. ExecIdle \in ExecRec
      BY <1>1, NumbersFacts DEF ExecIdle, ExecRec
<1>3. ExecOK(ExecIdle)
      BY DEF ExecIdle, ExecOK, EndOK, Trying
<1> QED
      BY <1>2, <1>3

(* What each step makes of the execute's record. *)
LEMMA StartedOK ==
    ASSUME NEW t \in ChannelIds \cup {0}, NEW c \in SUBSET Providers, NEW k,
           k = [ExecIdle EXCEPT !.pc = "entry", !.target = t, !.copy = c, !.left = c]
    PROVE  k \in ExecRec /\ ExecOK(k)
<1>1. ExecIdle \in ExecRec
      BY IdleOK
<1>2. k \in ExecRec
      BY <1>1 DEF ExecRec
<1>3. ExecOK(k)
      BY DEF ExecIdle, ExecOK, EndOK, Trying, EntryOK, Behind
<1> QED
      BY <1>2, <1>3

LEMMA EndedOK ==
    ASSUME NEW e \in ExecRec, ExecOK(e), NEW why \in {"error", "cancelled"}, NEW k,
           k = [e EXCEPT !.pc = "done", !.end = why]
    PROVE  k \in ExecRec /\ ExecOK(k)
<1>1. k \in ExecRec
      BY DEF ExecRec
<1>2. ExecOK(k)
      BY DEF ExecRec, ExecOK, EndOK, Trying
<1> QED
      BY <1>1, <1>2

LEMMA SkippedOK ==
    ASSUME NEW e \in ExecRec, ExecOK(e), e.pc = "entry", NEW p \in e.left, NEW k,
           k = [e EXCEPT !.left = @ \ {p}, !.skipped = @ \cup {p}]
    PROVE  k \in ExecRec /\ ExecOK(k)
<1>1. k \in ExecRec
      BY DEF ExecRec
<1>2. k.left = e.left \ {p} /\ k.skipped = e.skipped \cup {p} /\ k.failed = e.failed
      /\ k.copy = e.copy /\ k.err = e.err /\ k.pc = "entry" /\ k.end = e.end
      /\ k.emitted = e.emitted /\ k.shown = e.shown
      BY DEF ExecRec
<1>3. EntryOK(e)
      BY DEF ExecOK
<1>4. EntryOK(k)
      BY <1>2, <1>3 DEF EntryOK, Behind
<1>5. ExecOK(k)
      BY <1>2, <1>4 DEF ExecOK, EndOK, Trying
<1> QED
      BY <1>1, <1>5

LEMMA TriedOK ==
    ASSUME NEW e \in ExecRec, ExecOK(e), e.pc = "entry", NEW p \in Providers,
           IsNext(p, e.left, e.target), NEW k,
           k = [e EXCEPT !.left = @ \ {p}, !.p = p, !.pc = "attempt", !.attempt = 0]
    PROVE  k \in ExecRec /\ ExecOK(k)
<1>0. 0 \in 0..MaxRetries
      BY NumbersFacts
<1>1. k \in ExecRec
      BY <1>0 DEF ExecRec
<1>2. k.left = e.left \ {p} /\ k.skipped = e.skipped /\ k.failed = e.failed
      /\ k.copy = e.copy /\ k.err = e.err /\ k.pc = "attempt" /\ k.end = e.end
      /\ k.emitted = e.emitted /\ k.shown = e.shown /\ k.p = p
      BY DEF ExecRec
<1>3. EntryOK(e) /\ p \in e.left /\ e.end = "none"
      BY DEF ExecOK, IsNext
<1>4. ASSUME p = Mock PROVE e.left = {Mock}
  <2>0. e.left \in SUBSET Providers /\ e.target \in ChannelIds \cup {0}
        BY DEF ExecRec
  <2>1. e.left \subseteq Providers /\ e.target # Mock
        BY <2>0, NumbersFacts
  <2>2. \A o \in e.left : Mock <= o /\ o <= Mock /\ o \in Int
        BY <1>4, <2>1, NumbersFacts DEF IsNext
  <2>3. \A o \in e.left : o = Mock
        BY <2>2, NumbersFacts
  <2> QED
        BY <1>3, <1>4, <2>3
<1>5. TryOK(k)
  <2>1. k.copy = k.left \cup Behind(k) \cup {k.p}
        BY <1>2, <1>3 DEF EntryOK, Behind
  <2>2. k.left \cap Behind(k) = {} /\ k.p \notin k.left \cup Behind(k)
        BY <1>2, <1>3 DEF EntryOK, Behind
  <2>3. k.p = Mock => k.left = {} /\ (k.err <=> k.failed # {})
        BY <1>2, <1>3, <1>4 DEF EntryOK
  <2> QED
        BY <2>1, <2>2, <2>3 DEF TryOK
<1>6. ExecOK(k)
      BY <1>2, <1>3, <1>5 DEF ExecOK, EndOK, Trying
<1> QED
      BY <1>1, <1>6

LEMMA CalledOK ==
    ASSUME NEW e \in ExecRec, ExecOK(e), e.pc = "attempt", NEW k,
           k = [e EXCEPT !.pc = "chat", !.emitted = FALSE, !.acc = << >>,
                         !.shown = IF e.emitted THEN << >> ELSE @]
    PROVE  k \in ExecRec /\ ExecOK(k)
<1>0. << >> \in Pieces
      BY DEF Pieces
<1>1. k \in ExecRec
      BY <1>0 DEF ExecRec
<1>2. k.left = e.left /\ k.skipped = e.skipped /\ k.failed = e.failed
      /\ k.copy = e.copy /\ k.err = e.err /\ k.pc = "chat" /\ k.end = "none"
      /\ k.p = e.p /\ k.acc = << >>
      BY DEF ExecRec, ExecOK
<1>3. k.shown = << >>
      BY DEF ExecRec, ExecOK
<1>4. TryOK(k)
      BY <1>2 DEF TryOK, Behind, ExecOK, Trying
<1>5. ExecOK(k)
      BY <1>2, <1>3, <1>4 DEF ExecOK, EndOK, Trying
<1> QED
      BY <1>1, <1>5

LEMMA PieceOK ==
    ASSUME NEW e \in ExecRec, ExecOK(e), e.pc = "chat", NEW k,
           k = [e EXCEPT !.acc = Append(@, "piece"), !.emitted = TRUE, !.shown = Append(@, "piece")]
    PROVE  k \in ExecRec /\ ExecOK(k)
<1>0. Append(e.acc, "piece") \in Pieces /\ Append(e.shown, "piece") \in Pieces
      BY DEF Pieces, ExecRec
<1>1. k \in ExecRec
      BY <1>0 DEF ExecRec
<1>2. k.left = e.left /\ k.skipped = e.skipped /\ k.failed = e.failed
      /\ k.copy = e.copy /\ k.err = e.err /\ k.pc = "chat" /\ k.end = "none"
      /\ k.p = e.p /\ k.emitted = TRUE
      BY DEF ExecRec, ExecOK
<1>3. k.shown = k.acc
      BY DEF ExecRec, ExecOK
<1>4. TryOK(k)
      BY <1>2 DEF TryOK, Behind, ExecOK, Trying
<1>5. ExecOK(k)
      BY <1>2, <1>3, <1>4 DEF ExecOK, EndOK, Trying
<1> QED
      BY <1>1, <1>5

LEMMA AnsweredOK ==
    ASSUME NEW e \in ExecRec, ExecOK(e), e.pc = "chat", NEW w \in Pieces, NEW k,
           k = [e EXCEPT !.pc = "done", !.end = "answer", !.acc = @ \o w, !.shown = @ \o w,
                         !.degraded = (e.p = Mock /\ e.err)]
    PROVE  k \in ExecRec /\ ExecOK(k)
<1>0. e.acc \o w \in Pieces /\ e.shown \o w \in Pieces
      BY DEF Pieces, ExecRec
<1>1. k \in ExecRec
      BY <1>0 DEF ExecRec
<1>2. k.left = e.left /\ k.skipped = e.skipped /\ k.failed = e.failed
      /\ k.copy = e.copy /\ k.pc = "done" /\ k.end = "answer" /\ k.p = e.p
      BY DEF ExecRec
<1>3. k.shown = k.acc
      BY DEF ExecRec, ExecOK
<1>4. k.degraded <=> (e.p = Mock /\ e.err)
      BY DEF ExecRec
<1>5. TryOK(e)
      BY DEF ExecOK, Trying
<1>6. ASSUME e.p = Mock
      PROVE  k.copy \ {Mock} = Behind(k) /\ (k.degraded <=> k.failed # {})
  <2>1. e.left = {} /\ (e.err <=> e.failed # {}) /\ Mock \notin Behind(e)
        /\ e.copy = Behind(e) \cup {Mock}
        BY <1>5, <1>6 DEF TryOK
  <2>2. k.copy \ {Mock} = Behind(k)
        BY <1>2, <2>1 DEF Behind
  <2>3. k.degraded <=> k.failed # {}
        BY <1>2, <1>4, <1>6, <2>1
  <2> QED
        BY <2>2, <2>3
<1>8. EndOK(k)
      BY <1>2, <1>3, <1>6 DEF EndOK
<1>7. ExecOK(k)
      BY <1>2, <1>8 DEF ExecOK, Trying
<1> QED
      BY <1>1, <1>7

LEMMA BacksOffOK ==
    ASSUME NEW e \in ExecRec, ExecOK(e), e.pc = "chat", e.p # Mock, e.attempt < MaxRetries, NEW k,
           k = [e EXCEPT !.pc = "backoff", !.err = TRUE]
    PROVE  k \in ExecRec /\ ExecOK(k)
<1>1. k \in ExecRec
      BY DEF ExecRec
<1>2. k.left = e.left /\ k.skipped = e.skipped /\ k.failed = e.failed /\ k.attempt = e.attempt
      /\ k.copy = e.copy /\ k.pc = "backoff" /\ k.end = "none" /\ k.p = e.p
      /\ k.emitted = e.emitted /\ k.shown = e.shown
      BY DEF ExecRec, ExecOK
<1>3. TryOK(k)
      BY <1>2 DEF TryOK, Behind, ExecOK, Trying
<1>4. ExecOK(k)
      BY <1>2, <1>3 DEF ExecOK, EndOK, Trying
<1> QED
      BY <1>1, <1>4

LEMMA GivesUpOK ==
    ASSUME NEW e \in ExecRec, ExecOK(e), e.pc = "chat", NEW k,
           k = [e EXCEPT !.pc = "entry", !.err = TRUE, !.failed = @ \cup {e.p}]
    PROVE  k \in ExecRec /\ ExecOK(k)
<1>1. k \in ExecRec
      BY DEF ExecRec
<1>2. k.left = e.left /\ k.skipped = e.skipped /\ k.failed = e.failed \cup {e.p} /\ k.err = TRUE
      /\ k.copy = e.copy /\ k.pc = "entry" /\ k.end = "none"
      /\ k.emitted = e.emitted /\ k.shown = e.shown
      BY DEF ExecRec, ExecOK
<1>3. EntryOK(k)
      BY <1>2 DEF TryOK, EntryOK, Behind, ExecOK, Trying
<1>4. ExecOK(k)
      BY <1>2, <1>3 DEF ExecOK, EndOK, Trying
<1> QED
      BY <1>1, <1>4

LEMMA WokenOK ==
    ASSUME NEW e \in ExecRec, ExecOK(e), e.pc = "backoff", NEW k,
           k = [e EXCEPT !.pc = "attempt", !.attempt = @ + 1]
    PROVE  k \in ExecRec /\ ExecOK(k)
<1>0. e.attempt + 1 \in 0..MaxRetries
      BY NumbersFacts DEF ExecRec, ExecOK
<1>1. k \in ExecRec
      BY <1>0 DEF ExecRec
<1>2. k.left = e.left /\ k.skipped = e.skipped /\ k.failed = e.failed /\ k.err = e.err
      /\ k.copy = e.copy /\ k.pc = "attempt" /\ k.end = "none" /\ k.p = e.p
      /\ k.emitted = e.emitted /\ k.shown = e.shown
      BY DEF ExecRec, ExecOK
<1>3. TryOK(k)
      BY <1>2 DEF TryOK, Behind, ExecOK, Trying
<1>4. ExecOK(k)
      BY <1>2, <1>3 DEF ExecOK, EndOK, Trying
<1> QED
      BY <1>1, <1>4

(* Moving one execute leaves the others as they are. *)
LEMMA ExecMoves ==
    ASSUME ProvInv, NEW x \in ExecIds, NEW k \in ExecRec, ExecOK(k), exec' = [exec EXCEPT ![x] = k]
    PROVE  exec' \in [ExecIds -> ExecRec] /\ \A y \in ExecIds : ExecOK(exec[y])'
<1>1. exec \in [ExecIds -> ExecRec] /\ \A y \in ExecIds : ExecOK(exec[y])
      BY DEF ProvInv, ProvTypes
<1>2. exec' \in [ExecIds -> ExecRec]
      BY <1>1
<1>3. ASSUME NEW y \in ExecIds PROVE ExecOK(exec'[y])
  <2>1. exec'[y] = IF y = x THEN k ELSE exec[y]
        BY <1>1
  <2> QED
        BY <1>1, <2>1
<1> QED
      BY <1>2, <1>3

LEMMA InFlightFinite ==
    ASSUME NEW p
    PROVE  /\ IsFiniteSet(InFlight(p)) /\ Cardinality(InFlight(p)) \in Nat
           /\ Cardinality(InFlight(p)) <= Cardinality(ExecIds)
<1>1. InFlight(p) \subseteq ExecIds
      BY DEF InFlight
<1> QED
      BY <1>1, NumbersFacts, FS_Subset, FS_CardinalityType

(* An execute that does not come to p leaves no more executes at p; one that   *)
(* leaves p leaves one fewer.                                                   *)
LEMMA InFlightShrinks ==
    ASSUME exec \in [ExecIds -> ExecRec], NEW x \in ExecIds, NEW k \in ExecRec,
           exec' = [exec EXCEPT ![x] = k], NEW p \in Providers
    PROVE  /\ (k.pc \in Trying /\ k.p = p => x \in InFlight(p)) =>
                 Cardinality(InFlight(p)') <= Cardinality(InFlight(p))
           /\ x \in InFlight(p) /\ ~(k.pc \in Trying /\ k.p = p) =>
                 Cardinality(InFlight(p)') + 1 <= Cardinality(InFlight(p))
<1>1. \A y \in ExecIds : exec'[y] = IF y = x THEN k ELSE exec[y]
      OBVIOUS
<1>2. IsFiniteSet(InFlight(p)) /\ Cardinality(InFlight(p)) \in Nat
      BY InFlightFinite
<1>3. InFlight(p)' = {y \in ExecIds : exec'[y].pc \in Trying /\ exec'[y].p = p}
      BY DEF InFlight
<1>4. ASSUME k.pc \in Trying /\ k.p = p => x \in InFlight(p)
      PROVE  Cardinality(InFlight(p)') <= Cardinality(InFlight(p))
  <2>1. InFlight(p)' \subseteq InFlight(p)
        BY <1>1, <1>3, <1>4 DEF InFlight
  <2> QED
        BY <1>2, <2>1, FS_Subset
<1>5. ASSUME x \in InFlight(p), ~(k.pc \in Trying /\ k.p = p)
      PROVE  Cardinality(InFlight(p)') + 1 <= Cardinality(InFlight(p))
  <2>1. InFlight(p)' \subseteq InFlight(p) \ {x}
        BY <1>1, <1>3, <1>5 DEF InFlight
  <2>2. IsFiniteSet(InFlight(p) \ {x}) /\ Cardinality(InFlight(p) \ {x}) = Cardinality(InFlight(p)) - 1
        BY <1>2, <1>5, FS_RemoveElement
  <2>3. Cardinality(InFlight(p)') <= Cardinality(InFlight(p) \ {x})
        BY <2>1, <2>2, FS_Subset
  <2>4. IsFiniteSet(InFlight(p)')
        BY <2>1, <2>2, FS_Subset
  <2>5. Cardinality(InFlight(p)') \in Nat
        BY <2>4, FS_CardinalityType
  <2> QED
        BY <1>2, <2>2, <2>3, <2>5
<1> QED
      BY <1>4, <1>5

(* A breaker keeps its count while no execute comes to its provider, or is      *)
(* closed below the threshold.                                                  *)
LEMMA CountsMove ==
    ASSUME ProvInv, NEW x \in ExecIds, NEW k \in ExecRec, exec' = [exec EXCEPT ![x] = k],
           breakers' \in [Providers -> Breaker],
           \A q \in Providers :
              \/ breakers'[q] = breakers[q] /\ (k.pc \in Trying /\ k.p = q => x \in InFlight(q))
              \/ breakers'[q].until = "none" /\ breakers'[q].failures < Threshold
    PROVE  Counted'
<1> SUFFICES ASSUME NEW q \in Providers
             PROVE  /\ breakers'[q].until = "none" => breakers'[q].failures < Threshold
                    /\ breakers'[q].until # "none" =>
                         breakers'[q].failures + Cardinality(InFlight(q)') <=
                            Threshold + Cardinality(ExecIds)
      BY DEF Counted, InFlight
<1>1. CASE breakers'[q].until = "none" /\ breakers'[q].failures < Threshold
      BY <1>1
<1>2. CASE breakers'[q] = breakers[q] /\ (k.pc \in Trying /\ k.p = q => x \in InFlight(q))
  <2>1. exec \in [ExecIds -> ExecRec] /\ breakers \in [Providers -> Breaker] /\ Counted
        BY DEF ProvInv, ProvTypes
  <2>2. Cardinality(InFlight(q)') <= Cardinality(InFlight(q))
        BY <1>2, <2>1, InFlightShrinks
  <2>3. Cardinality(InFlight(q)) \in Nat
        BY InFlightFinite
  <2>4. IsFiniteSet(InFlight(q)')
    <3>1. InFlight(q)' \subseteq ExecIds
          BY DEF InFlight
    <3> QED
          BY <3>1, NumbersFacts, FS_Subset
  <2>5. Cardinality(InFlight(q)') \in Nat
        BY <2>4, FS_CardinalityType
  <2>6. breakers[q].failures \in Nat
        BY <2>1 DEF Breaker
  <2> QED
        BY <1>2, <2>1, <2>2, <2>3, <2>5, <2>6, NumbersFacts DEF Counted
<1> QED
      BY <1>1, <1>2

(* A step of one execute that keeps its record sound and the breakers counted. *)
LEMMA ExecSteps ==
    ASSUME ProvInv, NEW x \in ExecIds, NEW k \in ExecRec, ExecOK(k), exec' = [exec EXCEPT ![x] = k],
           UNCHANGED <<channels, chain, admin>>, breakers' \in [Providers -> Breaker], Counted'
    PROVE  ProvInv'
<1>1. exec' \in [ExecIds -> ExecRec] /\ \A y \in ExecIds : ExecOK(exec[y])'
      BY ExecMoves
<1>2. ProvTypes'
      BY <1>1 DEF ProvInv, ProvTypes
<1> QED
      BY <1>1, <1>2 DEF ProvInv

(* The same when the breakers are left alone and the execute comes to no entry. *)
LEMMA ExecQuiet ==
    ASSUME ProvInv, NEW x \in ExecIds, NEW k \in ExecRec, ExecOK(k), exec' = [exec EXCEPT ![x] = k],
           UNCHANGED <<channels, chain, admin, breakers>>,
           k.pc \in Trying => exec[x].pc \in Trying /\ exec[x].p = k.p
    PROVE  ProvInv'
<1>1. breakers' \in [Providers -> Breaker]
      BY DEF ProvInv, ProvTypes
<1>2. ASSUME NEW q \in Providers, k.pc \in Trying, k.p = q PROVE x \in InFlight(q)
      BY <1>2 DEF InFlight
<1>3. Counted'
      BY <1>1, <1>2, CountsMove
<1> QED
      BY <1>1, <1>3, ExecSteps

LEMMA ExecuteKeeps ==
    ASSUME ProvInv, NEW x \in ExecIds, Execute(x) PROVE ProvInv'
<1>1. PICK t \in ChannelIds \cup {0} :
        exec' = [exec EXCEPT ![x] = [ExecIdle EXCEPT !.pc = "entry", !.target = t,
                                                     !.copy = chain, !.left = chain]]
      BY DEF Execute
<1>2. chain \in SUBSET Providers
      BY DEF ProvInv, ProvTypes
<1>3. PICK k : k = [ExecIdle EXCEPT !.pc = "entry", !.target = t, !.copy = chain, !.left = chain]
      OBVIOUS
<1>4. k \in ExecRec /\ ExecOK(k)
      BY <1>2, <1>3, StartedOK
<1>5. k.pc = "entry"
      BY <1>3 DEF ExecIdle
<1>6. exec' = [exec EXCEPT ![x] = k]
      BY <1>1, <1>3
<1>7. UNCHANGED <<channels, chain, admin, breakers>>
      BY DEF Execute
<1> QED
      BY <1>4, <1>5, <1>6, <1>7, ExecQuiet DEF Trying

LEMMA NextEntryKeeps ==
    ASSUME ProvInv, NEW x \in ExecIds, NextEntry(x) PROVE ProvInv'
<1>a. exec \in [ExecIds -> ExecRec] /\ breakers \in [Providers -> Breaker] /\ ExecOK(exec[x])
      BY DEF ProvInv, ProvTypes
<1>b. exec[x].pc = "entry"
      BY Zenon DEF NextEntry, At
<1>0. exec \in [ExecIds -> ExecRec] /\ breakers \in [Providers -> Breaker] /\ ExecOK(exec[x])
      /\ exec[x].pc = "entry"
      BY <1>a, <1>b, Zenon
<1>1. UNCHANGED <<channels, chain, admin>>
      BY Zenon DEF NextEntry
<1>2. exec[x] \in ExecRec
      BY <1>0
<1>3. CASE exec' = [exec EXCEPT ![x].pc = "done", ![x].end = "error"] /\ UNCHANGED breakers
  <2>1. PICK k : k = [exec[x] EXCEPT !.pc = "done", !.end = "error"]
        OBVIOUS
  <2>2. k \in ExecRec /\ ExecOK(k)
        BY <1>0, <1>2, <2>1, EndedOK
  <2>3. exec' = [exec EXCEPT ![x] = k]
        BY <1>0, <1>3, <2>1
  <2>4. k.pc = "done"
        BY <1>2, <2>1 DEF ExecRec
  <2> QED
        BY <1>1, <1>3, <2>2, <2>3, <2>4, ExecQuiet DEF Trying
<1>4. CASE \E p \in Providers :
            /\ IsNext(p, exec[x].left, exec[x].target)
            /\ breakers' = [breakers EXCEPT ![p] = Probe(@)]
            /\ exec' = [exec EXCEPT ![x] =
                 IF breakers[p].until = "later"
                 THEN [@ EXCEPT !.left = exec[x].left \ {p}, !.skipped = exec[x].skipped \cup {p}]
                 ELSE [@ EXCEPT !.left = exec[x].left \ {p}, !.p = p, !.pc = "attempt",
                                !.attempt = 0]]
  <2>1. PICK p \in Providers :
            /\ IsNext(p, exec[x].left, exec[x].target)
            /\ breakers' = [breakers EXCEPT ![p] = Probe(@)]
            /\ exec' = [exec EXCEPT ![x] =
                 IF breakers[p].until = "later"
                 THEN [@ EXCEPT !.left = exec[x].left \ {p}, !.skipped = exec[x].skipped \cup {p}]
                 ELSE [@ EXCEPT !.left = exec[x].left \ {p}, !.p = p, !.pc = "attempt",
                                !.attempt = 0]]
        BY <1>4
  <2>2. breakers[p] \in Breaker /\ Probe(breakers[p]) \in Breaker
        BY <1>0 DEF Breaker, Probe, Closed
  <2>3. /\ breakers' \in [Providers -> Breaker] /\ breakers'[p] = Probe(breakers[p])
        /\ \A q \in Providers \ {p} : breakers'[q] = breakers[q]
        BY <1>0, <2>1, <2>2
  <2>4. p \in exec[x].left
        BY <2>1 DEF IsNext
  <2>5. CASE breakers[p].until = "later"
    <3>1. PICK k : k = [exec[x] EXCEPT !.left = @ \ {p}, !.skipped = @ \cup {p}]
          OBVIOUS
    <3>2. k \in ExecRec /\ ExecOK(k)
          BY <1>0, <1>2, <2>4, <3>1, SkippedOK
    <3>3. exec' = [exec EXCEPT ![x] = k]
      <4>1. exec' = [exec EXCEPT ![x] = [exec[x] EXCEPT !.left = @ \ {p}, !.skipped = @ \cup {p}]]
            BY <2>1, <2>5
      <4> QED
            BY <3>1, <4>1, Zenon
    <3>4. k.pc = "entry"
          BY <1>0, <1>2, <3>1 DEF ExecRec
    <3>5. breakers'[p] = breakers[p]
          BY <2>3, <2>5 DEF Probe
    <3>6. \A q \in Providers : breakers'[q] = breakers[q]
          BY <2>3, <3>5
    <3>7. Counted'
          BY <2>3, <3>2, <3>3, <3>4, <3>6, CountsMove DEF Trying
    <3> QED
          BY <1>1, <2>3, <3>2, <3>3, <3>7, ExecSteps
  <2>6. CASE breakers[p].until # "later"
    <3>1. PICK k : k = [exec[x] EXCEPT !.left = @ \ {p}, !.p = p, !.pc = "attempt", !.attempt = 0]
          OBVIOUS
    <3>2. k \in ExecRec /\ ExecOK(k)
          BY <1>0, <1>2, <2>1, <3>1, TriedOK
    <3>3. exec' = [exec EXCEPT ![x] = k]
      <4>1. exec' = [exec EXCEPT ![x] = [exec[x] EXCEPT !.left = @ \ {p}, !.p = p, !.pc = "attempt",
                                                       !.attempt = 0]]
            BY <2>1, <2>6
      <4> QED
            BY <3>1, <4>1, Zenon
    <3>4. k.p = p
          BY <1>2, <3>1 DEF ExecRec
    <3>5. breakers'[p].until = "none" /\ breakers'[p].failures < Threshold
      <4>1. CASE breakers[p].until = "past"
            BY <2>3, <4>1, NumbersFacts DEF Probe, Closed
      <4>2. CASE breakers[p].until = "none"
        <5>1. breakers[p].failures < Threshold
              BY <4>2 DEF ProvInv, Counted
        <5> QED
              BY <2>3, <4>2, <5>1 DEF Probe
      <4> QED
            BY <2>2, <2>6, <4>1, <4>2 DEF Breaker
    <3>6. ASSUME NEW q \in Providers
          PROVE  \/ breakers'[q] = breakers[q] /\ (k.pc \in Trying /\ k.p = q => x \in InFlight(q))
                 \/ breakers'[q].until = "none" /\ breakers'[q].failures < Threshold
      <4>1. CASE q = p
            BY <3>5, <4>1
      <4>2. CASE q # p
            BY <2>3, <3>4, <4>2
      <4> QED
            BY <4>1, <4>2
    <3>7. Counted'
          BY <2>3, <3>2, <3>3, <3>6, CountsMove
    <3> QED
          BY <1>1, <2>3, <3>2, <3>3, <3>7, ExecSteps
  <2> QED
        BY <2>5, <2>6
<1> QED
      BY <1>3, <1>4, Zenon DEF NextEntry

LEMMA StartAttemptKeeps ==
    ASSUME ProvInv, NEW x \in ExecIds, StartAttempt(x) PROVE ProvInv'
<1>0. exec \in [ExecIds -> ExecRec] /\ ExecOK(exec[x]) /\ exec[x].pc = "attempt"
      BY DEF ProvInv, ProvTypes, StartAttempt, At
<1>1. exec[x] \in ExecRec /\ UNCHANGED <<channels, chain, admin, breakers>>
      BY <1>0 DEF StartAttempt
<1>2. CASE token[x]
  <2>1. PICK k : k = [exec[x] EXCEPT !.pc = "done", !.end = "cancelled"]
        OBVIOUS
  <2>2. k \in ExecRec /\ ExecOK(k)
        BY <1>0, <1>1, <2>1, EndedOK
  <2>3. exec' = [exec EXCEPT ![x] = k]
        BY <1>0, <1>2, <2>1 DEF StartAttempt
  <2>4. k.pc = "done"
        BY <1>1, <2>1 DEF ExecRec
  <2> QED
        BY <1>1, <2>2, <2>3, <2>4, ExecQuiet DEF Trying
<1>3. CASE ~token[x]
  <2>1. PICK k : k = [exec[x] EXCEPT !.pc = "chat", !.emitted = FALSE, !.acc = << >>,
                                     !.shown = IF exec[x].emitted THEN << >> ELSE @]
        OBVIOUS
  <2>2. k \in ExecRec /\ ExecOK(k)
        BY <1>0, <1>1, <2>1, CalledOK
  <2>3. exec' = [exec EXCEPT ![x] = k]
    <3>1. exec' = [exec EXCEPT ![x] =
             [exec[x] EXCEPT !.pc = "chat", !.emitted = FALSE, !.acc = << >>,
                             !.shown = IF exec[x].emitted THEN << >> ELSE @]]
          BY <1>3 DEF StartAttempt
    <3> QED
          BY <2>1, <3>1, Zenon
  <2>4. k.p = exec[x].p
        BY <1>1, <2>1 DEF ExecRec
  <2> QED
        BY <1>0, <1>1, <2>2, <2>3, <2>4, ExecQuiet DEF Trying
<1> QED
      BY <1>2, <1>3

LEMMA PieceKeeps ==
    ASSUME ProvInv, NEW x \in ExecIds, Piece(x) PROVE ProvInv'
<1>0. exec \in [ExecIds -> ExecRec] /\ ExecOK(exec[x]) /\ exec[x].pc = "chat"
      BY DEF ProvInv, ProvTypes, Piece, At
<1>1. exec[x] \in ExecRec /\ UNCHANGED <<channels, chain, admin, breakers>>
      BY <1>0 DEF Piece
<1>2. PICK k : k = [exec[x] EXCEPT !.acc = Append(@, "piece"), !.emitted = TRUE,
                                   !.shown = Append(@, "piece")]
      OBVIOUS
<1>3. k \in ExecRec /\ ExecOK(k)
      BY <1>0, <1>1, <1>2, PieceOK
<1>4. exec' = [exec EXCEPT ![x] = k]
      BY <1>0, <1>2 DEF Piece
<1>5. k.p = exec[x].p
      BY <1>1, <1>2 DEF ExecRec
<1> QED
      BY <1>0, <1>1, <1>3, <1>4, <1>5, ExecQuiet DEF Trying

LEMMA ChatOkKeeps ==
    ASSUME ProvInv, NEW x \in ExecIds, ChatOk(x) PROVE ProvInv'
<1>0. exec \in [ExecIds -> ExecRec] /\ breakers \in [Providers -> Breaker] /\ ExecOK(exec[x])
      /\ exec[x].pc = "chat"
      BY DEF ProvInv, ProvTypes, ChatOk, At
<1>1. exec[x] \in ExecRec /\ UNCHANGED <<channels, chain, admin>>
      BY <1>0 DEF ChatOk
<1>2. PICK p \in Providers : p = exec[x].p
      BY <1>1 DEF ExecRec
<1>3. PICK w \in Pieces : w = IF p \in Buffered \cup {Mock} THEN <<"whole">> ELSE << >>
  <2>1. <<"whole">> \in Pieces /\ << >> \in Pieces
        BY DEF Pieces
  <2> QED
        BY <2>1
<1>4. PICK k : k = [exec[x] EXCEPT !.pc = "done", !.end = "answer", !.acc = @ \o w, !.shown = @ \o w,
                                   !.degraded = (exec[x].p = Mock /\ exec[x].err)]
      OBVIOUS
<1>5. k \in ExecRec /\ ExecOK(k)
      BY <1>0, <1>1, <1>4, AnsweredOK
<1>6. exec' = [exec EXCEPT ![x] = k]
      BY <1>0, <1>2, <1>3, <1>4 DEF ChatOk
<1>7. k.pc = "done"
      BY <1>1, <1>4 DEF ExecRec
<1>8. /\ breakers' \in [Providers -> Breaker] /\ breakers'[p] = Closed
      /\ \A q \in Providers \ {p} : breakers'[q] = breakers[q]
  <2>1. breakers' = [breakers EXCEPT ![p] = Closed]
        BY <1>2 DEF ChatOk
  <2>2. Closed \in Breaker
        BY DEF Closed, Breaker
  <2> QED
        BY <1>0, <2>1, <2>2
<1>9. Closed.until = "none" /\ Closed.failures < Threshold
      BY NumbersFacts DEF Closed
<1>10. Counted'
      BY <1>5, <1>6, <1>7, <1>8, <1>9, CountsMove DEF Trying
<1> QED
      BY <1>1, <1>5, <1>6, <1>8, <1>10, ExecSteps

LEMMA ChatErrKeeps ==
    ASSUME ProvInv, NEW x \in ExecIds, ChatErr(x) PROVE ProvInv'
<1>0. exec \in [ExecIds -> ExecRec] /\ breakers \in [Providers -> Breaker] /\ ExecOK(exec[x])
      /\ exec[x].pc = "chat" /\ exec[x].p # Mock
      BY DEF ProvInv, ProvTypes, ChatErr, At
<1>1. exec[x] \in ExecRec /\ UNCHANGED <<channels, chain, admin>>
      BY <1>0 DEF ChatErr
<1>2. PICK p \in Providers : p = exec[x].p
      BY <1>1 DEF ExecRec
<1>3. CASE RetriesLeft(x)
  <2>1. PICK k : k = [exec[x] EXCEPT !.pc = "backoff", !.err = TRUE]
        OBVIOUS
  <2>2. k \in ExecRec /\ ExecOK(k)
        BY <1>0, <1>1, <1>3, <2>1, BacksOffOK DEF RetriesLeft
  <2>3. exec' = [exec EXCEPT ![x] = k] /\ UNCHANGED breakers
        BY <1>0, <1>3, <2>1 DEF ChatErr
  <2>4. k.p = exec[x].p
        BY <1>1, <2>1 DEF ExecRec
  <2> QED
        BY <1>0, <1>1, <2>2, <2>3, <2>4, ExecQuiet DEF Trying
<1>4. CASE ~RetriesLeft(x)
  <2>1. PICK k : k = [exec[x] EXCEPT !.pc = "entry", !.err = TRUE, !.failed = @ \cup {exec[x].p}]
        OBVIOUS
  <2>2. k \in ExecRec /\ ExecOK(k)
        BY <1>0, <1>1, <2>1, GivesUpOK
  <2>3. exec' = [exec EXCEPT ![x] = k]
        BY <1>0, <1>4, <2>1 DEF ChatErr
  <2>4. breakers' = [breakers EXCEPT ![p] = RecordFailure(breakers[p])]
        BY <1>2, <1>4 DEF ChatErr
  <2>5. PICK b \in Breaker : b = breakers[p]
        BY <1>0
  <2>6. /\ RecordFailure(b) \in Breaker /\ RecordFailure(b).failures = b.failures + 1
        /\ RecordFailure(b).until = IF b.failures + 1 >= Threshold THEN "later" ELSE b.until
        BY NumbersFacts DEF RecordFailure, Breaker
  <2>7. /\ breakers' \in [Providers -> Breaker] /\ breakers'[p] = RecordFailure(b)
        /\ \A q \in Providers \ {p} : breakers'[q] = breakers[q]
        BY <1>0, <2>4, <2>5, <2>6
  <2>8. k.pc = "entry"
        BY <1>1, <2>1 DEF ExecRec
  <2>9. x \in InFlight(p)
        BY <1>0, <1>2 DEF InFlight, Trying
  <2>10. Counted'
    <3> SUFFICES ASSUME NEW q \in Providers
                 PROVE  /\ breakers'[q].until = "none" => breakers'[q].failures < Threshold
                        /\ breakers'[q].until # "none" =>
                             breakers'[q].failures + Cardinality(InFlight(q)') <=
                                Threshold + Cardinality(ExecIds)
          BY DEF Counted, InFlight
    <3>1. /\ breakers[q].until = "none" => breakers[q].failures < Threshold
          /\ breakers[q].until # "none" =>
               breakers[q].failures + Cardinality(InFlight(q)) <= Threshold + Cardinality(ExecIds)
          BY DEF ProvInv, Counted
    <3>2. Cardinality(InFlight(q)) \in Nat /\ Cardinality(InFlight(q)) <= Cardinality(ExecIds)
          BY InFlightFinite
    <3>3. Cardinality(InFlight(q)') \in Nat
      <4>1. InFlight(q)' \subseteq ExecIds
            BY DEF InFlight
      <4>2. IsFiniteSet(InFlight(q)')
            BY <4>1, NumbersFacts, FS_Subset
      <4> QED
            BY <4>2, FS_CardinalityType
    <3>4. CASE q = p
      <4>1. Cardinality(InFlight(q)') + 1 <= Cardinality(InFlight(q))
            BY <1>0, <2>2, <2>3, <2>8, <2>9, <3>4, InFlightShrinks DEF Trying
      <4>2. b.failures \in Nat /\ b.until \in {"none", "later", "past"}
            BY DEF Breaker
      <4> QED
            BY <2>5, <2>6, <2>7, <3>1, <3>2, <3>3, <3>4, <4>1, <4>2, NumbersFacts
    <3>5. CASE q # p
      <4>1. Cardinality(InFlight(q)') <= Cardinality(InFlight(q))
            BY <1>0, <2>2, <2>3, <2>8, InFlightShrinks DEF Trying
      <4>2. breakers[q].failures \in Nat /\ breakers'[q] = breakers[q]
            BY <1>0, <2>7, <3>5 DEF Breaker
      <4> QED
            BY <3>1, <3>2, <3>3, <4>1, <4>2, NumbersFacts
    <3> QED
          BY <3>4, <3>5
  <2> QED
        BY <1>1, <2>2, <2>3, <2>7, <2>10, ExecSteps
<1> QED
      BY <1>3, <1>4

LEMMA ChatCancelledKeeps ==
    ASSUME ProvInv, NEW x \in ExecIds, ChatCancelled(x) PROVE ProvInv'
<1>0. exec \in [ExecIds -> ExecRec] /\ ExecOK(exec[x])
      BY DEF ProvInv, ProvTypes
<1>1. exec[x] \in ExecRec /\ UNCHANGED <<channels, chain, admin, breakers>>
      BY <1>0 DEF ChatCancelled
<1>2. PICK k : k = [exec[x] EXCEPT !.pc = "done", !.end = "cancelled"]
      OBVIOUS
<1>3. k \in ExecRec /\ ExecOK(k)
      BY <1>0, <1>1, <1>2, EndedOK
<1>4. exec' = [exec EXCEPT ![x] = k]
      BY <1>0, <1>2 DEF ChatCancelled
<1>5. k.pc = "done"
      BY <1>1, <1>2 DEF ExecRec
<1> QED
      BY <1>1, <1>3, <1>4, <1>5, ExecQuiet DEF Trying

LEMMA WakeKeeps ==
    ASSUME ProvInv, NEW x \in ExecIds, Wake(x) PROVE ProvInv'
<1>0. exec \in [ExecIds -> ExecRec] /\ ExecOK(exec[x]) /\ exec[x].pc = "backoff"
      BY DEF ProvInv, ProvTypes, Wake, At
<1>1. exec[x] \in ExecRec /\ UNCHANGED <<channels, chain, admin, breakers>>
      BY <1>0 DEF Wake
<1>2. PICK k : k = [exec[x] EXCEPT !.pc = "attempt", !.attempt = @ + 1]
      OBVIOUS
<1>3. k \in ExecRec /\ ExecOK(k)
      BY <1>0, <1>1, <1>2, WokenOK
<1>4. exec' = [exec EXCEPT ![x] = k]
      BY <1>0, <1>2 DEF Wake
<1>5. k.p = exec[x].p
      BY <1>1, <1>2 DEF ExecRec
<1> QED
      BY <1>0, <1>1, <1>3, <1>4, <1>5, ExecQuiet DEF Trying

LEMMA ExecsStay ==
    ASSUME ProvInv, UNCHANGED exec
    PROVE  /\ exec' \in [ExecIds -> ExecRec] /\ \A y \in ExecIds : ExecOK(exec[y])'
           /\ breakers' = breakers => Counted'
<1>1. exec' \in [ExecIds -> ExecRec] /\ \A y \in ExecIds : ExecOK(exec'[y])
      BY DEF ProvInv, ProvTypes
<1>2. ASSUME breakers' = breakers PROVE Counted'
      BY <1>2 DEF ProvInv, Counted, InFlight
<1> QED
      BY <1>1, <1>2

LEMMA ElapseKeeps ==
    ASSUME ProvInv, NEW p \in Providers, Elapse(p) PROVE ProvInv'
<1>1. breakers \in [Providers -> Breaker] /\ UNCHANGED <<channels, chain, admin, exec>>
      /\ breakers' = [breakers EXCEPT ![p].until = "past"] /\ breakers[p].until = "later"
      BY DEF ProvInv, ProvTypes, Elapse
<1>2. breakers' \in [Providers -> Breaker]
      BY <1>1 DEF Breaker
<1>3. \A q \in Providers : /\ breakers'[q].failures = breakers[q].failures
                            /\ breakers'[q].until = "none" <=> breakers[q].until = "none"
      BY <1>1 DEF Breaker
<1>4. Counted'
      BY <1>1, <1>3 DEF ProvInv, Counted, InFlight
<1>6. exec' \in [ExecIds -> ExecRec] /\ \A y \in ExecIds : ExecOK(exec[y])'
      BY <1>1, ExecsStay
<1>7. ProvTypes'
      BY <1>1, <1>2, <1>6 DEF ProvInv, ProvTypes
<1> QED
      BY <1>4, <1>6, <1>7 DEF ProvInv

(* A step of a channel handler touches neither the executes nor the breakers. *)
LEMMA AdminSteps ==
    ASSUME ProvInv, UNCHANGED <<exec, breakers>>, channels' \in [ChannelIds -> Channel],
           chain' \in SUBSET Providers, admin' \in [Admins -> AdminRec]
    PROVE  ProvInv'
<1>1. exec' \in [ExecIds -> ExecRec] /\ (\A y \in ExecIds : ExecOK(exec[y])') /\ Counted'
      BY ExecsStay
<1>2. ProvTypes'
      BY <1>1 DEF ProvInv, ProvTypes
<1> QED
      BY <1>1, <1>2 DEF ProvInv

LEMMA AdminIdleType == NoChannel \in Channel /\ AdminIdle \in AdminRec
BY DEF NoChannel, Channel, AdminIdle, AdminRec

LEMMA HandlersKeep ==
    ASSUME ProvInv, NEW a \in Admins,
           Upsert(a) \/ RemoveChannel(a) \/ PutRow(a) \/ ReloadBuild(a) \/ ReloadSwap(a)
    PROVE  ProvInv'
<1>0. channels \in [ChannelIds -> Channel] /\ chain \in SUBSET Providers
      /\ admin \in [Admins -> AdminRec]
      BY DEF ProvInv, ProvTypes
<1>1. admin[a] \in AdminRec /\ admin[a].row \in Channel /\ admin[a].built \in SUBSET Providers
      BY <1>0 DEF AdminRec
<1>2. CASE Upsert(a)
  <2>1. PICK id \in ChannelIds, key \in BOOLEAN, on \in BOOLEAN :
           admin' = [admin EXCEPT ![a] =
             [pc |-> "put", id |-> id, built |-> {},
              row |-> [enabled |-> on, base |-> TRUE,
                       key |-> IF key THEN "good" ELSE channels[id].key]]]
        BY <1>2 DEF Upsert
  <2>2. PICK row \in Channel : row = [enabled |-> on, base |-> TRUE,
                                      key |-> IF key THEN "good" ELSE channels[id].key]
    <3>1. channels[id].key \in {"none", "good", "bad"}
          BY <1>0 DEF Channel
    <3> QED
          BY <3>1 DEF Channel
  <2>3. PICK r \in AdminRec : r = [pc |-> "put", id |-> id, built |-> {}, row |-> row]
        BY DEF AdminRec
  <2>4. admin' = [admin EXCEPT ![a] = r]
        BY <2>1, <2>2, <2>3
  <2>5. admin' \in [Admins -> AdminRec]
        BY <1>0, <2>4
  <2> QED
        BY <1>0, <1>2, <2>5, AdminSteps DEF Upsert
<1>3. CASE RemoveChannel(a)
  <2>1. PICK id \in ChannelIds :
           admin' = [admin EXCEPT ![a] = [AdminIdle EXCEPT !.pc = "put", !.id = id]]
        BY <1>3 DEF RemoveChannel
  <2>2. [AdminIdle EXCEPT !.pc = "put", !.id = id] \in AdminRec
        BY AdminIdleType DEF AdminRec
  <2>3. admin' \in [Admins -> AdminRec]
        BY <1>0, <2>1, <2>2
  <2> QED
        BY <1>0, <1>3, <2>3, AdminSteps DEF RemoveChannel
<1>4. CASE PutRow(a)
  <2>1. channels' \in [ChannelIds -> Channel]
        BY <1>0, <1>1, <1>4 DEF PutRow
  <2>2. admin' \in [Admins -> AdminRec]
    <3>1. [admin EXCEPT ![a].pc = "build"] \in [Admins -> AdminRec]
          BY <1>0 DEF AdminRec
    <3>2. [admin EXCEPT ![a] = AdminIdle] \in [Admins -> AdminRec]
          BY <1>0, AdminIdleType
    <3> QED
          BY <1>4, <3>1, <3>2 DEF PutRow
  <2> QED
        BY <1>0, <1>4, <2>1, <2>2, AdminSteps DEF PutRow
<1>5. CASE ReloadBuild(a)
  <2>1. PICK rows : admin' = [admin EXCEPT ![a].pc = "swap", ![a].built = BuildChain(rows)]
        BY <1>5 DEF ReloadBuild
  <2>2. PICK c \in SUBSET Providers : admin' = [admin EXCEPT ![a].pc = "swap", ![a].built = c]
        BY <2>1, BuildChainType
  <2>3. admin' \in [Admins -> AdminRec]
        BY <1>0, <2>2 DEF AdminRec
  <2> QED
        BY <1>0, <1>5, <2>3, AdminSteps DEF ReloadBuild
<1>6. CASE ReloadSwap(a)
  <2>1. chain' \in SUBSET Providers /\ admin' \in [Admins -> AdminRec]
        BY <1>0, <1>1, <1>6, AdminIdleType DEF ReloadSwap
  <2> QED
        BY <1>0, <1>6, <2>1, AdminSteps DEF ReloadSwap
<1> QED
      BY <1>2, <1>3, <1>4, <1>5, <1>6

(* A freshly started service, whatever its breakers remember. *)
LEMMA FreshService ==
    ASSUME channels \in [ChannelIds -> Channel], chain = BuildChain(channels),
           breakers \in [Providers -> Breaker],
           \A p \in Providers : breakers[p].until = "none" /\ breakers[p].failures < Threshold,
           exec = [x \in ExecIds |-> ExecIdle], admin = [a \in Admins |-> AdminIdle]
    PROVE  ProvInv
<1>1. ProvTypes
      BY BuildChainType, IdleOK, AdminIdleType DEF ProvTypes
<1>2. \A x \in ExecIds : ExecOK(exec[x])
      BY IdleOK
<1>3. Counted
      BY DEF Counted
<1> QED
      BY <1>1, <1>2, <1>3 DEF ProvInv

LEMMA ProvInitHolds == ProvInit => ProvInv
<1> SUFFICES ASSUME ProvInit PROVE ProvInv
      OBVIOUS
<1>1. PICK n \in 0..(Threshold - 1) :
         breakers = [p \in Providers |-> IF p = Mock THEN Closed ELSE [Closed EXCEPT !.failures = n]]
      BY DEF ProvInit
<1>2. n \in Nat /\ n < Threshold /\ 0 < Threshold
      BY NumbersFacts
<1>3. Closed \in Breaker /\ [Closed EXCEPT !.failures = n] \in Breaker
      BY <1>2 DEF Closed, Breaker
<1>4. breakers \in [Providers -> Breaker]
      BY <1>1, <1>3
<1>5. \A p \in Providers : breakers[p].until = "none" /\ breakers[p].failures < Threshold
      BY <1>1, <1>2 DEF Closed
<1>6. channels \in [ChannelIds -> Channel]
      BY DEF ProvInit, Channel
<1> QED
      BY <1>4, <1>5, <1>6, FreshService DEF ProvInit

LEMMA RestartKeeps ==
    ASSUME ProvInv, ProviderRestart PROVE ProvInv'
<1>1. channels' \in [ChannelIds -> Channel]
      BY DEF ProvInv, ProvTypes, ProviderRestart, Channel
<1>2. breakers' \in [Providers -> Breaker]
      /\ \A p \in Providers : breakers'[p].until = "none" /\ breakers'[p].failures < Threshold
      BY NumbersFacts DEF ProviderRestart, Closed, Breaker
<1>3. chain' = BuildChain(channels') /\ exec' = [x \in ExecIds |-> ExecIdle]
      /\ admin' = [a \in Admins |-> AdminIdle]
      BY DEF ProviderRestart
<1>4. ProvTypes'
      BY <1>1, <1>2, <1>3, BuildChainType, IdleOK, AdminIdleType DEF ProvTypes
<1>5. \A x \in ExecIds : ExecOK(exec[x])'
      BY <1>3, IdleOK
<1>6. Counted'
      BY <1>2 DEF Counted
<1> QED
      BY <1>4, <1>5, <1>6 DEF ProvInv

LEMMA ProvInvStep ==
    ASSUME ProvInv, [ProvNext]_provVars PROVE ProvInv'
<1>1. CASE UNCHANGED provVars
  <2>1. UNCHANGED <<channels, chain, breakers, exec, admin>>
        BY <1>1 DEF provVars
  <2>3. channels' \in [ChannelIds -> Channel] /\ chain' \in SUBSET Providers
        /\ admin' \in [Admins -> AdminRec]
        BY <2>1 DEF ProvInv, ProvTypes
  <2> QED
        BY <2>1, <2>3, AdminSteps
<1>2. ASSUME NEW x \in ExecIds, Execute(x) \/ ExecStep(x) \/ Piece(x) PROVE ProvInv'
      BY <1>2, ExecuteKeeps, NextEntryKeeps, StartAttemptKeeps, ChatOkKeeps, ChatErrKeeps,
         ChatCancelledKeeps, WakeKeeps, PieceKeeps DEF ExecStep
<1>3. ASSUME NEW x \in ExecIds, CancelExec(x) PROVE ProvInv'
  <2>1. UNCHANGED <<channels, chain, breakers, exec, admin>>
        BY <1>3 DEF CancelExec
  <2>3. channels' \in [ChannelIds -> Channel] /\ chain' \in SUBSET Providers
        /\ admin' \in [Admins -> AdminRec]
        BY <2>1 DEF ProvInv, ProvTypes
  <2> QED
        BY <2>1, <2>3, AdminSteps
<1> QED
      BY <1>1, <1>2, <1>3, HandlersKeep, ElapseKeeps, RestartKeeps DEF ProvNext

LEMMA ProvInvSound == ProvInv => ChainSound
<1> SUFFICES ASSUME ProvInv PROVE ChainSound
      OBVIOUS
<1>0. channels \in [ChannelIds -> Channel] /\ chain \in SUBSET Providers
      /\ breakers \in [Providers -> Breaker] /\ exec \in [ExecIds -> ExecRec]
      /\ admin \in [Admins -> AdminRec] /\ (\A x \in ExecIds : ExecOK(exec[x]))
      /\ Counted
      BY DEF ProvInv, ProvTypes
<1>1. ASSUME NEW p \in Providers
      PROVE  breakers[p] \in [failures: 0..(Threshold + Cardinality(ExecIds)),
                              until: {"none", "later", "past"}]
  <2>1. PICK b \in Breaker : b = breakers[p]
        BY <1>0
  <2>2. Cardinality(InFlight(p)) \in Nat
        BY InFlightFinite
  <2>3. b.failures \in Nat
        BY DEF Breaker
  <2>4. b.failures <= Threshold + Cardinality(ExecIds)
        BY <1>0, <2>1, <2>2, <2>3, NumbersFacts DEF Counted
  <2>5. b.failures \in 0..(Threshold + Cardinality(ExecIds))
        BY <2>3, <2>4, NumbersFacts
  <2> QED
        BY <2>1, <2>5 DEF Breaker
<1>2. ProvTypeOK
  <2>1. breakers \in [Providers -> [failures: 0..(Threshold + Cardinality(ExecIds)),
                                    until: {"none", "later", "past"}]]
        BY <1>0, <1>1
  <2>2. ASSUME NEW x \in ExecIds
        PROVE  /\ exec[x].pc \in {"idle", "entry", "attempt", "chat", "backoff", "done"}
               /\ exec[x].attempt \in 0..MaxRetries /\ exec[x].left \subseteq exec[x].copy
        BY <1>0 DEF ExecRec, ExecOK
  <2>3. \A a \in Admins : admin[a].pc \in {"idle", "put", "build", "swap"}
        BY <1>0 DEF AdminRec
  <2> QED
        BY <1>0, <2>1, <2>2, <2>3 DEF ProvTypeOK
<1>3. ShownIsAnswer /\ MockIsLastResort
  <2>1. \A x \in ExecIds : EndOK(exec[x])
        BY <1>0 DEF ExecOK
  <2> QED
        BY <2>1 DEF EndOK, Behind, ShownIsAnswer, MockIsLastResort
<1>4. BreakerConsistent
      BY <1>0 DEF Counted, BreakerConsistent
<1> QED
      BY <1>2, <1>3, <1>4 DEF ChainSound

LEMMA ProvAlways == ProvSpec => []ProvInv
<1>1. ProvInv /\ [ProvNext]_provVars => ProvInv'
      BY ProvInvStep
<1> QED
      BY <1>1, ProvInitHolds, PTL DEF ProvSpec

(* However many channel requests overlap, an answer is what its consumer saw,  *)
(* the mock answers last, and no breaker lets a provider at the threshold       *)
(* through or counts past the threshold by more than the executes (execute,     *)
(* breaker_open, record_failure).                                               *)
THEOREM ChainCorrect == ProvSpec => []ChainSound
BY ProvAlways, ProvInvSound, PTL

(* execute never starts an attempt for a token that is cancelled: the check at  *)
(* the head of the loop over the attempts is the only way into a chat.          *)
THEOREM NoAttemptOnceCancelled == ProvSpec => NoAttemptAfterCancel
<1>1. ASSUME ProvInv, [ProvNext]_provVars, NEW x \in ExecIds, token[x], exec[x].pc = "attempt"
      PROVE  exec'[x].pc # "chat"
  <2>0. exec \in [ExecIds -> ExecRec] /\ exec[x] \in ExecRec
        BY <1>1 DEF ProvInv, ProvTypes
  <2>1. CASE UNCHANGED exec
        BY <1>1, <2>1
  <2>2. CASE exec' = [y \in ExecIds |-> ExecIdle]
        BY <2>2 DEF ExecIdle
  <2>4. ASSUME NEW y \in ExecIds, y # x, Execute(y) \/ ExecStep(y) \/ Piece(y)
        PROVE  exec'[x].pc # "chat"
    <3>1. ASSUME Execute(y) \/ Piece(y) \/ ChatCancelled(y) \/ Wake(y) PROVE exec'[x] = exec[x]
          BY <2>0, <2>4, <3>1 DEF Execute, Piece, ChatCancelled, Wake
    <3>2. ASSUME NextEntry(y) \/ StartAttempt(y) PROVE exec'[x] = exec[x]
          BY <2>0, <2>4, <3>2 DEF NextEntry, StartAttempt
    <3>3. ASSUME ChatOk(y) \/ ChatErr(y) PROVE exec'[x] = exec[x]
          BY <2>0, <2>4, <3>3 DEF ChatOk, ChatErr
    <3>4. exec'[x] = exec[x]
          BY <2>4, <3>1, <3>2, <3>3 DEF ExecStep
    <3> QED
          BY <1>1, <3>4, Zenon
  <2>5. CASE StartAttempt(x)
    <3>1. exec' = [exec EXCEPT ![x] = [exec[x] EXCEPT !.pc = "done", !.end = "cancelled"]]
          BY <1>1, <2>5 DEF StartAttempt
    <3> QED
          BY <2>0, <3>1 DEF ExecRec
  <2>6. ~(Execute(x) \/ NextEntry(x) \/ ChatOk(x) \/ ChatErr(x) \/ ChatCancelled(x) \/ Wake(x)
          \/ Piece(x))
        BY <1>1 DEF Execute, NextEntry, ChatOk, ChatErr, ChatCancelled, Wake, Piece, At
  <2>7. ASSUME NEW y \in ExecIds, Execute(y) \/ ExecStep(y) \/ Piece(y)
        PROVE  exec'[x].pc # "chat"
        BY <2>4, <2>5, <2>6, <2>7 DEF ExecStep
  <2>8. CASE UNCHANGED provVars
        BY <2>1, <2>8 DEF provVars
  <2>9. ASSUME NEW y \in ExecIds, CancelExec(y) PROVE UNCHANGED exec
        BY <2>9 DEF CancelExec
  <2>10. ASSUME NEW p \in Providers, Elapse(p) PROVE UNCHANGED exec
        BY <2>10 DEF Elapse
  <2>11. ASSUME NEW a \in Admins,
               Upsert(a) \/ RemoveChannel(a) \/ PutRow(a) \/ ReloadBuild(a) \/ ReloadSwap(a)
        PROVE  UNCHANGED exec
        BY <2>11 DEF Upsert, RemoveChannel, PutRow, ReloadBuild, ReloadSwap
  <2>12. ProviderRestart => exec' = [y \in ExecIds |-> ExecIdle]
        BY DEF ProviderRestart
  <2> QED
        BY <1>1, <2>1, <2>2, <2>7, <2>8, <2>9, <2>10, <2>11, <2>12 DEF ProvNext
<1>2. ProvInv /\ [ProvNext]_provVars =>
        [\A x \in ExecIds : token[x] /\ exec[x].pc = "attempt" => exec'[x].pc # "chat"]_provVars
      BY <1>1
<1> QED
      BY <1>2, ProvAlways, PTL DEF ProvSpec, NoAttemptAfterCancel

-----------------------------------------------------------------------------
(* The document room. The invariant says of every edit a peer has where it is  *)
(* on its way to every other: replica, queue, request.                          *)

\* A frame on its way: who sent it, the vector of a step 1, the edits of the others.
FrameType == [from : Peers, kind : {"step1", "step2", "update"}, sv : [Peers -> Nat],
              ops : SUBSET Edits]

\* A frame speaks the truth about its sender, whose replica is in k.
FrameOK(f, k) ==
    /\ f.ops \subseteq k[f.from]
    /\ \A e \in Edits : e[2] <= f.sv[e[1]] => e \in k[f.from]

FramesOK ==
    /\ \A p \in Peers : /\ \A i \in DOMAIN room[p] : FrameOK(room[p][i], known)
                        /\ \A i \in DOMAIN out[p] : out[p][i].from = p /\ FrameOK(out[p][i], known)

\* Edit e is in a frame of queue s; p has e or e waits in its queue of the room; frame
\* f asks for e on behalf of p; p is about to ask for it.
Carried(s, e) == \E i \in DOMAIN s : e \in s[i].ops
Heard(p, e) == e \in known[p] \/ \E i \in DOMAIN room[p] : room[p][i].from # p /\ e \in room[p][i].ops
Asks(f, p, e) == f.from = p /\ f.kind = "step1" /\ e[2] > f.sv[e[1]]
Requested(p, e) == conn[p] = "observing" \/ \E i \in DOMAIN out[p] : Asks(out[p][i], p, e)

\* The request of p stands in a's queue behind position j.
Later(a, p, e, j) == \E i \in DOMAIN room[a] : i > j /\ Asks(room[a][i], p, e)

\* Edit e, which a has, has reached p, is on its way, or will be asked for.
Covered(a, p, e, j) == Heard(p, e) \/ Carried(out[a], e) \/ Requested(p, e) \/ Later(a, p, e, j)

\* What a owes a peer that joined after it: everything it has or will have once it
\* comes to the request; to one that was there before, its own edits.
ToLater(a, p) ==
    /\ \A e \in known[a] : Covered(a, p, e, 0)
    /\ \A j \in DOMAIN room[a] : room[a][j].from # a => \A e \in room[a][j].ops : Covered(a, p, e, j)
ToEarlier(a, p) == \A e \in outgoing : e[1] = a => Heard(p, e) \/ Carried(out[a], e)

NothingLost ==
    lagged = {} => \A a, p \in joined : a # p =>
                      IF a \in before[p] THEN ToLater(a, p) ELSE ToEarlier(a, p)

\* A peer outside the room holds its request and its edits back in its own queue.
Waiting(q) ==
    /\ conn[q] = "on" => \E i \in DOMAIN out[q] : out[q][i].kind = "step1"
    /\ conn[q] \in {"observing", "on"} => \A e \in outgoing : e[1] = q => Carried(out[q], e)
    /\ conn[q] = "off" => \A e \in outgoing : e[1] # q

Membership ==
    /\ \A q \in joined : conn[q] \in {"observing", "on"}
    /\ \A p \in Peers : \A a \in before[p] : a \in joined \/ conn[a] = "lost"
    /\ \A q \in Peers \ joined : Waiting(q)

SyncTypes ==
    /\ SyncTypeOK
    /\ room \in [Peers -> Seq(FrameType)] /\ out \in [Peers -> Seq(FrameType)]

SyncInv == SyncTypes /\ FramesOK /\ NothingLost /\ Membership

-----------------------------------------------------------------------------
\* A replica holds everything below its state vector.
LEMMA VectorKnown ==
    ASSUME SyncTypeOK, NEW p \in Peers
    PROVE  /\ StateVector(p) \in [Peers -> Nat]
           /\ \A e \in Edits : e[2] <= StateVector(p)[e[1]] => e \in known[p]
<1> DEFINE S(a) == {n \in 1 .. MaxPeerEdits : \A k \in 1 .. n : <<a, k>> \in known[p]}
<1>1. \A a \in Peers : IsFiniteSet(S(a)) /\ Cardinality(S(a)) \in Nat
  <2>1. IsFiniteSet(1 .. MaxPeerEdits)
    BY DocSyncAssumption, FS_Interval
  <2> QED BY <2>1, FS_Subset, FS_CardinalityType
<1>2. StateVector(p) = [a \in Peers |-> Cardinality(S(a))]
  BY DEF StateVector
<1>3. ASSUME NEW e \in Edits, e[2] <= StateVector(p)[e[1]] PROVE e \in known[p]
  <2>1. PICK a \in Peers, m \in 1 .. MaxPeerEdits : e = <<a, m>>
    BY DEF Edits
  <2>2. m \in Nat /\ m > 0 /\ m <= Cardinality(S(a))
    BY <1>2, <1>3, <2>1, DocSyncAssumption
  <2>3. CASE m \in S(a)
    BY <2>1, <2>2, <2>3
  <2>4. CASE m \notin S(a)
    <3>1. S(a) \subseteq 1 .. (m - 1)
      <4> SUFFICES ASSUME NEW n \in S(a), n >= m PROVE FALSE
        BY <2>2, DocSyncAssumption
      <4>1. n \in Nat /\ \A k \in 1 .. m : k \in 1 .. n
        BY <2>2, DocSyncAssumption
      <4> QED BY <4>1, <2>4
    <3>2. IsFiniteSet(1 .. (m - 1)) /\ Cardinality(1 .. (m - 1)) = m - 1
      BY <2>2, FS_Interval
    <3>3. Cardinality(S(a)) <= m - 1
      BY <3>1, <3>2, FS_Subset
    <3>4. PICK c \in Nat : c = Cardinality(S(a))
      BY <1>1
    <3>5. m <= c /\ c <= m - 1
      BY <2>2, <3>3, <3>4
    <3> HIDE DEF S
    <3> QED BY <2>2, <3>5
  <2> QED BY <2>3, <2>4
<1> QED BY <1>1, <1>2, <1>3

\* The types, written out.
Typed ==
      /\ known \in [Peers -> SUBSET Edits] /\ outgoing \subseteq Edits
      /\ conn \in [Peers -> {"off", "observing", "on", "lost"}]
      /\ joined \subseteq Peers /\ before \in [Peers -> SUBSET Peers]
      /\ \A p \in Peers : Len(room[p]) <= RoomCapacity
      /\ room \in [Peers -> Seq(FrameType)] /\ out \in [Peers -> Seq(FrameType)]

LEMMA SyncTypesDef == SyncTypes <=> Typed
BY DEF SyncTypes, SyncTypeOK, Typed

\* Replicas only grow, so what a frame says of its sender stays true.
LEMMA FrameStays ==
    ASSUME SyncTypes, NEW f \in FrameType, FrameOK(f, known), \A p \in Peers : known[p] \subseteq known'[p]
    PROVE  FrameOK(f, known')
BY DEF FrameOK, FrameType

LEMMA AppendIs ==
    ASSUME NEW S, NEW s \in Seq(S), NEW x \in S
    PROVE  /\ Append(s, x) \in Seq(S) /\ Len(Append(s, x)) = Len(s) + 1
           /\ DOMAIN s = 1 .. Len(s) /\ Len(s) \in Nat
           /\ DOMAIN Append(s, x) = 1 .. Len(s) + 1
           /\ Len(s) + 1 \in DOMAIN Append(s, x)
           /\ Append(s, x)[Len(s) + 1] = x
           /\ \A i \in DOMAIN s : i \in DOMAIN Append(s, x) /\ Append(s, x)[i] = s[i]
           /\ \A i \in DOMAIN Append(s, x) : i = Len(s) + 1 \/ i \in DOMAIN s
<1>1. Append(s, x) \in Seq(S) /\ Len(Append(s, x)) = Len(s) + 1 /\ Len(s) \in Nat
      /\ DOMAIN s = 1 .. Len(s)
  BY AppendProperties, LenProperties
<1>2. DOMAIN Append(s, x) = 1 .. Len(s) + 1
  BY <1>1, LenProperties
<1>3. \A i \in 1 .. Len(s) : Append(s, x)[i] = s[i]
  BY <1>1, AppendProperties
<1>4. Append(s, x)[Len(s) + 1] = x
  BY <1>1, AppendProperties
<1> QED BY <1>1, <1>2, <1>3, <1>4

LEMMA TailIs ==
    ASSUME NEW S, NEW s \in Seq(S), s # <<>>
    PROVE  /\ Tail(s) \in Seq(S) /\ Len(Tail(s)) = Len(s) - 1 /\ Head(s) \in S
           /\ 1 \in DOMAIN s /\ s[1] = Head(s)
           /\ \A i \in DOMAIN Tail(s) : i \in Nat /\ i + 1 \in DOMAIN s /\ Tail(s)[i] = s[i + 1]
           /\ \A i \in DOMAIN s : i \in Nat /\ i >= 1 /\
                (i # 1 => i - 1 \in DOMAIN Tail(s) /\ Tail(s)[i - 1] = s[i])
<1>1. Len(s) \in Nat /\ DOMAIN s = 1 .. Len(s) /\ Len(s) > 0
  BY LenProperties, EmptySeq
<1>2. /\ Tail(s) \in Seq(S) /\ Len(Tail(s)) = Len(s) - 1 /\ Head(s) \in S
      /\ \A i \in 1 .. Len(Tail(s)) : Tail(s)[i] = s[i + 1]
  BY HeadTailProperties
<1>3. DOMAIN Tail(s) = 1 .. Len(s) - 1
  BY <1>2, LenProperties
<1>4. s[1] = Head(s)
  BY <1>1 DEF Head
<1> QED BY <1>1, <1>2, <1>3, <1>4

LEMMA TailKeeps ==
    ASSUME NEW S, NEW s \in Seq(S), s # <<>>
    PROVE  /\ Tail(s) \in Seq(S) /\ Len(Tail(s)) = Len(s) - 1
           /\ \A i \in DOMAIN Tail(s) : \E k \in DOMAIN s : Tail(s)[i] = s[k]
           /\ \A i \in DOMAIN s : s[i] = Head(s) \/ \E k \in DOMAIN Tail(s) : Tail(s)[k] = s[i]
<1>1. \A i \in DOMAIN Tail(s) : i + 1 \in DOMAIN s /\ Tail(s)[i] = s[i + 1]
  BY TailIs
<1>2. \A i \in DOMAIN s : i # 1 => i - 1 \in DOMAIN Tail(s) /\ Tail(s)[i - 1] = s[i]
  BY TailIs
<1> QED BY <1>1, <1>2, TailIs

\* What a owes p.
Link(a, p) == IF a \in before[p] THEN ToLater(a, p) ELSE ToEarlier(a, p)

\* What a owes p stays on its way when the room's queues stand still.
LEMMA LinkStays ==
    ASSUME SyncTypes, NEW a \in Peers, NEW p \in Peers, Link(a, p),
           UNCHANGED <<room, before[p]>>, known[p] \subseteq known'[p],
           known'[a] \subseteq Edits, outgoing' \subseteq Edits,
           \A e \in Edits : Carried(out[a], e) => Carried(out'[a], e),
           \A e \in Edits : Requested(p, e) => Requested(p, e)' \/ e \in known'[p],
           \A e \in known'[a] : e \in known[a] \/ Carried(out'[a], e),
           \A e \in outgoing' : e[1] = a => e \in outgoing \/ Carried(out'[a], e)
    PROVE  Link(a, p)'
<1>1. \A e \in Edits : Heard(p, e) => Heard(p, e)'
  BY DEF Heard
<1>2. \A e \in Edits, j \in Nat : Covered(a, p, e, j) => Covered(a, p, e, j)'
  <2> SUFFICES ASSUME NEW e \in Edits, NEW j \in Nat, Covered(a, p, e, j)
               PROVE  Covered(a, p, e, j)'
    OBVIOUS
  <2>1. CASE Heard(p, e)
    BY <1>1, <2>1 DEF Covered
  <2>2. CASE Carried(out[a], e)
    BY <2>2 DEF Covered
  <2>3. CASE Requested(p, e)
    BY <2>3 DEF Covered, Heard
  <2>4. CASE Later(a, p, e, j)
    BY <2>4 DEF Covered, Later
  <2> QED BY <2>1, <2>2, <2>3, <2>4 DEF Covered
<1>3. CASE a \in before[p]
  <2>1. ToLater(a, p)
    BY <1>3 DEF Link
  <2>2. \A e \in known'[a] : Covered(a, p, e, 0)'
    BY <1>2, <2>1 DEF ToLater, Covered
  <2>3. ASSUME NEW j \in DOMAIN room[a], room[a][j].from # a, NEW e \in room[a][j].ops
        PROVE  Covered(a, p, e, j)'
    <3>1. j \in Nat /\ room[a][j] \in FrameType
      BY SyncTypesDef, LenProperties DEF Typed
    <3>2. e \in Edits
      BY <3>1 DEF FrameType
    <3> QED BY <1>2, <2>1, <2>3, <3>1, <3>2 DEF ToLater
  <2> QED BY <1>3, <2>2, <2>3 DEF Link, ToLater
<1>4. CASE a \notin before[p]
  <2>1. ToEarlier(a, p)
    BY <1>4 DEF Link
  <2>2. ToEarlier(a, p)'
    BY <1>1, <2>1 DEF ToEarlier
  <2> QED BY <1>4, <2>2 DEF Link
<1> QED BY <1>3, <1>4

LEMMA NothingLostDef ==
    NothingLost <=> (lagged = {} => \A a, p \in joined : a # p => Link(a, p))
BY DEF NothingLost, Link

LEMMA CarriedAppend ==
    ASSUME NEW s \in Seq(FrameType), NEW f \in FrameType, NEW e
    PROVE  Carried(Append(s, f), e) <=> (Carried(s, e) \/ e \in f.ops)
BY AppendIs DEF Carried

LEMMA AppendKeeps ==
    ASSUME NEW s \in Seq(FrameType), NEW f \in FrameType
    PROVE  /\ \A i \in DOMAIN s : \E j \in DOMAIN Append(s, f) : Append(s, f)[j] = s[i]
           /\ \E j \in DOMAIN Append(s, f) : Append(s, f)[j] = f
BY AppendIs

LEMMA StepOneTyped ==
    ASSUME SyncTypes, NEW p \in Peers
    PROVE  StepOne(p) \in FrameType /\ FrameOK(StepOne(p), known)
           /\ StepOne(p).from = p /\ StepOne(p).kind = "step1" /\ StepOne(p).ops = {}
           /\ StepOne(p).sv = StateVector(p)
BY VectorKnown DEF SyncTypes, StepOne, FrameType, FrameOK

LEMMA SyncOpsTyped ==
    ASSUME SyncTypes, NEW p \in Peers, NEW kind \in {"step2", "update"}, NEW ops \in SUBSET Edits
    PROVE  SyncOps(p, kind, ops) \in FrameType /\ SyncOps(p, kind, ops).from = p
           /\ SyncOps(p, kind, ops).ops = ops /\ SyncOps(p, kind, ops).kind = kind
           /\ (ops \subseteq known'[p] => FrameOK(SyncOps(p, kind, ops), known'))
<1>1. SyncOps(p, kind, ops) \in FrameType /\ SyncOps(p, kind, ops).from = p
           /\ SyncOps(p, kind, ops).ops = ops /\ SyncOps(p, kind, ops).kind = kind
           /\ SyncOps(p, kind, ops).sv = [a \in Peers |-> 0]
  BY DEF SyncOps, FrameType
<1>2. \A e \in Edits : e[1] \in Peers /\ e[2] \in Nat /\ e[2] > 0
  BY DocSyncAssumption DEF Edits
<1>3. \A e \in Edits : ~(e[2] <= [a \in Peers |-> 0][e[1]])
  BY <1>2
<1>4. SyncOps(p, kind, ops)' = SyncOps(p, kind, ops)
  BY DEF SyncOps
<1> QED BY <1>1, <1>3 DEF FrameOK

\* Frames go on saying what is true when replicas grow.
LEMMA FramesStay ==
    ASSUME SyncTypes, FramesOK, \A p \in Peers : known[p] \subseteq known'[p],
           NEW q \in Peers, NEW f \in FrameType, f.from = q, FrameOK(f, known'),
           out' = [out EXCEPT ![q] = Append(@, f)], UNCHANGED room
    PROVE  FramesOK'
<1>1. \A p \in Peers : /\ \A i \in DOMAIN room[p] : room[p][i] \in FrameType
                       /\ \A i \in DOMAIN out[p] : out[p][i] \in FrameType
                       /\ out[p] \in Seq(FrameType)
  BY SyncTypesDef DEF Typed
<1>2. \A p \in Peers : \A i \in DOMAIN room'[p] : FrameOK(room'[p][i], known')
  BY <1>1, FrameStays DEF FramesOK
<1>3. \A p \in Peers : p # q => out'[p] = out[p]
  BY SyncTypesDef DEF Typed
<1>4. out'[q] = Append(out[q], f)
  BY SyncTypesDef DEF Typed
<1>5. ASSUME NEW p \in Peers, NEW i \in DOMAIN out'[p]
      PROVE  out'[p][i].from = p /\ FrameOK(out'[p][i], known')
  <2>1. CASE p # q
    BY <1>1, <1>3, <1>5, <2>1, FrameStays DEF FramesOK
  <2>2. CASE p = q
    <3>1. i = Len(out[q]) + 1 \/ i \in DOMAIN out[q]
      BY <1>1, <1>4, <1>5, <2>2, AppendIs
    <3>2. CASE i \in DOMAIN out[q]
      <4>1. out'[p][i] = out[q][i]
        BY <1>1, <1>4, <2>2, <3>2, AppendIs
      <4> QED BY <4>1, <1>1, <2>2, <3>2, FrameStays DEF FramesOK
    <3>3. CASE i = Len(out[q]) + 1
      <4>1. out'[p][i] = f
        BY <1>1, <1>4, <2>2, <3>3, AppendIs
      <4> QED BY <4>1, <2>2
    <3> QED BY <3>1, <3>2, <3>3
  <2> QED BY <2>1, <2>2
<1> QED BY <1>2, <1>5 DEF FramesOK

LEMMA OwnFinite ==
    ASSUME SyncTypes, NEW p \in Peers
    PROVE  Cardinality(Own(p)) + 1 \in Nat \ {0}
<1>1. IsFiniteSet({p} \X (1 .. MaxPeerEdits))
  <2>1. IsFiniteSet(1 .. MaxPeerEdits)
    BY DocSyncAssumption, FS_Interval
  <2>2. IsFiniteSet({p})
    BY FS_Singleton
  <2> QED BY <2>1, <2>2, FS_Product
<1>2. Own(p) \subseteq {p} \X (1 .. MaxPeerEdits)
  BY SyncTypesDef DEF Own, Edits, Typed
<1>3. Cardinality(Own(p)) \in Nat
  BY <1>1, <1>2, FS_Subset, FS_CardinalityType
<1> QED BY <1>3

LEMMA LocalEditInv == ASSUME SyncInv, NEW q \in Peers, LocalEdit(q) PROVE SyncInv'
<1>0. SyncTypes /\ Typed /\ FramesOK /\ NothingLost /\ Membership
  BY SyncTypesDef DEF SyncInv
<1> USE <1>0
<1>1. PICK op \in Edits : /\ op = <<q, Cardinality(Own(q)) + 1>>
                          /\ known' = [known EXCEPT ![q] = @ \cup {op}]
  <2>1. PICK n \in Nat \ {0} : n = Cardinality(Own(q)) + 1
    BY OwnFinite
  <2>2. <<q, n>>[2] <= MaxPeerEdits /\ known' = [known EXCEPT ![q] = @ \cup {<<q, n>>}]
    BY <2>1 DEF LocalEdit
  <2>3. <<q, n>> \in Edits
    BY <2>2, DocSyncAssumption DEF Edits
  <2> QED BY <2>1, <2>2, <2>3
<1>2. op[1] = q /\ UNCHANGED <<conn, joined, before, room, lagged>>
  BY <1>1 DEF LocalEdit
<1>3. \A p \in Peers : known[p] \subseteq known'[p] /\ known'[p] \subseteq Edits
  BY <1>1 DEF Typed
<1>4. known'[q] = known[q] \cup {op} /\ \A p \in Peers : p # q => known'[p] = known[p]
  BY <1>1 DEF Typed
<1>5. CASE conn[q] \in {"observing", "on"}
  <2>1. PICK f \in FrameType : /\ f = SyncOps(q, "update", {op}) /\ f.from = q /\ f.ops = {op}
                               /\ f.kind = "update" /\ FrameOK(f, known')
    <3>1. {op} \in SUBSET Edits /\ {op} \subseteq known'[q] /\ "update" \in {"step2", "update"}
      BY <1>4
    <3>2. SyncOps(q, "update", {op}) \in FrameType /\ SyncOps(q, "update", {op}).from = q
          /\ SyncOps(q, "update", {op}).ops = {op} /\ SyncOps(q, "update", {op}).kind = "update"
          /\ FrameOK(SyncOps(q, "update", {op}), known')
      BY <3>1, SyncOpsTyped
    <3> QED BY <3>2
  <2>2. out' = [out EXCEPT ![q] = Append(@, f)] /\ outgoing' = outgoing \cup {op}
    BY <1>1, <1>5, <2>1 DEF LocalEdit
  <2>3. out[q] \in Seq(FrameType) /\ Append(out[q], f) \in Seq(FrameType)
    BY <2>1, AppendIs DEF Typed
  <2>4. out'[q] = Append(out[q], f) /\ \A p \in Peers : p # q => out'[p] = out[p]
    BY <2>2 DEF Typed
  <2>5. out' \in [Peers -> Seq(FrameType)]
    BY <2>2, <2>3 DEF Typed
  <2>6. SyncTypes'
    BY <1>1, <1>2, <2>2, <2>5 DEF SyncTypes, SyncTypeOK
  <2>7. FramesOK'
    BY <1>2, <1>3, <2>1, <2>2, FramesStay
  <2>a. \A i \in DOMAIN out[q] : \E j \in DOMAIN out'[q] : out'[q][j] = out[q][i]
    <3>1. f \in FrameType
      OBVIOUS
    <3>2. \A i \in DOMAIN out[q] : \E j \in DOMAIN Append(out[q], f) : Append(out[q], f)[j] = out[q][i]
      BY <2>3, <3>1, AppendKeeps, Zenon
    <3> QED BY <2>4, <3>2, Zenon
  <2>8. \A p \in Peers, e \in Edits : Carried(out[p], e) => Carried(out'[p], e)
    <3> SUFFICES ASSUME NEW p \in Peers, NEW e \in Edits, Carried(out[p], e)
                 PROVE  Carried(out'[p], e)
      OBVIOUS
    <3>1. CASE p = q
      BY <2>1, <2>3, <2>4, <3>1, CarriedAppend
    <3> QED BY <2>4, <3>1
  <2>9. Carried(out'[q], op)
    BY <2>1, <2>3, <2>4, CarriedAppend
  <2>10. \A p \in Peers, e \in Edits : Requested(p, e) => Requested(p, e)'
    <3> SUFFICES ASSUME NEW p \in Peers, NEW e \in Edits, Requested(p, e), conn[p] # "observing"
                 PROVE  Requested(p, e)'
      BY <1>2 DEF Requested
    <3>1. PICK i \in DOMAIN out[p] : Asks(out[p][i], p, e)
      BY DEF Requested
    <3>2. \E j \in DOMAIN out'[p] : out'[p][j] = out[p][i]
      <4>1. CASE p = q
        BY <2>a, <4>1
      <4> QED BY <2>4, <4>1
    <3> QED BY <3>1, <3>2 DEF Requested
  <2>11. NothingLost'
    <3> SUFFICES ASSUME lagged = {}, NEW a \in joined, NEW p \in joined, a # p PROVE Link(a, p)'
      BY <1>2 DEF NothingLost, Link
    <3>1. Link(a, p) /\ a \in Peers /\ p \in Peers
      BY NothingLostDef DEF Typed
    <3>2. \A e \in known'[a] : e \in known[a] \/ Carried(out'[a], e)
      BY <1>4, <2>9, <3>1
    <3>3. \A e \in outgoing' : e[1] = a => e \in outgoing \/ Carried(out'[a], e)
      BY <1>2, <2>2, <2>9
    <3>4. UNCHANGED <<room, before[p]>> /\ known[p] \subseteq known'[p] /\ known'[a] \subseteq Edits
          /\ outgoing' \subseteq Edits
      BY <1>2, <1>3, <2>2, <3>1 DEF Typed
    <3>5. /\ \A e \in Edits : Carried(out[a], e) => Carried(out'[a], e)
          /\ \A e \in Edits : Requested(p, e) => Requested(p, e)' \/ e \in known'[p]
      BY <2>8, <2>10, <3>1
    <3> QED BY <3>1, <3>2, <3>3, <3>4, <3>5, LinkStays
  <2>12. Membership'
    <3>1. ASSUME NEW r \in Peers \ joined PROVE Waiting(r)'
      <4>1. Waiting(r)
        BY DEF Membership
      <4>2. conn[r] = "on" => \E i \in DOMAIN out'[r] : out'[r][i].kind = "step1"
        <5>1. \A i \in DOMAIN out[r] : \E j \in DOMAIN out'[r] : out'[r][j] = out[r][i]
          <6>1. CASE r = q
            BY <2>a, <6>1
          <6> QED BY <2>4, <6>1
        <5> QED BY <4>1, <5>1 DEF Waiting
      <4>3. conn[r] \in {"observing", "on"} => \A e \in outgoing' : e[1] = r => Carried(out'[r], e)
        BY <4>1, <1>2, <2>2, <2>8, <2>9 DEF Waiting, Typed
      <4>4. conn[r] = "off" => \A e \in outgoing' : e[1] # r
        BY <4>1, <1>2, <1>5, <2>2 DEF Waiting
      <4> QED BY <1>2, <4>2, <4>3, <4>4 DEF Waiting
    <3> QED BY <1>2, <3>1 DEF Membership
  <2> QED BY <2>6, <2>7, <2>11, <2>12 DEF SyncInv
<1>6. CASE conn[q] \notin {"observing", "on"}
  <2>1. UNCHANGED <<out, outgoing>> /\ q \notin joined
    BY <1>6 DEF LocalEdit, Membership
  <2>2. SyncTypes'
    BY <1>1, <1>2, <2>1 DEF SyncTypes, SyncTypeOK
  <2>3. \A p \in Peers : /\ \A i \in DOMAIN room[p] : room[p][i] \in FrameType
                         /\ \A i \in DOMAIN out[p] : out[p][i] \in FrameType
    BY DEF Typed
  <2>4. FramesOK'
    BY <1>2, <1>3, <2>1, <2>3, FrameStays DEF FramesOK
  <2>5. NothingLost'
    <3> SUFFICES ASSUME lagged = {}, NEW a \in joined, NEW p \in joined, a # p PROVE Link(a, p)'
      BY <1>2 DEF NothingLost, Link
    <3>1. Link(a, p) /\ a \in Peers /\ p \in Peers /\ a # q
      BY <2>1, NothingLostDef DEF Typed
    <3>2. \A e \in Edits : Requested(p, e) => Requested(p, e)'
      BY <1>2, <2>1 DEF Requested
    <3> QED BY <1>2, <1>3, <1>4, <2>1, <3>1, <3>2, LinkStays DEF Typed
  <2>6. Membership'
    BY <1>2, <2>1 DEF Membership, Waiting
  <2> QED BY <2>2, <2>4, <2>5, <2>6 DEF SyncInv
<1> QED BY <1>5, <1>6

LEMMA ObserveInv == ASSUME SyncInv, NEW q \in Peers, Observe(q) PROVE SyncInv'
<1>0. SyncTypes /\ Typed /\ FramesOK /\ NothingLost /\ Membership
  BY SyncTypesDef DEF SyncInv
<1> USE <1>0
<1>1. conn[q] = "off" /\ conn' = [conn EXCEPT ![q] = "observing"]
      /\ UNCHANGED <<known, joined, before, out, room, lagged, outgoing>>
  BY DEF Observe
<1>2. q \notin joined
  BY <1>1 DEF Membership
<1>3. conn'[q] = "observing" /\ \A p \in Peers : p # q => conn'[p] = conn[p]
  BY <1>1 DEF Typed
<1>4. SyncTypes'
  BY <1>1 DEF SyncTypes, SyncTypeOK
<1>5. FramesOK'
  BY <1>1 DEF FramesOK
<1>6. NothingLost'
  <2> SUFFICES ASSUME lagged = {}, NEW a \in joined, NEW p \in joined, a # p PROVE Link(a, p)'
    BY <1>1 DEF NothingLost, Link
  <2>1. Link(a, p) /\ a \in Peers /\ p \in Peers /\ p # q
    BY <1>2, NothingLostDef DEF Typed
  <2>2. \A e \in Edits : Requested(p, e) => Requested(p, e)'
    BY <1>1, <1>3, <2>1 DEF Requested
  <2> QED BY <1>1, <2>1, <2>2, LinkStays DEF Typed
<1>7. Membership'
  <2>1. Waiting(q)'
    BY <1>1, <1>2, <1>3 DEF Membership, Waiting
  <2>2. \A r \in Peers \ joined : r # q => Waiting(r)'
    BY <1>1, <1>3 DEF Membership, Waiting
  <2>3. \A p \in Peers : \A a \in before[p] : a \in joined \/ conn'[a] = "lost"
    BY <1>1, <1>3 DEF Membership
  <2> QED BY <1>1, <1>2, <1>3, <2>1, <2>2, <2>3 DEF Membership
<1> QED BY <1>4, <1>5, <1>6, <1>7 DEF SyncInv

LEMMA HandshakeInv == ASSUME SyncInv, NEW q \in Peers, Handshake(q) PROVE SyncInv'
<1>0. SyncTypes /\ Typed /\ FramesOK /\ NothingLost /\ Membership
  BY SyncTypesDef DEF SyncInv
<1> USE <1>0
<1>1. PICK f \in FrameType : /\ f = StepOne(q) /\ f.from = q /\ f.ops = {} /\ f.kind = "step1"
                             /\ FrameOK(f, known)
  BY StepOneTyped
<1>2. conn[q] = "observing" /\ conn' = [conn EXCEPT ![q] = "on"]
      /\ out' = [out EXCEPT ![q] = Append(@, f)]
      /\ UNCHANGED <<known, joined, before, room, lagged, outgoing>>
  BY <1>1 DEF Handshake
<1>3. conn'[q] = "on" /\ \A p \in Peers : p # q => conn'[p] = conn[p]
  BY <1>2 DEF Typed
<1>4. out[q] \in Seq(FrameType) /\ Append(out[q], f) \in Seq(FrameType)
  BY <1>1, AppendIs DEF Typed
<1>5. out'[q] = Append(out[q], f) /\ \A p \in Peers : p # q => out'[p] = out[p]
  BY <1>2 DEF Typed
<1>6. SyncTypes'
  <2>1. out' \in [Peers -> Seq(FrameType)]
    BY <1>2, <1>4 DEF Typed
  <2> QED BY <1>2, <2>1 DEF SyncTypes, SyncTypeOK
<1>7. FramesOK'
  BY <1>1, <1>2, FramesStay
<1>8. \A p \in Peers, e \in Edits : Carried(out[p], e) => Carried(out'[p], e)
  BY <1>1, <1>4, <1>5, CarriedAppend
<1>9. \E i \in DOMAIN out'[q] : out'[q][i] = f
  BY <1>4, <1>5, AppendKeeps
<1>10. NothingLost'
  <2> SUFFICES ASSUME lagged = {}, NEW a \in joined, NEW p \in joined, a # p PROVE Link(a, p)'
    BY <1>2 DEF NothingLost, Link
  <2>1. Link(a, p) /\ a \in Peers /\ p \in Peers
    BY NothingLostDef DEF Typed
  <2>2. ASSUME NEW e \in Edits, Requested(p, e) PROVE Requested(p, e)' \/ e \in known'[p]
    <3>1. CASE p # q
      BY <1>3, <1>5, <2>2, <3>1 DEF Requested, Typed
    <3>2. CASE p = q
      <4>1. e[1] \in Peers /\ e[2] \in Nat /\ f.sv[e[1]] \in Nat
        BY <1>1, DocSyncAssumption DEF Edits, FrameType
      <4>2. CASE e[2] <= f.sv[e[1]]
        BY <1>1, <1>2, <3>2, <4>2 DEF FrameOK
      <4>3. CASE e[2] > f.sv[e[1]]
        BY <1>1, <1>9, <3>2, <4>3 DEF Requested, Asks
      <4> QED BY <4>1, <4>2, <4>3
    <3> QED BY <3>1, <3>2
  <2> QED BY <1>2, <1>8, <2>1, <2>2, LinkStays DEF Typed
<1>11. Membership'
  <2>1. ASSUME NEW r \in Peers \ joined PROVE Waiting(r)'
    BY <1>1, <1>2, <1>3, <1>5, <1>8, <1>9 DEF Membership, Waiting, Typed
  <2>2. \A p \in Peers : \A a \in before[p] : a \in joined \/ conn'[a] = "lost"
    BY <1>2, <1>3 DEF Membership
  <2>3. \A r \in joined : conn'[r] \in {"observing", "on"}
    BY <1>3 DEF Membership, Typed
  <2> QED BY <1>2, <2>1, <2>2, <2>3 DEF Membership
<1> QED BY <1>6, <1>7, <1>10, <1>11 DEF SyncInv

LEMMA DisconnectInv == ASSUME SyncInv, NEW q \in Peers, Disconnect(q) PROVE SyncInv'
<1>0. SyncTypes /\ Typed /\ FramesOK /\ NothingLost /\ Membership
  BY SyncTypesDef DEF SyncInv
<1> USE <1>0
<1>1. conn' = [conn EXCEPT ![q] = "lost"] /\ joined' = joined \ {q}
      /\ out' = [out EXCEPT ![q] = <<>>] /\ room' = [room EXCEPT ![q] = <<>>]
      /\ UNCHANGED <<known, before, lagged, outgoing>>
  BY DEF Disconnect
<1>2. /\ \A p \in Peers : p # q => conn'[p] = conn[p] /\ out'[p] = out[p] /\ room'[p] = room[p]
      /\ conn'[q] = "lost" /\ out'[q] = <<>> /\ room'[q] = <<>>
  BY <1>1 DEF Typed
<1>3. SyncTypes'
  <2>1. out' \in [Peers -> Seq(FrameType)] /\ room' \in [Peers -> Seq(FrameType)]
    BY <1>1 DEF Typed
  <2>2. Len(<<>>) <= RoomCapacity
    BY DocSyncAssumption
  <2> QED BY <1>1, <1>2, <2>1, <2>2 DEF SyncTypes, SyncTypeOK
<1>4. FramesOK'
  BY <1>1, <1>2 DEF FramesOK
<1>5. NothingLost'
  <2> SUFFICES ASSUME lagged = {}, NEW a \in joined \ {q}, NEW p \in joined \ {q}, a # p
               PROVE  Link(a, p)'
    BY <1>1 DEF NothingLost, Link
  <2>1. Link(a, p) /\ a \in Peers /\ p \in Peers
    BY NothingLostDef DEF Typed
  <2>2. room'[a] = room[a] /\ room'[p] = room[p] /\ out'[a] = out[a] /\ out'[p] = out[p]
        /\ conn'[p] = conn[p] /\ before'[p] = before[p] /\ known' = known /\ outgoing' = outgoing
    BY <1>1, <1>2, <2>1
  <2> QED BY <2>1, <2>2 DEF Link, ToLater, ToEarlier, Covered, Heard, Requested, Later
<1>6. Membership'
  <2>1. ASSUME NEW r \in Peers \ joined' PROVE Waiting(r)'
    BY <1>1, <1>2 DEF Membership, Waiting
  <2>2. \A p \in Peers : \A a \in before'[p] : a \in joined' \/ conn'[a] = "lost"
    BY <1>1, <1>2 DEF Membership
  <2>3. \A r \in joined' : conn'[r] \in {"observing", "on"}
    BY <1>1, <1>2 DEF Membership
  <2> QED BY <2>1, <2>2, <2>3 DEF Membership
<1> QED BY <1>3, <1>4, <1>5, <1>6 DEF SyncInv

LEMMA JoinRoomInv == ASSUME SyncInv, NEW q \in Peers, JoinRoom(q) PROVE SyncInv'
<1>0. SyncTypes /\ Typed /\ FramesOK /\ NothingLost /\ Membership
  BY SyncTypesDef DEF SyncInv
<1> USE <1>0
<1>1. conn[q] \in {"observing", "on"} /\ q \notin joined
      /\ joined' = joined \cup {q} /\ before' = [before EXCEPT ![q] = joined]
      /\ UNCHANGED <<known, conn, out, room, lagged, outgoing>>
  BY DEF JoinRoom
<1>2. before'[q] = joined /\ \A p \in Peers : p # q => before'[p] = before[p]
  BY <1>1 DEF Typed
<1>3. SyncTypes'
  BY <1>1 DEF SyncTypes, SyncTypeOK, Typed
<1>4. FramesOK'
  BY <1>1 DEF FramesOK
<1>5. Waiting(q)
  BY <1>1 DEF Membership
<1>6. NothingLost'
  <2> SUFFICES ASSUME lagged = {}, NEW a \in joined', NEW p \in joined', a # p PROVE Link(a, p)'
    BY <1>1 DEF NothingLost, Link
  <2>1. a \in Peers /\ p \in Peers /\ (a = q \/ a \in joined) /\ (p = q \/ p \in joined)
    BY <1>1 DEF Typed
  <2>2. CASE p = q
    <3>1. a \in before'[p]
      BY <1>2, <2>1, <2>2
    <3>2. ASSUME NEW e \in Edits, NEW j PROVE Covered(a, p, e, j)'
      <4>1. CASE conn[q] = "observing"
        BY <1>1, <2>2, <4>1 DEF Covered, Requested
      <4>2. CASE conn[q] = "on"
        <5>1. PICK i \in DOMAIN out[q] : out[q][i].kind = "step1"
          BY <1>5, <4>2 DEF Waiting
        <5>2. out[q][i].from = q /\ FrameOK(out[q][i], known) /\ out[q][i] \in FrameType
          BY <5>1 DEF FramesOK, Typed
        <5>3. e[1] \in Peers /\ e[2] \in Nat /\ out[q][i].sv[e[1]] \in Nat
          BY <5>2, DocSyncAssumption DEF Edits, FrameType
        <5>4. CASE e[2] <= out[q][i].sv[e[1]]
          BY <1>1, <2>2, <5>2, <5>4 DEF FrameOK, Covered, Heard
        <5>5. CASE e[2] > out[q][i].sv[e[1]]
          BY <1>1, <2>2, <5>1, <5>2, <5>5 DEF Covered, Requested, Asks
        <5> QED BY <5>3, <5>4, <5>5
      <4> QED BY <1>1, <4>1, <4>2
    <3>3. known'[a] \subseteq Edits /\ \A j \in DOMAIN room'[a] : room'[a][j].ops \subseteq Edits
      <4>1. \A j \in DOMAIN room[a] : room[a][j] \in FrameType
        BY <2>1 DEF Typed
      <4>2. known[a] \subseteq Edits
        BY <2>1 DEF Typed
      <4> QED BY <1>1, <4>1, <4>2 DEF FrameType
    <3> QED BY <3>1, <3>2, <3>3 DEF Link, ToLater
  <2>3. CASE p # q /\ a = q
    <3>1. a \notin before[p]
      BY <1>1, <2>1, <2>3 DEF Membership
    <3> QED BY <1>1, <1>2, <1>5, <2>1, <2>3, <3>1 DEF Link, ToEarlier, Waiting
  <2>4. CASE p # q /\ a # q
    <3>1. Link(a, p) /\ before'[p] = before[p]
      BY <1>2, <2>1, <2>4, NothingLostDef
    <3>2. \A e \in Edits : Requested(p, e) => Requested(p, e)'
      BY <1>1 DEF Requested
    <3>3. known'[a] \subseteq Edits /\ outgoing' \subseteq Edits
      BY <1>1, <2>1 DEF Typed
    <3> QED BY <1>1, <2>1, <3>1, <3>2, <3>3, LinkStays
  <2> QED BY <2>2, <2>3, <2>4
<1>7. Membership'
  <2>1. ASSUME NEW r \in Peers \ joined' PROVE Waiting(r)'
    BY <1>1 DEF Membership, Waiting
  <2>2. \A p \in Peers : \A a \in before'[p] : a \in joined' \/ conn'[a] = "lost"
    BY <1>1, <1>2 DEF Membership
  <2>3. \A r \in joined' : conn'[r] \in {"observing", "on"}
    BY <1>1 DEF Membership
  <2> QED BY <2>1, <2>2, <2>3 DEF Membership
<1> QED BY <1>3, <1>4, <1>6, <1>7 DEF SyncInv

LEMMA PutIs ==
    ASSUME SyncTypes, NEW r \in Peers, NEW f \in FrameType
    PROVE  /\ Put(r, f) \in Seq(FrameType) /\ Len(Put(r, f)) <= RoomCapacity
           /\ \A i \in DOMAIN Put(r, f) :
                Put(r, f)[i] = f \/ \E k \in DOMAIN room[r] : Put(r, f)[i] = room[r][k]
           /\ Len(room[r]) # RoomCapacity => Put(r, f) = Append(room[r], f)
<1>1. PICK s \in Seq(FrameType) : s = room[r]
  BY SyncTypesDef DEF Typed
<1>2. Len(s) \in Nat /\ Len(s) <= RoomCapacity /\ RoomCapacity \in Nat /\ RoomCapacity > 0
  BY <1>1, SyncTypesDef, DocSyncAssumption DEF Typed
<1>3. CASE Len(s) < RoomCapacity
  <2>1. Put(r, f) = Append(s, f)
    BY <1>1, <1>3 DEF Put
  <2>2. Append(s, f) \in Seq(FrameType) /\ Len(Append(s, f)) <= RoomCapacity
    BY <1>2, <1>3, AppendProperties
  <2>3. \A i \in DOMAIN Append(s, f) :
                Append(s, f)[i] = f \/ \E k \in DOMAIN s : Append(s, f)[i] = s[k]
    BY AppendIs
  <2> QED BY <1>1, <2>1, <2>2, <2>3
<1>4. CASE Len(s) = RoomCapacity
  <2>1. Put(r, f) = Append(Tail(s), f) /\ s # <<>>
    BY <1>1, <1>2, <1>4 DEF Put
  <2>2. PICK t \in Seq(FrameType) : t = Tail(s) /\ Len(t) = Len(s) - 1
                                    /\ \A i \in DOMAIN t : \E k \in DOMAIN s : t[i] = s[k]
    <3>1. /\ Tail(s) \in Seq(FrameType) /\ Len(Tail(s)) = Len(s) - 1
          /\ \A i \in DOMAIN Tail(s) : \E k \in DOMAIN s : Tail(s)[i] = s[k]
      BY <2>1, TailKeeps
    <3> QED BY <3>1, Zenon
  <2>3. Append(t, f) \in Seq(FrameType) /\ Len(Append(t, f)) <= RoomCapacity
    BY <1>2, <1>4, <2>2, AppendProperties
  <2>4. \A i \in DOMAIN Append(t, f) :
                Append(t, f)[i] = f \/ \E k \in DOMAIN t : Append(t, f)[i] = t[k]
    BY AppendIs
  <2>5. \A i \in DOMAIN Append(t, f) :
                Append(t, f)[i] = f \/ \E k \in DOMAIN s : Append(t, f)[i] = s[k]
    BY <2>2, <2>4
  <2> QED BY <1>1, <1>4, <2>1, <2>2, <2>3, <2>5
<1> QED BY <1>2, <1>3, <1>4

\* A relayed frame is at the end of every queue of the room, its sender's question
\* behind all that the asked peer has still to take.
LEMMA RelayInv == ASSUME SyncInv, NEW q \in Peers, Relay(q) PROVE SyncInv'
<1>0. SyncTypes /\ Typed /\ FramesOK /\ NothingLost /\ Membership
  BY SyncTypesDef DEF SyncInv
<1> USE <1>0
<1>1. q \in joined /\ out[q] # <<>> /\ out[q] \in Seq(FrameType)
  BY DEF Relay, Typed
<1>2. PICK f \in FrameType : f = Head(out[q])
  BY <1>1, TailIs
<1>3. /\ out' = [out EXCEPT ![q] = Tail(@)]
      /\ room' = [r \in Peers |-> IF r \in joined THEN Put(r, f) ELSE room[r]]
      /\ lagged' = lagged \cup {r \in joined : Len(room[r]) = RoomCapacity}
      /\ UNCHANGED <<known, conn, joined, before, outgoing>>
  BY <1>2 DEF Relay
<1>4. out'[q] = Tail(out[q]) /\ \A r \in Peers : r # q => out'[r] = out[r]
  BY <1>3 DEF Typed
<1>5. 1 \in DOMAIN out[q] /\ out[q][1] = f /\ f.from = q /\ FrameOK(f, known)
  <2>1. 1 \in DOMAIN out[q] /\ out[q][1] = f
    BY <1>1, <1>2, TailIs
  <2> QED BY <2>1 DEF FramesOK
<1>6. Tail(out[q]) \in Seq(FrameType) /\ \A i \in DOMAIN Tail(out[q]) :
        \E k \in DOMAIN out[q] : Tail(out[q])[i] = out[q][k]
  BY <1>1, TailIs
<1>7. \A i \in DOMAIN out[q] : out[q][i] = f \/ \E k \in DOMAIN out'[q] : out'[q][k] = out[q][i]
  <2>1. \A i \in DOMAIN out[q] : out[q][i] = Head(out[q])
                \/ \E k \in DOMAIN Tail(out[q]) : Tail(out[q])[k] = out[q][i]
    BY <1>1, TailKeeps
  <2> QED BY <1>2, <1>4, <2>1
<1>8. SyncTypes'
  <2>1. out' \in [Peers -> Seq(FrameType)]
    BY <1>3, <1>6 DEF Typed
  <2>2. \A r \in Peers : room'[r] \in Seq(FrameType) /\ Len(room'[r]) <= RoomCapacity
    BY <1>3, PutIs DEF Typed
  <2>3. room' \in [Peers -> Seq(FrameType)]
    BY <1>3, <2>2
  <2> QED BY <1>3, <2>1, <2>2, <2>3 DEF SyncTypes, SyncTypeOK, Typed
<1>9. FramesOK'
  <2>1. ASSUME NEW r \in Peers, NEW i \in DOMAIN room'[r] PROVE FrameOK(room'[r][i], known)
    <3>1. CASE r \in joined
      <4>1. room'[r] = Put(r, f)
        BY <1>3, <3>1
      <4>2. room'[r][i] = f \/ \E k \in DOMAIN room[r] : room'[r][i] = room[r][k]
        <5>1. \A x \in DOMAIN Put(r, f) :
                Put(r, f)[x] = f \/ \E k \in DOMAIN room[r] : Put(r, f)[x] = room[r][k]
          BY PutIs
        <5> QED BY <2>1, <4>1, <5>1
      <4> QED BY <4>2, <1>5 DEF FramesOK
    <3>2. CASE r \notin joined
      BY <1>3, <2>1, <3>2 DEF FramesOK
    <3> QED BY <3>1, <3>2
  <2>2. ASSUME NEW r \in Peers, NEW i \in DOMAIN out'[r]
        PROVE  out'[r][i].from = r /\ FrameOK(out'[r][i], known)
    <3>1. \E k \in DOMAIN out[r] : out'[r][i] = out[r][k]
      <4>1. CASE r = q
        BY <1>4, <1>6, <2>2, <4>1
      <4>2. CASE r # q
        BY <1>4, <1>6, <2>2, <4>2
      <4> QED BY <4>1, <4>2
    <3> QED BY <3>1 DEF FramesOK
  <2> QED BY <1>3, <2>1, <2>2 DEF FramesOK
<1>10. NothingLost'
  <2> SUFFICES ASSUME lagged' = {}, NEW a \in joined, NEW p \in joined, a # p PROVE Link(a, p)'
    BY <1>3 DEF NothingLost, Link
  <2>1. Link(a, p) /\ a \in Peers /\ p \in Peers /\ lagged = {}
    BY <1>3, NothingLostDef DEF Typed
  <2>2. \A r \in joined : r \in Peers /\ room'[r] = Append(room[r], f) /\ room[r] \in Seq(FrameType)
    <3>1. \A r \in joined : Len(room[r]) # RoomCapacity /\ r \in Peers
      BY <1>3 DEF Typed
    <3> QED BY <1>3, <3>1, PutIs DEF Typed
  <2>3. /\ \A r \in joined : \A i \in DOMAIN room[r] : i \in DOMAIN room'[r] /\ room'[r][i] = room[r][i]
        /\ \A r \in joined : Len(room[r]) + 1 \in DOMAIN room'[r] /\ room'[r][Len(room[r]) + 1] = f
        /\ \A r \in joined : \A i \in DOMAIN room'[r] : i = Len(room[r]) + 1 \/ i \in DOMAIN room[r]
        /\ \A r \in joined : Len(room[r]) \in Nat /\ DOMAIN room[r] = 1 .. Len(room[r])
    <3>1. ASSUME NEW r \in joined
          PROVE  /\ \A i \in DOMAIN room[r] : i \in DOMAIN room'[r] /\ room'[r][i] = room[r][i]
                 /\ Len(room[r]) + 1 \in DOMAIN room'[r] /\ room'[r][Len(room[r]) + 1] = f
                 /\ \A i \in DOMAIN room'[r] : i = Len(room[r]) + 1 \/ i \in DOMAIN room[r]
                 /\ Len(room[r]) \in Nat /\ DOMAIN room[r] = 1 .. Len(room[r])
      <4>1. PICK s \in Seq(FrameType) : s = room[r]
        BY <2>2
      <4>2. room'[r] = Append(s, f)
        BY <2>2, <4>1
      <4>3. /\ DOMAIN s = 1 .. Len(s) /\ Len(s) \in Nat
            /\ Len(s) + 1 \in DOMAIN Append(s, f) /\ Append(s, f)[Len(s) + 1] = f
            /\ \A i \in DOMAIN s : i \in DOMAIN Append(s, f) /\ Append(s, f)[i] = s[i]
            /\ \A i \in DOMAIN Append(s, f) : i = Len(s) + 1 \/ i \in DOMAIN s
        BY AppendIs
      <4> QED BY <4>1, <4>2, <4>3, Zenon
    <3> QED BY <3>1, Zenon
  <2>4. \A e \in Edits : Heard(p, e) => Heard(p, e)'
    BY <1>3, <2>3 DEF Heard
  <2>5. \A e \in f.ops : f.from # p => Heard(p, e)'
    BY <2>3 DEF Heard
  <2>6. \A e \in f.ops : f.from = p => Heard(p, e)'
    BY <1>3, <1>5 DEF Heard, FrameOK
  <2>7. ASSUME NEW e \in Edits, Carried(out[a], e) PROVE Carried(out'[a], e) \/ Heard(p, e)'
    <3>1. CASE a # q
      BY <1>4, <2>1, <2>7, <3>1
    <3>2. CASE a = q
      BY <1>7, <2>5, <2>6, <2>7, <3>2 DEF Carried
    <3> QED BY <3>1, <3>2
  <2>8. ASSUME NEW e \in Edits, Requested(p, e)
        PROVE  Requested(p, e)' \/ Asks(f, p, e)
    <3>1. CASE p # q
      BY <1>3, <1>4, <2>1, <2>8, <3>1 DEF Requested
    <3>2. CASE p = q
      BY <1>3, <1>7, <2>8, <3>2 DEF Requested
    <3> QED BY <3>1, <3>2
  <2>9. ASSUME NEW e \in Edits, NEW j \in 0 .. Len(room[a]), Covered(a, p, e, j)
        PROVE  Covered(a, p, e, j)'
    <3>1. CASE Heard(p, e)
      BY <2>4, <3>1 DEF Covered
    <3>2. CASE Carried(out[a], e)
      BY <2>7, <3>2 DEF Covered
    <3>3. CASE Requested(p, e)
      <4>1. Asks(f, p, e) => Later(a, p, e, j)'
        <5>1. Len(room[a]) + 1 > j
          BY <2>3
        <5> QED BY <2>3, <5>1 DEF Later
      <4> QED BY <2>8, <3>3, <4>1 DEF Covered
    <3>4. CASE Later(a, p, e, j)
      <4>1. Later(a, p, e, j)'
        BY <2>3, <3>4 DEF Later
      <4> QED BY <4>1 DEF Covered
    <3> QED BY <2>9, <3>1, <3>2, <3>3, <3>4 DEF Covered
  <2>10. CASE a \in before[p]
    <3>1. ToLater(a, p)
      BY <2>1, <2>10 DEF Link
    <3>2. \A e \in known'[a] : Covered(a, p, e, 0)'
      <4>1. known[a] \subseteq Edits /\ 0 \in 0 .. Len(room[a])
        BY <2>1, <2>3 DEF Typed
      <4> QED BY <1>3, <2>9, <3>1, <4>1 DEF ToLater
    <3>3. ASSUME NEW j \in DOMAIN room'[a], room'[a][j].from # a, NEW e \in room'[a][j].ops
          PROVE  Covered(a, p, e, j)'
      <4>1. CASE j = Len(room[a]) + 1
        BY <2>3, <2>5, <2>6, <3>3, <4>1 DEF Covered
      <4>2. CASE j \in DOMAIN room[a]
        <5>1. room'[a][j] = room[a][j] /\ j \in 0 .. Len(room[a])
          BY <2>3, <4>2
        <5>2. room[a][j] \in FrameType
          BY <2>1, <4>2 DEF Typed
        <5>3. e \in Edits
          BY <3>3, <5>1, <5>2 DEF FrameType
        <5>4. Covered(a, p, e, j)
          BY <3>1, <3>3, <4>2, <5>1 DEF ToLater
        <5> QED BY <2>9, <5>1, <5>3, <5>4
      <4> QED BY <2>3, <4>1, <4>2
    <3>4. a \in before'[p]
      BY <1>3, <2>10
    <3> QED BY <3>2, <3>3, <3>4 DEF Link, ToLater
  <2>11. CASE a \notin before[p]
    <3>1. ToEarlier(a, p)
      BY <2>1, <2>11 DEF Link
    <3>2. outgoing \subseteq Edits
      BY DEF Typed
    <3>3. ToEarlier(a, p)'
      BY <1>3, <2>4, <2>7, <3>1, <3>2 DEF ToEarlier
    <3> QED BY <1>3, <2>11, <3>3 DEF Link
  <2> QED BY <2>10, <2>11
<1>11. Membership'
  BY <1>1, <1>3, <1>4 DEF Membership, Waiting
<1> QED BY <1>8, <1>9, <1>10, <1>11 DEF SyncInv

\* What a step that takes the head of q's queue leaves of p's links to others.
LEMMA DeliverInv == ASSUME SyncInv, NEW q \in Peers, Deliver(q) PROVE SyncInv'
<1>0. SyncTypes /\ Typed /\ FramesOK /\ NothingLost /\ Membership
  BY SyncTypesDef DEF SyncInv
<1> USE <1>0
<1>1. room[q] # <<>> /\ room[q] \in Seq(FrameType) /\ out[q] \in Seq(FrameType)
  BY DEF Deliver, Typed
<1>2. PICK f \in FrameType : f = Head(room[q])
  BY <1>1, TailIs
<1>3. 1 \in DOMAIN room[q] /\ room[q][1] = f /\ FrameOK(f, known) /\ f.from \in Peers
      /\ f.ops \subseteq Edits
  <2>1. 1 \in DOMAIN room[q] /\ room[q][1] = f
    BY <1>1, <1>2, TailIs
  <2> QED BY <2>1 DEF FramesOK, FrameType
<1>4. /\ room' = [room EXCEPT ![q] = Tail(@)]
      /\ UNCHANGED <<conn, joined, before, lagged, outgoing>>
  BY DEF Deliver
<1>5. room'[q] = Tail(room[q]) /\ \A r \in Peers : r # q => room'[r] = room[r]
  BY <1>4 DEF Typed
<1>6. /\ \A i \in DOMAIN room'[q] : i \in Nat /\ i + 1 \in DOMAIN room[q] /\ room'[q][i] = room[q][i + 1]
      /\ \A i \in DOMAIN room[q] : i \in Nat /\ i >= 1 /\
                (i # 1 => i - 1 \in DOMAIN room'[q] /\ room'[q][i - 1] = room[q][i])
      /\ room'[q] \in Seq(FrameType) /\ Len(room'[q]) = Len(room[q]) - 1 /\ Len(room[q]) \in Nat
  BY <1>1, <1>5, TailIs
<1>7. /\ known' \in [Peers -> SUBSET Edits]
      /\ \A r \in Peers : known[r] \subseteq known'[r] /\ (r # q => known'[r] = known[r])
      /\ f.from = q => known' = known
      /\ f.from # q => known'[q] = known[q] \cup f.ops
  <2>1. CASE f.from = q
    <3>1. known' = known
      BY <1>2, <2>1 DEF Deliver
    <3> QED BY <2>1, <3>1 DEF Typed
  <2>2. CASE f.from # q
    <3>1. known' = [known EXCEPT ![q] = @ \cup f.ops]
      BY <1>2, <2>2 DEF Deliver
    <3> QED BY <1>3, <2>2, <3>1 DEF Typed
  <2> QED BY <2>1, <2>2
<1>8. /\ out' \in [Peers -> Seq(FrameType)]
      /\ \A r \in Peers : r # q => out'[r] = out[r]
      /\ \A i \in DOMAIN out[q] : \E k \in DOMAIN out'[q] : out'[q][k] = out[q][i]
      /\ \A i \in DOMAIN out'[q] : (\E k \in DOMAIN out[q] : out'[q][i] = out[q][k])
              \/ (out'[q][i].from = q /\ FrameOK(out'[q][i], known'))
      /\ (f.from # q /\ f.kind = "step1") =>
            \A e \in Missing(q, f.sv) : Carried(out'[q], e)
  <2>1. CASE f.from = q \/ f.kind # "step1"
    <3>1. out' = out
      <4>1. CASE f.from = q
        BY <1>2, <4>1 DEF Deliver
      <4>2. CASE f.from # q /\ f.kind # "step1"
        <5>1. out' = [out EXCEPT ![q] = @ \o <<>>]
          BY <1>2, <4>2 DEF Deliver, Reply
        <5>2. out[q] \o <<>> = out[q]
          BY <1>1, ConcatEmptySeq
        <5> QED BY <5>1, <5>2 DEF Typed
      <4> QED BY <2>1, <4>1, <4>2
    <3> QED BY <2>1, <3>1 DEF Typed
  <2>2. CASE f.from # q /\ f.kind = "step1"
    <3>1. Missing(q, f.sv) \in SUBSET Edits /\ Missing(q, f.sv) \subseteq known'[q]
      BY <1>7 DEF Missing, Typed
    <3>2. PICK g \in FrameType : /\ g = SyncOps(q, "step2", Missing(q, f.sv)) /\ g.from = q
                                 /\ g.ops = Missing(q, f.sv) /\ FrameOK(g, known')
      <4>1. "step2" \in {"step2", "update"}
        OBVIOUS
      <4>2. /\ SyncOps(q, "step2", Missing(q, f.sv)) \in FrameType
            /\ SyncOps(q, "step2", Missing(q, f.sv)).from = q
            /\ SyncOps(q, "step2", Missing(q, f.sv)).ops = Missing(q, f.sv)
            /\ FrameOK(SyncOps(q, "step2", Missing(q, f.sv)), known')
        BY <3>1, <4>1, SyncOpsTyped
      <4> QED BY <4>2
    <3>3. out' = [out EXCEPT ![q] = @ \o <<g>>]
      BY <1>2, <2>2, <3>2 DEF Deliver, Reply
    <3>4. out[q] \o <<g>> = Append(out[q], g)
      BY <1>1, AppendIsConcat
    <3>5. out'[q] = Append(out[q], g) /\ \A r \in Peers : r # q => out'[r] = out[r]
      BY <3>3, <3>4 DEF Typed
    <3>6. Append(out[q], g) \in Seq(FrameType)
      BY <1>1, AppendProperties
    <3>7. out' \in [Peers -> Seq(FrameType)]
      BY <3>3, <3>4, <3>6 DEF Typed
    <3>8. \A i \in DOMAIN Append(out[q], g) : Append(out[q], g)[i] = g
            \/ \E k \in DOMAIN out[q] : Append(out[q], g)[i] = out[q][k]
      BY <1>1, AppendIs
    <3>9. \A i \in DOMAIN out[q] : \E k \in DOMAIN Append(out[q], g) : Append(out[q], g)[k] = out[q][i]
      BY <1>1, AppendKeeps
    <3>10. \E k \in DOMAIN Append(out[q], g) : Append(out[q], g)[k] = g
      BY <1>1, AppendKeeps
    <3>11. \A e \in Missing(q, f.sv) : Carried(out'[q], e)
      BY <3>2, <3>5, <3>10 DEF Carried
    <3> QED BY <3>2, <3>5, <3>7, <3>8, <3>9, <3>11
  <2> QED BY <2>1, <2>2
<1>9. SyncTypes'
  <2>1. room' \in [Peers -> Seq(FrameType)]
    BY <1>4, <1>5, <1>6 DEF Typed
  <2>2. \A r \in Peers : Len(room'[r]) <= RoomCapacity
    <3>1. Len(room[q]) - 1 <= RoomCapacity
      BY <1>6, DocSyncAssumption DEF Typed
    <3> QED BY <1>5, <1>6, <3>1 DEF Typed
  <2> QED BY <1>4, <1>7, <1>8, <2>1, <2>2 DEF SyncTypes, SyncTypeOK, Typed
<1>10. FramesOK'
  <2>1. ASSUME NEW g \in FrameType, FrameOK(g, known) PROVE FrameOK(g, known')
    BY <1>7, <2>1, FrameStays
  <2>2. ASSUME NEW r \in Peers, NEW i \in DOMAIN room'[r] PROVE FrameOK(room'[r][i], known')
    <3>1. PICK k \in DOMAIN room[r] : room'[r][i] = room[r][k]
      <4>1. CASE r = q
        BY <1>6, <2>2, <4>1
      <4> QED BY <1>5, <2>2, <4>1
    <3>2. room[r][k] \in FrameType /\ FrameOK(room[r][k], known)
      BY <3>1 DEF FramesOK, Typed
    <3> QED BY <2>1, <3>1, <3>2
  <2>3. ASSUME NEW r \in Peers, NEW i \in DOMAIN out'[r]
        PROVE  out'[r][i].from = r /\ FrameOK(out'[r][i], known')
    <3>1. CASE \E k \in DOMAIN out[r] : out'[r][i] = out[r][k]
      <4>1. PICK k \in DOMAIN out[r] : out'[r][i] = out[r][k]
        BY <3>1
      <4>2. out[r][k] \in FrameType /\ FrameOK(out[r][k], known) /\ out[r][k].from = r
        BY <4>1 DEF FramesOK, Typed
      <4> QED BY <2>1, <4>1, <4>2
    <3> QED BY <1>8, <2>3, <3>1
  <2> QED BY <2>2, <2>3 DEF FramesOK
<1>11. \A r \in Peers, e \in Edits : Carried(out[r], e) => Carried(out'[r], e)
  BY <1>8 DEF Carried
<1>12. \A r \in Peers, e \in Edits : Requested(r, e) => Requested(r, e)'
  BY <1>4, <1>8 DEF Requested
<1>13. ASSUME NEW r \in Peers, NEW e \in Edits, Heard(r, e) PROVE Heard(r, e)'
  <2>1. CASE e \in known[r]
    BY <1>7, <2>1 DEF Heard
  <2>2. CASE e \notin known[r]
    <3>1. PICK i \in DOMAIN room[r] : room[r][i].from # r /\ e \in room[r][i].ops
      BY <1>13, <2>2 DEF Heard
    <3>2. CASE r # q
      BY <1>5, <3>1, <3>2 DEF Heard
    <3>3. CASE r = q /\ i # 1
      BY <1>6, <3>1, <3>3 DEF Heard
    <3>4. CASE r = q /\ i = 1
      BY <1>3, <1>7, <3>1, <3>4 DEF Heard
    <3> QED BY <3>2, <3>3, <3>4
  <2> QED BY <2>1, <2>2
<1>14. NothingLost'
  <2> SUFFICES ASSUME lagged = {}, NEW a \in joined, NEW p \in joined, a # p PROVE Link(a, p)'
    BY <1>4 DEF NothingLost, Link
  <2>1. Link(a, p) /\ a \in Peers /\ p \in Peers
    BY NothingLostDef DEF Typed
  \* A question behind j is still behind it when the queue has moved up by one.
  <2>2. ASSUME NEW e \in Edits, NEW j \in Nat, Covered(a, p, e, j), a = q => j > 0
        PROVE  Covered(a, p, e, IF a = q THEN j - 1 ELSE j)'
    <3>1. CASE Later(a, p, e, j) /\ a = q
      <4>1. PICK i \in DOMAIN room[q] : i > j /\ Asks(room[q][i], p, e)
        BY <3>1 DEF Later
      <4>2. i - 1 \in DOMAIN room'[q] /\ room'[q][i - 1] = room[q][i] /\ i - 1 > j - 1
        BY <1>6, <2>2, <3>1, <4>1
      <4>3. \E k \in DOMAIN room'[a] : k > j - 1 /\ Asks(room'[a][k], p, e)
        BY <3>1, <4>1, <4>2
      <4> QED BY <3>1, <4>3 DEF Covered, Later
    <3>2. CASE Later(a, p, e, j) /\ a # q
      BY <1>5, <2>1, <3>2 DEF Covered, Later
    <3>3. CASE Heard(p, e)
      BY <1>13, <2>1, <3>3 DEF Covered
    <3>4. CASE Carried(out[a], e)
      BY <1>11, <2>1, <3>4 DEF Covered
    <3>5. CASE Requested(p, e)
      BY <1>12, <2>1, <3>5 DEF Covered
    <3> QED BY <2>2, <3>1, <3>2, <3>3, <3>4, <3>5 DEF Covered
  <2>3. CASE a \in before[p]
    <3>1. ToLater(a, p)
      BY <2>1, <2>3 DEF Link
    <3>2. ASSUME NEW e \in known[a] PROVE Covered(a, p, e, 0)'
      <4>1. e \in Edits /\ Covered(a, p, e, 0)
        BY <2>1, <3>1, <3>2 DEF ToLater, Typed
      <4>2. CASE a # q
        BY <2>2, <4>1, <4>2
      <4>3. CASE a = q /\ Later(a, p, e, 0)
        <5>1. PICK i \in DOMAIN room[q] : Asks(room[q][i], p, e)
          BY <4>3 DEF Later
        <5>2. CASE i = 1
          <6>1. f.from = p /\ f.kind = "step1" /\ e \in Missing(q, f.sv)
            BY <1>3, <3>2, <4>3, <5>1, <5>2 DEF Asks, Missing
          <6> QED BY <1>8, <4>3, <6>1 DEF Covered
        <5>3. CASE i # 1
          <6>1. i - 1 \in DOMAIN room'[q] /\ room'[q][i - 1] = room[q][i] /\ i - 1 > 0
            BY <1>6, <5>3
          <6>2. \E k \in DOMAIN room'[a] : k > 0 /\ Asks(room'[a][k], p, e)
            BY <4>3, <5>1, <6>1
          <6> QED BY <6>2 DEF Covered, Later
        <5> QED BY <5>2, <5>3
      <4>4. CASE ~Later(a, p, e, 0)
        BY <1>11, <1>12, <1>13, <2>1, <4>1, <4>4 DEF Covered
      <4> QED BY <4>2, <4>3, <4>4
    <3>3. ASSUME NEW e \in known'[a], e \notin known[a] PROVE Covered(a, p, e, 0)'
      <4>1. a = q /\ f.from # q /\ e \in f.ops /\ e \in Edits
        BY <1>3, <1>7, <2>1, <3>3
      <4>2. Covered(a, p, e, 1)
        BY <1>3, <3>1, <4>1 DEF ToLater
      <4>3. (IF a = q THEN 1 - 1 ELSE 1) = 0
        BY <4>1
      <4> QED BY <2>2, <4>1, <4>2, <4>3
    <3>4. ASSUME NEW j \in DOMAIN room'[a], room'[a][j].from # a, NEW e \in room'[a][j].ops
          PROVE  Covered(a, p, e, j)'
      <4>1. CASE a # q
        <5>1. room'[a] = room[a] /\ j \in Nat /\ room[a][j] \in FrameType
          <6>1. room'[a] = room[a] /\ room[a] \in Seq(FrameType)
            BY <1>5, <2>1, <4>1 DEF Typed
          <6> QED BY <3>4, <6>1, LenProperties
        <5>2. e \in Edits
          BY <3>4, <5>1 DEF FrameType
        <5>3. Covered(a, p, e, j)
          BY <3>1, <3>4, <5>1 DEF ToLater
        <5> QED BY <2>2, <4>1, <5>1, <5>2, <5>3
      <4>2. CASE a = q
        <5>1. j \in Nat /\ j + 1 \in DOMAIN room[a] /\ room'[a][j] = room[a][j + 1]
          BY <1>6, <3>4, <4>2
        <5>2. room[a][j + 1] \in FrameType
          BY <1>1, <4>2, <5>1
        <5>3. e \in Edits
          BY <3>4, <5>1, <5>2 DEF FrameType
        <5>4. Covered(a, p, e, j + 1)
          BY <3>1, <3>4, <5>1 DEF ToLater
        <5>5. j + 1 \in Nat /\ j + 1 > 0 /\ (IF a = q THEN (j + 1) - 1 ELSE j + 1) = j
          BY <4>2, <5>1
        <5> QED BY <2>2, <5>3, <5>4, <5>5
      <4> QED BY <4>1, <4>2
    <3>5. a \in before'[p]
      BY <1>4, <2>3
    <3> QED BY <3>2, <3>3, <3>4, <3>5 DEF Link, ToLater
  <2>4. CASE a \notin before[p]
    <3>1. ToEarlier(a, p) /\ outgoing \subseteq Edits
      BY <2>1, <2>4 DEF Link, Typed
    <3>2. ToEarlier(a, p)'
      BY <1>4, <1>11, <1>13, <2>1, <3>1 DEF ToEarlier
    <3> QED BY <1>4, <2>4, <3>2 DEF Link
  <2> QED BY <2>3, <2>4
<1>15. Membership'
  <2>1. ASSUME NEW r \in Peers \ joined PROVE Waiting(r)'
    <3>1. Waiting(r) /\ outgoing \subseteq Edits
      BY DEF Membership, Typed
    <3>2. \A i \in DOMAIN out[r] : \E k \in DOMAIN out'[r] : out'[r][k] = out[r][i]
      BY <1>8
    <3> QED BY <1>4, <1>11, <3>1, <3>2 DEF Waiting
  <2> QED BY <1>4, <2>1 DEF Membership
<1> QED BY <1>9, <1>10, <1>14, <1>15 DEF SyncInv

LEMMA SyncInitInv == SyncInit => SyncInv
<1> SUFFICES ASSUME SyncInit PROVE SyncInv
  OBVIOUS
<1>1. SyncTypes
  <2>1. Len(<<>>) <= RoomCapacity
    BY DocSyncAssumption
  <2> QED BY <2>1 DEF SyncInit, SyncTypes, SyncTypeOK
<1>2. FramesOK /\ NothingLost /\ Membership
  BY DEF SyncInit, FramesOK, NothingLost, Membership, Waiting
<1> QED BY <1>1, <1>2 DEF SyncInv

LEMMA SyncNextInv == SyncInv /\ [SyncNext]_syncVars => SyncInv'
<1> SUFFICES ASSUME SyncInv, [SyncNext]_syncVars PROVE SyncInv'
  OBVIOUS
<1>1. CASE UNCHANGED syncVars
  <2>1. SyncTypes' /\ FramesOK' /\ Membership'
    BY <1>1 DEF syncVars, SyncInv, SyncTypes, SyncTypeOK, FramesOK, Membership, Waiting
  <2>2. \A a, p \in joined : Link(a, p) => Link(a, p)'
    BY <1>1 DEF syncVars, Link, ToLater, ToEarlier, Covered, Heard, Requested, Later
  <2>3. NothingLost'
    BY <1>1, <2>2 DEF syncVars, SyncInv, NothingLost, Link
  <2> QED BY <2>1, <2>3 DEF SyncInv
<1>2. CASE SyncNext
  BY <1>2, LocalEditInv, ObserveInv, HandshakeInv, DisconnectInv, JoinRoomInv, RelayInv, DeliverInv
     DEF SyncNext
<1> QED BY <1>1, <1>2

\* moonlit-sync: for any number of peers, edits and room capacity, once the room is
\* quiet and no frame was skipped, a peer knows all that those in the room before it
\* know, and all that later ones did since they began to connect.
THEOREM RoomCorrect == SyncSpec => []RoomSound
<1>1. ASSUME SyncInv PROVE RoomSound
  <2>1. SyncTypes /\ Typed /\ NothingLost
    BY <1>1, SyncTypesDef DEF SyncInv
  <2>2. ASSUME RoomQuiet, lagged = {}, NEW a \in joined, NEW p \in joined
        PROVE  IF a \in before[p] THEN known[a] \subseteq known[p]
               ELSE Own(a) \cap outgoing \subseteq known[p]
    <3>1. CASE a = p
      BY <3>1 DEF Own
    <3>2. CASE a # p
      <4>1. Link(a, p) /\ a \in Peers /\ p \in Peers
        BY <2>1, <2>2, <3>2, NothingLostDef DEF Typed
      <4>2. room[a] = <<>> /\ room[p] = <<>> /\ out[a] = <<>> /\ out[p] = <<>> /\ conn[p] # "observing"
        BY <2>2, <4>1 DEF RoomQuiet
      <4>3. \A i : i \notin DOMAIN <<>>
        OBVIOUS
      <4>4. \A e : Heard(p, e) \/ Carried(out[a], e) \/ Requested(p, e) \/ Later(a, p, e, 0) => e \in known[p]
        BY <4>2, <4>3 DEF Heard, Carried, Requested, Later
      <4> QED BY <4>1, <4>4 DEF Link, ToLater, ToEarlier, Covered, Own
    <3> QED BY <3>1, <3>2
  <2> QED BY <2>1, <2>2 DEF RoomSound, RoomAgrees, SyncTypes
<1> QED BY <1>1, SyncInitInv, SyncNextInv, PTL DEF SyncSpec

-----------------------------------------------------------------------------
(* The history of a session. The invariant says what each loop carries in its  *)
(* window, which lines a completed turn has left in the log, and that neither  *)
(* log, blob nor window mentions a turn that was cleared.                      *)

Legacy == <<Msg("user", 0), Msg("assistant", 0)>>

LoopRec == [pc : {"idle", "migrate", "migrated", "open", "run"}, kind : {"chat", "sub"},
            conv : Convs, turn : TurnIds, steps : Nat, window : Seq(Messages)]

\* A message that mentions none of the turns C, and lists whose readable lines do not.
Clean(m, C)   == m.turn \notin C /\ m.covers \cap C = {}
Parses(m)     == m.kind \notin {"torn", "split", "bad", "broken"}
LogClean(q, C) == \A m \in Lines(q) : Parses(m) => Clean(m, C)
AllClean(q, C) == \A m \in Lines(q) : Clean(m, C)

\* The messages of turn t can be read.
Says(q, r, t)  == \E m \in Lines(q) : m.kind = "msg" /\ m.role = r /\ m.turn = t
Readable(q, t) == Says(q, "user", t) /\ Says(q, "assistant", t)

\* What a loop c carries, C being the cleared turns of its session, n the turns so far.
LoopOK(c, C, n) ==
    /\ c.pc = "migrate" => c.window = Legacy
    /\ c.pc = "run" => c.window # <<>> /\ c.window[1] = Msg("system", c.turn)
    /\ c.pc # "idle" => c.turn \in 1 .. n /\ c.turn \notin C /\ AllClean(c.window, C)

ConvTypes ==
    /\ rollout \in [Convs -> Seq(Messages)]
    /\ blob \in [Convs -> {<<>>, Legacy}]
    /\ alive \subseteq Convs /\ turns \in TurnIds
    /\ loop \in [Loops -> LoopRec]
    /\ kept \in [Convs -> SUBSET (0 .. turns)]
    /\ cleared \in [Convs -> SUBSET (0 .. turns)]

KeptOK(s)  == \A t \in kept[s] : Readable(rollout[s], t)
CleanOK(s) == LogClean(rollout[s], cleared[s]) /\ (blob[s] # <<>> => 0 \notin cleared[s])

LoopsOK == \A l \in Loops : LoopOK(loop[l], cleared[loop[l].conv], turns)

ConvInv ==
    /\ ConvTypes /\ LoopsOK
    /\ \A s \in Convs : KeptOK(s) /\ CleanOK(s)

-----------------------------------------------------------------------------
(* The lines of a list under the operations of the model. *)

LEMMA LinesTyped ==
    ASSUME NEW S, NEW q \in Seq(S)
    PROVE  /\ Lines(q) \subseteq S
           /\ \A i \in 1 .. Len(q) : q[i] \in Lines(q)
           /\ \A m \in Lines(q) : \E i \in 1 .. Len(q) : m = q[i]
  BY DEF Lines

LEMMA LinesJoined ==
    ASSUME NEW S, NEW p \in Seq(S), NEW q \in Seq(S)
    PROVE  /\ p \o q \in Seq(S) /\ \A m : m \in Lines(p \o q) <=> m \in Lines(p) \/ m \in Lines(q)
           /\ p # <<>> => (p \o q) # <<>> /\ (p \o q)[1] = p[1]
<1>1. PICK s : s = p \o q
  OBVIOUS
<1>2. /\ s \in Seq(S) /\ Len(s) = Len(p) + Len(q) /\ Len(p) \in Nat /\ Len(q) \in Nat
      /\ \A i \in 1 .. Len(s) : s[i] = IF i <= Len(p) THEN p[i] ELSE q[i - Len(p)]
  BY <1>1, ConcatProperties
<1>3. \A i \in 1 .. Len(p) : i \in 1 .. Len(s) /\ s[i] = p[i]
  BY <1>2
<1>4. \A i \in 1 .. Len(q) : Len(p) + i \in 1 .. Len(s) /\ s[Len(p) + i] = q[i]
  <2> SUFFICES ASSUME NEW i \in 1 .. Len(q)
               PROVE  Len(p) + i \in 1 .. Len(s) /\ s[Len(p) + i] = q[i]
    OBVIOUS
  <2>1. PICK n \in Int : n = Len(p) + i
    BY <1>2
  <2>2. n \in 1 .. Len(s) /\ ~(n <= Len(p)) /\ n - Len(p) = i
    BY <1>2, <2>1
  <2> QED BY <1>2, <2>1, <2>2
<1>5. \A i \in 1 .. Len(s) : (i \in 1 .. Len(p) /\ s[i] = p[i])
                               \/ (i - Len(p) \in 1 .. Len(q) /\ s[i] = q[i - Len(p)])
  <2> SUFFICES ASSUME NEW i \in 1 .. Len(s)
               PROVE  \/ (i \in 1 .. Len(p) /\ s[i] = p[i])
                      \/ (i - Len(p) \in 1 .. Len(q) /\ s[i] = q[i - Len(p)])
    OBVIOUS
  <2>1. CASE i <= Len(p)
    BY <1>2, <2>1
  <2>2. CASE ~(i <= Len(p))
    <3>1. i - Len(p) \in 1 .. Len(q)
      BY <1>2, <2>2
    <3>2. s[i] = q[i - Len(p)]
      BY <1>2, <2>2
    <3> QED BY <3>1, <3>2
  <2> QED BY <2>1, <2>2
<1>6. DOMAIN p = 1 .. Len(p) /\ DOMAIN q = 1 .. Len(q) /\ DOMAIN s = 1 .. Len(s)
  BY <1>2
<1>7. \A m : m \in Lines(s) <=> m \in Lines(p) \/ m \in Lines(q)
  <2>1. \A m : m \in Lines(p) => m \in Lines(s)
    BY Zenon, <1>3, <1>6 DEF Lines
  <2>2. \A m : m \in Lines(q) => m \in Lines(s)
    BY <1>4, <1>6 DEF Lines
  <2>3. \A m : m \in Lines(s) => m \in Lines(p) \/ m \in Lines(q)
    BY <1>5, <1>6 DEF Lines
  <2> QED BY <2>1, <2>2, <2>3
<1>8. p # <<>> => s # <<>> /\ s[1] = p[1]
  <2> SUFFICES ASSUME p # <<>> PROVE s # <<>> /\ s[1] = p[1]
    OBVIOUS
  <2>1. 1 \in 1 .. Len(p)
    OBVIOUS
  <2>2. 1 \in 1 .. Len(s) /\ s[1] = p[1]
    BY <1>3, <2>1
  <2> QED BY <1>2, <2>2
<1> QED BY <1>1, <1>2, <1>7, <1>8

LEMMA LinesOfPart ==
    ASSUME NEW S, NEW q \in Seq(S), NEW a \in Int, NEW b \in Int, 1 <= a, b <= Len(q)
    PROVE  SubSeq(q, a, b) \in Seq(S) /\ Lines(SubSeq(q, a, b)) \subseteq Lines(q)
<1>1. PICK s : s = SubSeq(q, a, b)
  OBVIOUS
<1>2. CASE a <= b
  <2>1. /\ s \in Seq(S) /\ Len(s) = b - a + 1
        /\ \A i \in 1 .. Len(s) : s[i] = q[a + i - 1]
    BY <1>1, <1>2, SubSeqProperties
  <2>2. \A i \in 1 .. Len(s) : a + i - 1 \in 1 .. Len(q)
    BY <1>2, <2>1
  <2> QED BY <1>1, <2>1, <2>2 DEF Lines
<1>3. CASE b < a
  <2>1. s = << >>
    BY <1>1, <1>3
  <2> QED BY <1>1, <2>1 DEF Lines
<1> QED BY <1>2, <1>3

LEMMA LinesKept ==
    ASSUME NEW S, NEW q \in Seq(S), NEW keep
    PROVE  Filter(q, keep) \in Seq(S) /\ Lines(Filter(q, keep)) = Lines(q) \cap keep
<1>1. /\ Filter(q, keep) \in Seq(S)
      /\ {Filter(q, keep)[i] : i \in DOMAIN Filter(q, keep)} = {q[i] : i \in DOMAIN q} \cap keep
  BY FilterKeeps
<1> QED BY <1>1, Zenon DEF Lines

LEMMA LinesOfFew ==
    ASSUME NEW S, NEW a \in S
    PROVE  <<a>> \in Seq(S) /\ \A m : m \in Lines(<<a>>) <=> m = a
  BY DEF Lines

-----------------------------------------------------------------------------
(* The operators of the log. *)

LEMMA MessageFacts ==
    /\ \A r \in {"user", "assistant", "system", "tool", "none"}, t \in TurnIds :
         /\ Msg(r, t) \in Messages /\ Msg(r, t).kind = "msg" /\ Msg(r, t).role = r
         /\ Msg(r, t).turn = t /\ Msg(r, t).covers = {}
    /\ \A t \in TurnIds : /\ Boundary(t) \in Messages /\ Boundary(t).kind = "boundary"
                          /\ Boundary(t).turn = t /\ Boundary(t).covers = {}
    /\ \A t \in TurnIds, C \in SUBSET TurnIds :
         /\ Summary(t, C) \in Messages /\ Summary(t, C).kind = "compaction"
         /\ Summary(t, C).turn = t /\ Summary(t, C).covers = C
    /\ Torn \in Messages /\ Torn.kind = "torn" /\ Bad \in Messages /\ Bad.kind = "bad"
    /\ Split \in Messages /\ Split.kind = "split"
    /\ Broken \in Messages /\ Broken.kind = "broken"
<1>0. 0 \in TurnIds
  BY ConvAssumption DEF TurnIds
<1>1. \A r \in {"user", "assistant", "system", "tool", "none"}, t \in TurnIds :
         /\ Msg(r, t) \in Messages /\ Msg(r, t).kind = "msg" /\ Msg(r, t).role = r
         /\ Msg(r, t).turn = t /\ Msg(r, t).covers = {}
  BY DEF Msg, Messages
<1>2. \A t \in TurnIds : /\ Boundary(t) \in Messages /\ Boundary(t).kind = "boundary"
                         /\ Boundary(t).turn = t /\ Boundary(t).covers = {}
  BY DEF Boundary, Msg, Messages
<1>3. \A t \in TurnIds, C \in SUBSET TurnIds :
         /\ Summary(t, C) \in Messages /\ Summary(t, C).kind = "compaction"
         /\ Summary(t, C).turn = t /\ Summary(t, C).covers = C
  <2> SUFFICES ASSUME NEW t \in TurnIds, NEW C \in SUBSET TurnIds
               PROVE  /\ Summary(t, C) \in Messages /\ Summary(t, C).kind = "compaction"
                      /\ Summary(t, C).turn = t /\ Summary(t, C).covers = C
    OBVIOUS
  <2>1. Summary(t, C) = [kind |-> "compaction", role |-> "system", turn |-> t, size |-> 1,
                         covers |-> C]
    <3>1. PICK m : m = Msg("system", t)
      OBVIOUS
    <3>2. m = [kind |-> "msg", role |-> "system", turn |-> t, size |-> 1, covers |-> {}]
      BY <3>1 DEF Msg
    <3>3. Summary(t, C) = [m EXCEPT !.kind = "compaction", !.covers = C]
      BY <3>1 DEF Summary
    <3> QED BY <3>2, <3>3
  <2> QED BY <2>1 DEF Messages
<1>4. Torn \in Messages /\ Torn.kind = "torn" /\ Bad \in Messages /\ Bad.kind = "bad"
  BY <1>0 DEF Torn, Bad, Msg, Messages
<1>5. /\ Split \in Messages /\ Split.kind = "split"
      /\ Broken \in Messages /\ Broken.kind = "broken"
  BY <1>0 DEF Split, Broken, Msg, Messages
<1> QED BY <1>1, <1>2, <1>3, <1>4, <1>5

\* append_many: what the log keeps, what it gains, and which line may be lost.
LEMMA Appended ==
    ASSUME NEW log \in Seq(Messages), NEW items \in Seq(Messages), items # <<>>
    PROVE  /\ AppendMany(log, items) \in Seq(Messages)
           /\ \A m \in Lines(AppendMany(log, items)) :
                m \in Lines(log) \/ m \in Lines(items) \/ m = Bad \/ m = Broken
           /\ \A m \in Lines(log) : ~Partial(m) => m \in Lines(AppendMany(log, items))
           /\ \A i \in 2 .. Len(items) : items[i] \in Lines(AppendMany(log, items))
<1>1. CASE log # <<>> /\ Partial(log[Len(log)])
  <2>1. PICK a, b : a = SubSeq(log, 1, Len(log) - 1) /\ b = Tail(items)
    OBVIOUS
  <2>2. PICK c, j : c = <<j>> /\ j = Joined(log[Len(log)])
    OBVIOUS
  <2>0. j \in Messages /\ (j = Bad \/ j = Broken)
    BY <2>2, MessageFacts DEF Joined
  <2>3. AppendMany(log, items) = (a \o c) \o b
    BY <1>1, <2>1, <2>2 DEF AppendMany
  <2>4. Len(log) \in Nat \ {0}
    BY <1>1
  <2>5. a \in Seq(Messages) /\ Lines(a) \subseteq Lines(log)
    BY <2>1, <2>4, LinesOfPart
  <2>6. c \in Seq(Messages) /\ \A m : m \in Lines(c) <=> m = j
    BY <2>0, <2>2, LinesOfFew
  <2>7. b \in Seq(Messages) /\ Len(b) = Len(items) - 1 /\ \A i \in 1 .. Len(b) : b[i] = items[i + 1]
    BY <2>1
  <2>8. a \o c \in Seq(Messages) /\ \A m : m \in Lines(a \o c) <=> m \in Lines(a) \/ m \in Lines(c)
    BY <2>5, <2>6, LinesJoined
  <2>9. /\ (a \o c) \o b \in Seq(Messages)
        /\ \A m : m \in Lines((a \o c) \o b) <=> m \in Lines(a \o c) \/ m \in Lines(b)
    BY <2>7, <2>8, LinesJoined
  <2>10. Lines(b) \subseteq Lines(items)
    <3> SUFFICES ASSUME NEW m \in Lines(b) PROVE m \in Lines(items)
      OBVIOUS
    <3>1. PICK i \in 1 .. Len(b) : m = b[i]
      BY <2>7, LinesTyped
    <3>2. i + 1 \in 1 .. Len(items) /\ m = items[i + 1]
      BY <2>7, <3>1
    <3> QED BY <3>2 DEF Lines
  <2>11. \A m \in Lines(log) : ~Partial(m) => m \in Lines(a)
    <3> SUFFICES ASSUME NEW m \in Lines(log), ~Partial(m) PROVE m \in Lines(a)
      OBVIOUS
    <3>1. PICK i \in 1 .. Len(log) : m = log[i]
      BY LinesTyped
    <3>2. i \in 1 .. (Len(log) - 1)
      BY <1>1, <2>4, <3>1
    <3>3. i \in 1 .. Len(a) /\ a[i] = log[i]
      <4>1. 1 <= Len(log) - 1
        BY <2>4, <3>2
      <4>2. Len(a) = Len(log) - 1 /\ \A n \in 1 .. Len(a) : a[n] = log[n]
        BY <2>1, <2>4, <4>1
      <4> QED BY <3>2, <4>2
    <3> QED BY <2>5, <3>1, <3>3 DEF Lines
  <2>12. \A i \in 2 .. Len(items) : items[i] \in Lines(b)
    <3> SUFFICES ASSUME NEW i \in 2 .. Len(items) PROVE items[i] \in Lines(b)
      OBVIOUS
    <3>1. i - 1 \in 1 .. Len(b) /\ b[i - 1] = items[i]
      BY <2>7
    <3> QED BY <2>7, <3>1 DEF Lines
  <2>13. PICK s : s = (a \o c) \o b
    OBVIOUS
  <2>14. /\ s \in Seq(Messages)
         /\ \A m : m \in Lines(s) <=> m \in Lines(a) \/ m = j \/ m \in Lines(b)
    BY <2>6, <2>8, <2>9, <2>13
  <2> QED BY <2>0, <2>3, <2>5, <2>10, <2>11, <2>12, <2>13, <2>14
<1>2. CASE ~(log # <<>> /\ Partial(log[Len(log)]))
  <2>1. AppendMany(log, items) = log \o items
    BY <1>2 DEF AppendMany
  <2>2. /\ log \o items \in Seq(Messages)
        /\ \A m : m \in Lines(log \o items) <=> m \in Lines(log) \/ m \in Lines(items)
    BY LinesJoined
  <2>3. \A i \in 2 .. Len(items) : items[i] \in Lines(items)
    BY LinesTyped
  <2> QED BY <2>1, <2>2, <2>3
<1> QED BY <1>1, <1>2

\* What is read is text, and a line of text is read unless it stands behind one that
\* is not UTF-8.
LEMMA TextLines ==
    ASSUME NEW log \in Seq(Messages)
    PROVE  /\ TextOf(log) \in Seq(Messages)
           /\ \A m \in Lines(TextOf(log)) : m \in Lines(log) /\ ~NotText(m)
           /\ \A i \in DOMAIN log : \/ log[i] \in Lines(TextOf(log))
                                    \/ NotText(log[i])
                                    \/ \E j \in DOMAIN log : j < i /\ NotText(log[j])
<1> DEFINE ends  == {i \in DOMAIN log : NotText(log[i])}
           first == CHOOSE i \in ends : \A j \in ends : i <= j
<1>1. TextOf(log) = IF ends = {} THEN log ELSE SubSeq(log, 1, first - 1)
  BY DEF TextOf
<1>2. CASE ends = {}
  <2>1. TextOf(log) = log
    BY <1>1, <1>2
  <2>2. \A i \in DOMAIN log : ~NotText(log[i])
    BY <1>2
  <2> QED BY <2>1, <2>2 DEF Lines
<1>3. CASE ends # {}
  <2>1. ends \subseteq Nat /\ \A i \in ends : i \in 1 .. Len(log) /\ NotText(log[i])
    OBVIOUS
  <2>2. \A i \in 1 .. Len(log) : NotText(log[i]) => i \in ends
    OBVIOUS
  <2>0. TextOf(log) = SubSeq(log, 1, first - 1)
    BY <1>1, <1>3
  <2> HIDE DEF ends
  <2>3. \E i \in ends : \A j \in ends : i <= j
    BY <1>3, <2>1, LeastNat
  <2>4. first \in ends /\ \A j \in ends : first <= j
    BY <2>3
  <2> HIDE DEF first
  <2>5. PICK n : n = first
    OBVIOUS
  <2>6. n \in 1 .. Len(log) /\ NotText(log[n]) /\ \A j \in 1 .. n - 1 : ~NotText(log[j])
    BY <2>1, <2>2, <2>4, <2>5
  <2>7. PICK t : t = SubSeq(log, 1, n - 1)
    OBVIOUS
  <2>8. /\ t \in Seq(Messages) /\ Len(t) = n - 1
        /\ \A i \in 1 .. n - 1 : t[i] = log[i]
    BY <2>6, <2>7
  <2>9. TextOf(log) = t
    BY <2>0, <2>5, <2>7
  <2>10. \A m \in Lines(t) : m \in Lines(log) /\ ~NotText(m)
    <3> SUFFICES ASSUME NEW m \in Lines(t) PROVE m \in Lines(log) /\ ~NotText(m)
      OBVIOUS
    <3>1. PICK i \in 1 .. n - 1 : m = log[i]
      BY <2>8 DEF Lines
    <3> QED BY <2>6, <3>1 DEF Lines
  <2>11. ASSUME NEW i \in DOMAIN log
         PROVE  \/ log[i] \in Lines(t) \/ NotText(log[i])
                \/ \E j \in DOMAIN log : j < i /\ NotText(log[j])
    <3>1. CASE i < n
      <4>1. i \in DOMAIN t /\ t[i] = log[i]
        BY <2>6, <2>8, <3>1
      <4> QED BY <4>1 DEF Lines
    <3>2. CASE i = n
      BY <2>6, <3>2
    <3>3. CASE i > n
      BY <2>6, <3>3
    <3> QED BY <2>6, <3>1, <3>2, <3>3
  <2> QED BY <2>8, <2>9, <2>10, <2>11
<1> QED BY <1>2, <1>3

LEMMA ReadLines ==
    ASSUME NEW log \in Seq(Messages)
    PROVE  /\ ReadRollout(log) \in Seq(Messages)
           /\ \A m \in Lines(ReadRollout(log)) : m \in Lines(log) /\ Parses(m)
           /\ \A i \in DOMAIN log : Parses(log[i]) =>
                  \/ log[i] \in Lines(ReadRollout(log))
                  \/ \E j \in DOMAIN log : j < i /\ NotText(log[j])
<1>1. PICK K, t : K = {l \in Lines(log) : l.kind \notin {"torn", "bad"}} /\ t = TextOf(log)
  OBVIOUS
<1>2. ReadRollout(log) = Filter(t, K)
  BY <1>1 DEF ReadRollout
<1>3. /\ t \in Seq(Messages)
      /\ \A m \in Lines(t) : m \in Lines(log) /\ ~NotText(m)
      /\ \A i \in DOMAIN log : \/ log[i] \in Lines(t)
                               \/ NotText(log[i])
                               \/ \E j \in DOMAIN log : j < i /\ NotText(log[j])
  BY <1>1, TextLines
<1>4. Filter(t, K) \in Seq(Messages) /\ Lines(Filter(t, K)) = Lines(t) \cap K
  BY <1>3, LinesKept
<1>5. \A m \in Lines(t) \cap K : m \in Lines(log) /\ Parses(m)
  BY <1>1, <1>3 DEF Parses, NotText
<1>6. ASSUME NEW i \in DOMAIN log, Parses(log[i])
      PROVE  \/ log[i] \in Lines(t) \cap K
             \/ \E j \in DOMAIN log : j < i /\ NotText(log[j])
  <2>1. log[i] \in K /\ ~NotText(log[i])
    BY <1>1, <1>6 DEF Parses, NotText, Lines
  <2> QED BY <1>3, <2>1
<1> QED BY <1>2, <1>4, <1>5, <1>6

LEMMA RebuildLines ==
    ASSUME NEW items \in Seq(Messages)
    PROVE  Rebuild(items) \in Seq(Messages) /\ Lines(Rebuild(items)) \subseteq Lines(items)
<1> DEFINE marks == {i \in DOMAIN items : items[i].kind = "compaction"}
           from  == IF marks = {} THEN 0 ELSE CHOOSE i \in marks : \A j \in marks : j <= i
           K     == {l \in Lines(items) : l.kind = "msg"}
           part  == SubSeq(items, from + 1, Len(items))
<1>1. Rebuild(items) = IF from = 0 THEN Filter(part, K) ELSE <<items[from]>> \o Filter(part, K)
  BY DEF Rebuild
<1>2. from \in 0 .. Len(items)
  <2>1. CASE marks = {}
    BY <2>1
  <2>2. CASE marks # {}
    <3>1. marks \subseteq Nat /\ Len(items) \in Nat /\ \A b \in marks : 1 <= b /\ b <= Len(items)
      OBVIOUS
    <3>0. \A b \in marks : b \in 0 .. Len(items)
      OBVIOUS
    <3> HIDE DEF marks
    <3>2. \E i \in marks : \A j \in marks : j <= i
      BY <2>2, <3>1, Greatest
    <3>3. from \in marks
      BY <2>2, <3>2
    <3> QED BY <3>0, <3>3, Zenon
  <2> QED BY <2>1, <2>2
<1> HIDE DEF from, K
<1>3. part \in Seq(Messages) /\ Lines(part) \subseteq Lines(items)
  BY <1>2, LinesOfPart
<1> HIDE DEF part
<1>4. Filter(part, K) \in Seq(Messages) /\ Lines(Filter(part, K)) = Lines(part) \cap K
  BY <1>3, LinesKept
<1>5. PICK f : f = Filter(part, K)
  OBVIOUS
<1>6. CASE from = 0
  BY <1>1, <1>3, <1>4, <1>6
<1>7. CASE from # 0
  <2>1. from \in 1 .. Len(items)
    BY <1>2, <1>7
  <2>2. items[from] \in Messages /\ items[from] \in Lines(items)
    BY <2>1, LinesTyped
  <2>3. PICK h : h = <<items[from]>>
    OBVIOUS
  <2>4. h \in Seq(Messages) /\ \A m : m \in Lines(h) <=> m = items[from]
    BY <2>2, <2>3, LinesOfFew
  <2>5. h \o f \in Seq(Messages) /\ \A m : m \in Lines(h \o f) <=> m \in Lines(h) \/ m \in Lines(f)
    BY <1>4, <1>5, <2>4, LinesJoined
  <2>6. Rebuild(items) = h \o f
    BY <1>1, <1>5, <1>7, <2>3
  <2> QED BY <1>3, <1>4, <1>5, <2>2, <2>4, <2>5, <2>6
<1> QED BY <1>6, <1>7

\* SessionService::history repeats lines that can be read.
LEMMA HistoryLines ==
    ASSUME NEW log \in Seq(Messages)
    PROVE  /\ History(log) \in Seq(Messages)
           /\ \A m \in Lines(History(log)) : m \in Lines(log) /\ Parses(m)
<1>1. PICK r : r = ReadRollout(log)
  OBVIOUS
<1>2. r \in Seq(Messages) /\ \A m \in Lines(r) : m \in Lines(log) /\ Parses(m)
  BY <1>1, ReadLines
<1>3. PICK past : past = Rebuild(r)
  OBVIOUS
<1>4. past \in Seq(Messages) /\ Lines(past) \subseteq Lines(r)
  BY <1>2, <1>3, RebuildLines
<1>5. PICK K : K = {m \in Lines(past) : m.role # "tool"}
  OBVIOUS
<1>6. PICK f : f = Filter(past, K)
  OBVIOUS
<1>7. f \in Seq(Messages) /\ Lines(f) \subseteq Lines(past)
  BY <1>4, <1>6, LinesKept
<1>8. PICK n, a : n = 2 * HistoryTurns /\ a = IF Len(f) > n THEN Len(f) - n + 1 ELSE 1
  OBVIOUS
<1>9. History(log) = SubSeq(f, a, Len(f))
  BY <1>1, <1>3, <1>5, <1>6, <1>8 DEF History, LastN
<1>10. n \in Nat /\ a \in Int /\ 1 <= a /\ Len(f) \in Int
  BY <1>7, <1>8, ConvAssumption
<1>11. SubSeq(f, a, Len(f)) \in Seq(Messages) /\ Lines(SubSeq(f, a, Len(f))) \subseteq Lines(f)
  BY <1>7, <1>10, LinesOfPart
<1> QED BY <1>2, <1>4, <1>7, <1>9, <1>11

-----------------------------------------------------------------------------
(* The operators of a window. *)

LEMMA MentionedClean ==
    ASSUME NEW q \in Seq(Messages), NEW C, AllClean(q, C)
    PROVE  Mentioned(q) \cap C = {} /\ Mentioned(q) \in SUBSET TurnIds
<1>1. \A i \in DOMAIN q : Clean(q[i], C)
  BY DEF AllClean, Lines
<1>2. \A i \in DOMAIN q : q[i] \in Messages
  OBVIOUS
<1>3. \A i \in DOMAIN q : q[i].turn \in TurnIds /\ q[i].covers \subseteq TurnIds
  BY <1>2 DEF Messages
<1>4. \A x \in Mentioned(q) : x \notin C /\ x \in TurnIds
  BY <1>1, <1>3 DEF Mentioned, TurnsOf, Clean
<1> QED BY <1>4

\* What a log without the cleared turns says to whoever reads it.
LEMMA ReadClean ==
    ASSUME NEW q \in Seq(Messages), NEW C, LogClean(q, C)
    PROVE  C \cap Mentioned(ReadRollout(q)) = {}
<1>1. /\ ReadRollout(q) \in Seq(Messages)
      /\ \A m \in Lines(ReadRollout(q)) : m \in Lines(q) /\ Parses(m)
  BY ReadLines
<1>2. AllClean(ReadRollout(q), C)
  BY <1>1 DEF LogClean, AllClean
<1> QED BY <1>1, <1>2, MentionedClean

LEMMA Decayed ==
    ASSUME NEW w \in Seq(Messages), w # <<>>
    PROVE  /\ Decay(w) \in Seq(Messages) /\ Len(Decay(w)) = Len(w)
           /\ w[1].role # "tool" => Decay(w)[1] = w[1]
           /\ \A C : AllClean(w, C) => AllClean(Decay(w), C)
<1>1. PICK d : d = Decay(w)
  OBVIOUS
<1>2. d = [i \in 1 .. Len(w) |->
             IF i <= Len(w) - KeepTail /\ w[i].role = "tool" THEN [w[i] EXCEPT !.size = 1] ELSE w[i]]
  BY <1>1 DEF Decay
<1>3. \A m \in Messages : /\ [m EXCEPT !.size = 1] \in Messages
                          /\ [m EXCEPT !.size = 1].turn = m.turn
                          /\ [m EXCEPT !.size = 1].covers = m.covers
  BY DEF Messages
<1>4. \A i \in 1 .. Len(w) : w[i] \in Messages
  OBVIOUS
<1>5. \A i \in 1 .. Len(w) : d[i] \in Messages /\ d[i].turn = w[i].turn /\ d[i].covers = w[i].covers
  BY <1>2, <1>3, <1>4
<1>6. d \in Seq(Messages) /\ Len(d) = Len(w) /\ DOMAIN d = 1 .. Len(w)
  <2>1. d \in [1 .. Len(w) -> Messages]
    BY <1>2, <1>5
  <2> QED BY <2>1
<1>7. w[1].role # "tool" => d[1] = w[1]
  BY <1>2
<1>8. ASSUME NEW C, AllClean(w, C) PROVE AllClean(d, C)
  <2>1. \A i \in 1 .. Len(w) : Clean(w[i], C)
    BY <1>8 DEF AllClean, Lines
  <2>2. \A i \in 1 .. Len(w) : Clean(d[i], C)
    BY <1>5, <2>1 DEF Clean
  <2> QED BY <1>6, <2>2 DEF AllClean, Lines
<1> QED BY <1>1, <1>6, <1>7, <1>8

\* The prompt stays, the rest is a part of what was there.
LEMMA Dropped ==
    ASSUME NEW w \in Seq(Messages), w # <<>>
    PROVE  /\ HardDrop(w) \in Seq(Messages) /\ HardDrop(w) # <<>> /\ HardDrop(w)[1] = w[1]
           /\ Lines(HardDrop(w)) \subseteq Lines(w)
<1> DEFINE fits(k) == Tokens(w) - Tokens(SubSeq(w, 2, k + 1)) <= Budget \/ Len(w) - k <= KeepTail + 1
           n == CHOOSE k \in 0..Len(w) : fits(k) /\ \A j \in 0..(k - 1) : ~fits(j)
<1>1. HardDrop(w) = <<w[1]>> \o SubSeq(w, n + 2, Len(w))
  BY DEF HardDrop
<1>2. fits(Len(w))
  BY ConvAssumption
<1> HIDE DEF fits
<1>3. n \in 0 .. Len(w)
  <2>1. PICK T : T = {k \in 0 .. Len(w) : fits(k)}
    OBVIOUS
  <2>2. T \subseteq Nat /\ T # {}
    BY <1>2, <2>1
  <2>3. PICK x \in T : \A y \in T : x <= y
    BY <2>2, LeastNat
  <2>4. \A j \in 0 .. (x - 1) : j \in 0 .. Len(w) /\ j \notin T
    BY <2>1, <2>3
  <2>5. x \in 0 .. Len(w) /\ fits(x) /\ \A j \in 0 .. (x - 1) : ~fits(j)
    BY <2>1, <2>3, <2>4
  <2> QED BY <2>5
<1> HIDE DEF n
<1>4. PICK h, r : h = <<w[1]>> /\ r = SubSeq(w, n + 2, Len(w))
  OBVIOUS
<1>5. w[1] \in Messages /\ w[1] \in Lines(w)
  BY LinesTyped
<1>6. h \in Seq(Messages) /\ Len(h) = 1 /\ h[1] = w[1] /\ \A m : m \in Lines(h) <=> m = w[1]
  BY <1>4, <1>5, LinesOfFew
<1>7. r \in Seq(Messages) /\ Lines(r) \subseteq Lines(w)
  BY <1>3, <1>4, LinesOfPart
<1>8. h \o r \in Seq(Messages) /\ \A m : m \in Lines(h \o r) <=> m \in Lines(h) \/ m \in Lines(r)
  BY <1>6, <1>7, LinesJoined
<1>9. (h \o r) # <<>> /\ (h \o r)[1] = w[1]
  <2>1. h # <<>>
    BY <1>4
  <2> QED BY <1>6, <1>7, <2>1, LinesJoined
<1>10. HardDrop(w) = h \o r
  BY <1>1, <1>4
<1> QED BY <1>5, <1>6, <1>7, <1>8, <1>9, <1>10

\* One compaction, of a loop of turn t whose window mentions no turn of C.
LEMMA Compacted ==
    ASSUME NEW w \in Seq(Messages), w # <<>>, w[1].role # "tool", NEW t \in TurnIds, NEW C, t \notin C,
           AllClean(w, C), NEW d, d = Decay(w), NEW cut, cut = CutHistory(d),
           NEW sum, sum = Summary(t, Mentioned(SubSeq(d, 2, cut)))
    PROVE  /\ HardDrop(d) \in Seq(Messages) /\ HardDrop(d) # <<>> /\ HardDrop(d)[1] = w[1]
           /\ AllClean(HardDrop(d), C)
           /\ sum \in Messages /\ sum.kind = "compaction" /\ Clean(sum, C)
           /\ \A x : x = HardDrop(<<d[1], sum>> \o SubSeq(d, cut + 1, Len(d))) =>
                x \in Seq(Messages) /\ x # <<>> /\ x[1] = w[1] /\ AllClean(x, C)
<1>1. d \in Seq(Messages) /\ Len(d) = Len(w) /\ d[1] = w[1] /\ AllClean(d, C) /\ d # <<>>
  <2>1. /\ Decay(w) \in Seq(Messages) /\ Len(Decay(w)) = Len(w)
        /\ Decay(w)[1] = w[1] /\ AllClean(Decay(w), C)
    BY Decayed
  <2>2. d \in Seq(Messages) /\ Len(d) = Len(w) /\ d[1] = w[1] /\ AllClean(d, C)
    BY <2>1, Zenon
  <2> QED BY <2>2
<1>2. HardDrop(d) \in Seq(Messages) /\ HardDrop(d) # <<>> /\ HardDrop(d)[1] = w[1]
      /\ Lines(HardDrop(d)) \subseteq Lines(d)
  BY <1>1, Dropped
<1>3. AllClean(HardDrop(d), C)
  BY <1>1, <1>2 DEF AllClean
<1>4. cut \in Int /\ 1 <= cut /\ cut <= Len(d)
  BY <1>1, ConvAssumption DEF CutHistory
<1>5. PICK p : p = SubSeq(d, 2, cut)
  OBVIOUS
<1>6. p \in Seq(Messages) /\ Lines(p) \subseteq Lines(d)
  BY <1>1, <1>4, <1>5, LinesOfPart
<1>7. AllClean(p, C)
  BY <1>1, <1>6 DEF AllClean
<1>8. Mentioned(p) \cap C = {} /\ Mentioned(p) \in SUBSET TurnIds
  BY <1>6, <1>7, MentionedClean
<1>9. sum \in Messages /\ sum.kind = "compaction" /\ sum.turn = t /\ sum.covers = Mentioned(p)
  BY <1>5, <1>8, MessageFacts
<1>10. Clean(sum, C)
  BY <1>8, <1>9 DEF Clean
<1>11. ASSUME NEW x, x = HardDrop(<<d[1], sum>> \o SubSeq(d, cut + 1, Len(d)))
       PROVE  x \in Seq(Messages) /\ x # <<>> /\ x[1] = w[1] /\ AllClean(x, C)
  <2>1. PICK h, r, v : h = <<d[1], sum>> /\ r = SubSeq(d, cut + 1, Len(d)) /\ v = h \o r
    OBVIOUS
  <2>2. d[1] \in Messages /\ d[1] \in Lines(d)
    BY <1>1, LinesTyped
  <2>3. /\ h \in Seq(Messages) /\ Len(h) = 2 /\ h[1] = d[1]
        /\ \A m : m \in Lines(h) => m = d[1] \/ m = sum
    BY <1>9, <2>1, <2>2 DEF Lines
  <2>4. r \in Seq(Messages) /\ Lines(r) \subseteq Lines(d)
    <3>1. PICK a, b : a = cut + 1 /\ b = Len(d)
      OBVIOUS
    <3>2. a \in Int /\ 1 <= a /\ b \in Int /\ b <= Len(d)
      BY <1>1, <1>4, <3>1
    <3>3. SubSeq(d, a, b) \in Seq(Messages) /\ Lines(SubSeq(d, a, b)) \subseteq Lines(d)
      BY <1>1, <3>2, LinesOfPart
    <3> QED BY <2>1, <3>1, <3>3
  <2>5. h \o r \in Seq(Messages) /\ \A m : m \in Lines(h \o r) <=> m \in Lines(h) \/ m \in Lines(r)
    BY <2>3, <2>4, LinesJoined
  <2>6. (h \o r) # <<>> /\ (h \o r)[1] = d[1]
    <3>1. h # <<>>
      BY <2>1
    <3> QED BY <2>3, <2>4, <3>1, LinesJoined
  <2>7. v \in Seq(Messages) /\ v # <<>> /\ v[1] = d[1]
    BY <2>1, <2>5, <2>6
  <2>8. \A m \in Lines(v) : Clean(m, C)
    BY <1>1, <1>10, <2>1, <2>2, <2>3, <2>4, <2>5 DEF AllClean
  <2>9. HardDrop(v) \in Seq(Messages) /\ HardDrop(v) # <<>> /\ HardDrop(v)[1] = v[1]
        /\ Lines(HardDrop(v)) \subseteq Lines(v)
    BY <2>7, Dropped
  <2>10. x = HardDrop(v)
    BY <1>11, <2>1
  <2>11. AllClean(x, C)
    BY <2>8, <2>9, <2>10 DEF AllClean
  <2> QED BY <1>1, <2>7, <2>9, <2>10, <2>11
<1> QED BY <1>2, <1>3, <1>9, <1>10, <1>11

-----------------------------------------------------------------------------
(* Parts of the invariant over a step. *)

LEMMA TurnFacts ==
    ConvTypes => /\ turns \in Nat /\ 0 \in 0 .. turns /\ 0 \in TurnIds /\ 0 .. turns \subseteq TurnIds
                 /\ First \in Convs /\ Legacy \in Seq(Messages)
                 /\ \A m \in Lines(Legacy) : m.kind = "msg" /\ m.turn = 0 /\ m.covers = {}
<1> SUFFICES ASSUME ConvTypes
             PROVE  /\ turns \in Nat /\ 0 \in 0 .. turns /\ 0 \in TurnIds /\ 0 .. turns \subseteq TurnIds
                    /\ First \in Convs /\ Legacy \in Seq(Messages)
                    /\ \A m \in Lines(Legacy) : m.kind = "msg" /\ m.turn = 0 /\ m.covers = {}
  OBVIOUS
<1>1. /\ turns \in Nat /\ 0 \in 0 .. turns /\ 0 \in TurnIds /\ 0 .. turns \subseteq TurnIds
  BY ConvAssumption DEF ConvTypes, TurnIds
<1>2. First \in Convs
  BY ConvAssumption DEF First
<1>3. PICK a, b : a = Msg("user", 0) /\ b = Msg("assistant", 0)
  OBVIOUS
<1>4. /\ a \in Messages /\ a.kind = "msg" /\ a.turn = 0 /\ a.covers = {}
      /\ b \in Messages /\ b.kind = "msg" /\ b.turn = 0 /\ b.covers = {}
  BY <1>1, <1>3, MessageFacts
<1>5. Legacy = <<a, b>>
  BY <1>3 DEF Legacy
<1>6. Legacy \in Seq(Messages) /\ \A m \in Lines(Legacy) : m = a \/ m = b
  BY <1>4, <1>5 DEF Lines
<1> QED BY <1>1, <1>2, <1>4, <1>6

LEMMA LoopOKStays ==
    ASSUME NEW c \in LoopRec, NEW C, NEW D, NEW n \in Nat, NEW k \in Nat, n <= k, D \subseteq C,
           LoopOK(c, C, n)
    PROVE  LoopOK(c, D, k)
  BY DEF LoopOK, AllClean, Clean

\* One loop moves.
LEMMA LoopMoves ==
    ASSUME ConvTypes, LoopsOK, NEW l \in Loops, NEW c \in LoopRec, loop' = [loop EXCEPT ![l] = c],
           turns' \in TurnIds, turns <= turns', cleared' = cleared,
           LoopOK(c, cleared[c.conv], turns')
    PROVE  loop' \in [Loops -> LoopRec] /\ LoopsOK'
<1>1. loop \in [Loops -> LoopRec] /\ turns \in Nat /\ turns' \in Nat
  BY TurnFacts, ConvAssumption DEF ConvTypes, TurnIds
<1>2. PICK n : n = turns'
  OBVIOUS
<1>3. \A k \in Loops : LoopOK(loop[k], cleared[loop[k].conv], turns)
  BY DEF LoopsOK
<1>4. \A k \in Loops : LoopOK(loop[k], cleared[loop[k].conv], n)
  BY <1>1, <1>2, <1>3, LoopOKStays
<1>5. LoopOK(c, cleared[c.conv], n)
  BY <1>2
<1>6. loop' \in [Loops -> LoopRec] /\ \A k \in Loops : loop'[k] = IF k = l THEN c ELSE loop[k]
  BY <1>1
<1>7. \A k \in Loops : LoopOK(loop'[k], cleared[loop'[k].conv], n)
  BY <1>4, <1>5, <1>6
<1> QED BY <1>2, <1>6, <1>7 DEF LoopsOK

\* A loop that stops.
LEMMA Stopped ==
    ASSUME ConvTypes
    PROVE  NoLoop \in LoopRec /\ NoLoop.pc = "idle" /\ \A C, n : LoopOK(NoLoop, C, n)
<1>1. NoLoop \in LoopRec /\ NoLoop.pc = "idle"
  BY TurnFacts DEF NoLoop, LoopRec
<1> QED BY <1>1 DEF LoopOK

\* The logs stay.
LEMMA LogsStay ==
    ASSUME ConvInv, UNCHANGED <<rollout, blob, kept, cleared>>
    PROVE  \A s \in Convs : KeptOK(s)' /\ CleanOK(s)'
  BY DEF ConvInv, KeptOK, CleanOK

\* Lines are appended to the log of s, and the turns k become readable with them.
Spoken(q, k) ==
    \A t \in k : \A r \in {"user", "assistant"} :
        \E i \in 2 .. Len(q) : q[i].kind = "msg" /\ q[i].role = r /\ q[i].turn = t

LEMMA LogGrows ==
    ASSUME ConvInv, NEW s \in Convs, NEW items \in Seq(Messages), items # <<>>,
           LogClean(items, cleared[s]),
           NEW a, a = AppendMany(rollout[s], items), rollout' = [rollout EXCEPT ![s] = a],
           NEW k \in SUBSET (0 .. turns), kept' = [kept EXCEPT ![s] = kept[s] \cup k],
           Spoken(items, k), UNCHANGED <<blob, cleared, turns>>
    PROVE  /\ rollout' \in [Convs -> Seq(Messages)] /\ kept' \in [Convs -> SUBSET (0 .. turns)]
           /\ \A x \in Convs : KeptOK(x)' /\ CleanOK(x)'
<1>1. /\ rollout \in [Convs -> Seq(Messages)] /\ kept \in [Convs -> SUBSET (0 .. turns)]
      /\ \A x \in Convs : KeptOK(x) /\ CleanOK(x)
  BY DEF ConvInv, ConvTypes
<1>2. PICK q : q = rollout[s] /\ a = AppendMany(q, items)
  OBVIOUS
<1>3. q \in Seq(Messages)
  BY <1>1, <1>2
<1>4. /\ AppendMany(q, items) \in Seq(Messages)
      /\ \A m \in Lines(AppendMany(q, items)) :
           m \in Lines(q) \/ m \in Lines(items) \/ m = Bad \/ m = Broken
      /\ \A m \in Lines(q) : ~Partial(m) => m \in Lines(AppendMany(q, items))
      /\ \A i \in 2 .. Len(items) : items[i] \in Lines(AppendMany(q, items))
  BY <1>3, Appended
<1>5. /\ a \in Seq(Messages)
      /\ \A m \in Lines(a) : m \in Lines(q) \/ m \in Lines(items) \/ m = Bad \/ m = Broken
      /\ \A m \in Lines(q) : ~Partial(m) => m \in Lines(a)
      /\ \A i \in 2 .. Len(items) : items[i] \in Lines(a)
  BY <1>2, <1>4, Zenon
<1>6. rollout' = [rollout EXCEPT ![s] = a]
  BY <1>2
<1>7. rollout' \in [Convs -> Seq(Messages)] /\ kept' \in [Convs -> SUBSET (0 .. turns)]
  BY <1>1, <1>5, <1>6
<1>8. ASSUME NEW x \in Convs PROVE KeptOK(x)' /\ CleanOK(x)'
  <2>1. CASE x # s
    <3>1. rollout'[x] = rollout[x] /\ kept'[x] = kept[x] /\ blob' = blob /\ cleared' = cleared
      BY <1>1, <1>6, <2>1
    <3> QED BY <1>1, <3>1 DEF KeptOK, CleanOK
  <2>2. CASE x = s
    <3>1. rollout'[s] = a /\ kept'[s] = kept[s] \cup k
      BY <1>1, <1>6
    <3>2. \A t \in kept[s] : Readable(q, t)
      BY <1>1, <1>2 DEF KeptOK
    <3>3. \A t \in kept[s] : Readable(a, t)
      BY <1>5, <3>2 DEF Readable, Says, Partial
    <3>4. ASSUME NEW t \in k, NEW r \in {"user", "assistant"} PROVE Says(a, r, t)
      <4>1. PICK i \in 2 .. Len(items) :
                 items[i].kind = "msg" /\ items[i].role = r /\ items[i].turn = t
        BY DEF Spoken
      <4>2. items[i] \in Lines(a)
        BY <1>5
      <4> QED BY <4>1, <4>2 DEF Says
    <3>5. \A t \in k : Readable(a, t)
      BY <3>4 DEF Readable
    <3>6. KeptOK(s)'
      BY <3>1, <3>3, <3>5 DEF KeptOK
    <3>7. LogClean(q, cleared[s]) /\ (blob[s] # <<>> => 0 \notin cleared[s])
      BY <1>1, <1>2 DEF CleanOK
    <3>8. ~Parses(Bad) /\ ~Parses(Broken)
      BY MessageFacts DEF Parses
    <3>9. LogClean(a, cleared[s])
      BY <1>5, <3>7, <3>8 DEF LogClean
    <3>10. CleanOK(s)'
      BY <3>1, <3>7, <3>9 DEF CleanOK
    <3> QED BY <2>2, <3>6, <3>10
  <2> QED BY <2>1, <2>2
<1> QED BY <1>7, <1>8

LEMMA ConvInitSound == ConvInit => ConvInv
<1> SUFFICES ASSUME ConvInit PROVE ConvInv
  OBVIOUS
<1>1. turns = 0 /\ 0 \in TurnIds /\ First \in Convs
  BY ConvAssumption DEF ConvInit, TurnIds, First
<1>2. ConvTypes
  <2>1. rollout \in [Convs -> Seq(Messages)] /\ blob \in [Convs -> {<<>>, Legacy}]
    BY DEF ConvInit, Legacy
  <2>2. NoLoop \in LoopRec
    BY <1>1 DEF NoLoop, LoopRec
  <2>3. loop \in [Loops -> LoopRec]
    BY <2>2 DEF ConvInit
  <2>4. kept \in [Convs -> SUBSET (0 .. turns)] /\ cleared \in [Convs -> SUBSET (0 .. turns)]
    BY DEF ConvInit
  <2> QED BY <1>1, <2>1, <2>3, <2>4 DEF ConvTypes, ConvInit
<1>3. LoopsOK
  <2>1. \A l \in Loops : loop[l] = NoLoop
    BY DEF ConvInit
  <2> QED BY <1>2, <2>1, Stopped DEF LoopsOK
<1>4. ASSUME NEW s \in Convs PROVE KeptOK(s) /\ CleanOK(s)
  <2>1. rollout[s] = <<>> /\ kept[s] = {} /\ cleared[s] = {}
    BY DEF ConvInit
  <2> QED BY <2>1 DEF KeptOK, CleanOK, LogClean, Lines
<1> QED BY <1>2, <1>3, <1>4 DEF ConvInv

LEMMA BeginTurnSound ==
    ASSUME ConvInv, NEW l \in Loops, BeginTurn(l)
    PROVE  ConvInv'
<1>1. PICK s \in alive, k \in LoopKinds :
         loop' = [loop EXCEPT ![l] =
            [NoLoop EXCEPT !.conv = s, !.kind = k, !.turn = turns + 1,
                           !.pc = IF k = "chat" /\ rollout[s] = <<>> /\ blob[s] # <<>>
                                  THEN "migrate" ELSE "open",
                           !.window = IF k = "chat" THEN blob[s] ELSE <<>>]]
  BY Zenon DEF BeginTurn
<1>2. /\ turns < MaxTurns /\ turns' = turns + 1
      /\ UNCHANGED <<rollout, blob, alive, convOps, kept, cleared>>
  BY DEF BeginTurn
<1>3. ConvTypes /\ LoopsOK /\ CleanOK(s) /\ s \in Convs
  BY <1>1 DEF ConvInv, ConvTypes
<1>4. PICK pc, w, n : /\ pc = IF k = "chat" /\ rollout[s] = <<>> /\ blob[s] # <<>>
                              THEN "migrate" ELSE "open"
                      /\ w = IF k = "chat" THEN blob[s] ELSE <<>>
                      /\ n = turns + 1
  OBVIOUS
<1>5. PICK c : c = [NoLoop EXCEPT !.conv = s, !.kind = k, !.turn = n, !.pc = pc, !.window = w]
  OBVIOUS
<1>6. loop' = [loop EXCEPT ![l] = c]
  BY <1>1, <1>4, <1>5
<1>7. n \in TurnIds /\ turns' = n /\ turns < n /\ n \in 1 .. n /\ turns \in Nat
  BY <1>2, <1>3, <1>4, TurnFacts, ConvAssumption DEF TurnIds
<1>8. blob[s] \in {<<>>, Legacy} /\ w \in {<<>>, Legacy} /\ w \in Seq(Messages)
  <2>1. blob[s] \in {<<>>, Legacy}
    BY <1>3 DEF ConvTypes
  <2>2. w = blob[s] \/ w = <<>>
    BY <1>4
  <2>3. Legacy \in Seq(Messages) /\ <<>> \in Seq(Messages)
    BY <1>3, TurnFacts
  <2> QED BY <2>1, <2>2, <2>3, Zenon
<1>9. c \in LoopRec /\ c.pc = pc /\ c.conv = s /\ c.turn = n /\ c.window = w
  <2>1. k \in {"chat", "sub"} /\ pc \in {"migrate", "open"} /\ First \in Convs /\ 0 \in TurnIds
    BY <1>3, <1>4, TurnFacts, ConvAssumption
  <2> QED BY <1>3, <1>5, <1>7, <1>8, <2>1 DEF NoLoop, LoopRec
<1>10. n \notin cleared[s]
  <2>1. cleared[s] \subseteq 0 .. turns
    BY <1>3 DEF ConvTypes
  <2> QED BY <1>7, <2>1
<1>11. AllClean(w, cleared[s])
  <2>1. CASE w = <<>>
    BY <2>1 DEF AllClean, Lines
  <2>2. CASE w # <<>>
    <3>1. w = Legacy /\ blob[s] # <<>>
      BY <1>4, <1>8, <2>2
    <3>2. 0 \notin cleared[s]
      BY <1>3, <3>1 DEF CleanOK
    <3> QED BY <1>3, <3>1, <3>2, TurnFacts DEF AllClean, Clean
  <2> QED BY <2>1, <2>2
<1>12. LoopOK(c, cleared[c.conv], n)
  <2>1. pc = "migrate" => w = Legacy
    BY <1>4, <1>8
  <2>2. pc # "run"
    BY <1>4
  <2> QED BY <1>7, <1>9, <1>10, <1>11, <2>1, <2>2 DEF LoopOK
<1>13. loop' \in [Loops -> LoopRec] /\ LoopsOK'
  <2>1. turns' \in TurnIds /\ turns <= turns' /\ LoopOK(c, cleared[c.conv], turns')
    BY <1>7, <1>12
  <2> QED BY <1>2, <1>3, <1>6, <1>9, <2>1, LoopMoves
<1>14. ConvTypes'
  <2>1. 0 .. turns \subseteq 0 .. turns'
    BY <1>7
  <2> QED BY <1>2, <1>3, <1>7, <1>13, <2>1 DEF ConvTypes
<1> QED BY <1>2, <1>13, <1>14, LogsStay DEF ConvInv

-----------------------------------------------------------------------------
(* The steps of a loop. *)

\* The three lines of a turn, as a list.
LEMMA ThreeLines ==
    ASSUME NEW t \in TurnIds, NEW C, t \notin C,
           NEW q, q = <<Boundary(t), Msg("user", t), Msg("assistant", t)>>
    PROVE  /\ q \in Seq(Messages) /\ Len(q) = 3 /\ q # <<>> /\ LogClean(q, C) /\ AllClean(q, C)
           /\ Spoken(q, {t})
<1>1. PICK a, b, c : a = Boundary(t) /\ b = Msg("user", t) /\ c = Msg("assistant", t)
  OBVIOUS
<1>2. /\ a \in Messages /\ a.turn = t /\ a.covers = {}
      /\ b \in Messages /\ b.turn = t /\ b.covers = {} /\ b.kind = "msg" /\ b.role = "user"
      /\ c \in Messages /\ c.turn = t /\ c.covers = {} /\ c.kind = "msg" /\ c.role = "assistant"
  BY <1>1, MessageFacts
<1>3. q = <<a, b, c>>
  BY <1>1
<1>4. q \in Seq(Messages) /\ Len(q) = 3 /\ q # <<>> /\ q[2] = b /\ q[3] = c
  BY <1>2, <1>3
<1>5. \A m \in Lines(q) : m = a \/ m = b \/ m = c
  BY <1>3 DEF Lines
<1>6. LogClean(q, C) /\ AllClean(q, C)
  BY <1>2, <1>5 DEF LogClean, AllClean, Clean
<1>7. 2 \in 2 .. Len(q) /\ 3 \in 2 .. Len(q)
  BY <1>4
<1> QED BY <1>2, <1>4, <1>6, <1>7 DEF Spoken

LEMMA Three ==
    ASSUME NEW S, NEW a \in S, NEW b \in S, NEW c \in S
    PROVE  <<a>> \o <<b, c>> = <<a, b, c>> /\ <<a, b>> \o <<c>> = <<a, b, c>>
<1>1. PICK t : t = <<a, b, c>>
  OBVIOUS
<1>2. t \in Seq(S) /\ Len(t) = 3 /\ t[1] = a /\ t[2] = b /\ t[3] = c
  BY <1>1
<1>3. ASSUME NEW s \in Seq(S), Len(s) = 3, s[1] = a, s[2] = b, s[3] = c PROVE s = t
  <2>1. \A i \in 1 .. 3 : s[i] = t[i]
    BY <1>2, <1>3
  <2> QED BY <1>2, <1>3, <2>1, SeqEqual
<1>4. <<a>> \o <<b, c>> = t
  <2>1. PICK p, q, s : p = <<a>> /\ q = <<b, c>> /\ s = p \o q
    OBVIOUS
  <2>2. p \in Seq(S) /\ q \in Seq(S) /\ Len(p) = 1 /\ Len(q) = 2 /\ p[1] = a /\ q[1] = b /\ q[2] = c
    BY <2>1
  <2>3. s \in Seq(S) /\ Len(s) = 3 /\ s[1] = a /\ s[2] = b /\ s[3] = c
    BY <2>1, <2>2
  <2> QED BY <1>3, <2>1, <2>3
<1>5. <<a, b>> \o <<c>> = t
  <2>1. PICK p, q, s : p = <<a, b>> /\ q = <<c>> /\ s = p \o q
    OBVIOUS
  <2>2. p \in Seq(S) /\ q \in Seq(S) /\ Len(p) = 2 /\ Len(q) = 1 /\ p[1] = a /\ p[2] = b /\ q[1] = c
    BY <2>1
  <2>3. s \in Seq(S) /\ Len(s) = 3 /\ s[1] = a /\ s[2] = b /\ s[3] = c
    BY <2>1, <2>2
  <2> QED BY <1>3, <2>1, <2>3
<1> QED BY <1>1, <1>4, <1>5

LEMMA MigrateSound ==
    ASSUME ConvInv, NEW l \in Loops, Migrate(l)
    PROVE  ConvInv'
<1>0. PICK s, w : s = loop[l].conv /\ w = loop[l].window
  OBVIOUS
<1>1. /\ loop[l].pc = "migrate"
      /\ rollout' = [rollout EXCEPT ![s] = AppendMany(@, <<Boundary(0)>> \o w)]
      /\ kept' = [kept EXCEPT ![s] = @ \cup {0}]
      /\ loop' = [loop EXCEPT ![l].pc = "migrated"]
      /\ UNCHANGED <<blob, alive, turns, convOps, cleared>>
  BY <1>0 DEF Migrate, LoopAt
<1>2. ConvTypes /\ LoopsOK
  BY DEF ConvInv
<1>3. loop[l] \in LoopRec /\ LoopOK(loop[l], cleared[loop[l].conv], turns)
  BY <1>2 DEF ConvTypes, LoopsOK
<1>4. s \in Convs /\ w = Legacy /\ AllClean(w, cleared[s])
  BY <1>0, <1>1, <1>3 DEF LoopOK, LoopRec
<1>5. 0 \notin cleared[s] /\ 0 \in TurnIds
  <2>1. PICK m : m = Msg("user", 0)
    OBVIOUS
  <2>2. m \in Lines(w) /\ m.turn = 0
    BY <1>2, <1>4, <2>1, TurnFacts, MessageFacts DEF Lines, Legacy
  <2> QED BY <1>2, <1>4, <2>2, TurnFacts DEF AllClean, Clean
<1>6. PICK items : items = <<Boundary(0)>> \o w
  OBVIOUS
<1>7. items = <<Boundary(0), Msg("user", 0), Msg("assistant", 0)>>
  <2>1. PICK a, b, d : a = Boundary(0) /\ b = Msg("user", 0) /\ d = Msg("assistant", 0)
    OBVIOUS
  <2>2. a \in Messages /\ b \in Messages /\ d \in Messages
    BY <1>5, <2>1, MessageFacts
  <2>3. w = <<b, d>>
    BY <1>4, <2>1 DEF Legacy
  <2>4. <<a>> \o <<b, d>> = <<a, b, d>>
    BY <2>2, Three
  <2> QED BY <1>6, <2>1, <2>3, <2>4, Zenon
<1>8. PICK z : z = 0
  OBVIOUS
<1>9. /\ items \in Seq(Messages) /\ items # <<>> /\ LogClean(items, cleared[s])
      /\ Spoken(items, {z})
  <2>0. PICK C : C = cleared[s]
    OBVIOUS
  <2>1. z \in TurnIds /\ z \notin C
    BY <1>5, <1>8, <2>0
  <2>2. items = <<Boundary(z), Msg("user", z), Msg("assistant", z)>>
    BY <1>7, <1>8, Zenon
  <2>3. /\ items \in Seq(Messages) /\ items # <<>> /\ LogClean(items, C)
        /\ Spoken(items, {z})
    BY <2>1, <2>2, ThreeLines
  <2> QED BY <2>0, <2>3
<1>10. PICK k : k = {z}
  OBVIOUS
<1>11. /\ rollout' \in [Convs -> Seq(Messages)] /\ kept' \in [Convs -> SUBSET (0 .. turns)]
       /\ \A x \in Convs : KeptOK(x)' /\ CleanOK(x)'
  <2>0. PICK a : a = AppendMany(rollout[s], items)
    OBVIOUS
  <2>1. rollout' = [rollout EXCEPT ![s] = a]
    BY <1>1, <1>6, <2>0
  <2>2. kept' = [kept EXCEPT ![s] = kept[s] \cup k] /\ k \in SUBSET (0 .. turns)
    BY <1>1, <1>2, <1>8, <1>10, TurnFacts
  <2>3. Spoken(items, k)
    BY <1>9, <1>10
  <2>4. UNCHANGED <<blob, cleared, turns>> /\ s \in Convs /\ items \in Seq(Messages) /\ items # <<>>
        /\ LogClean(items, cleared[s])
    BY <1>1, <1>4, <1>9
  <2> QED BY <2>0, <2>1, <2>2, <2>3, <2>4, LogGrows
<1>12. PICK c : c = [loop[l] EXCEPT !.pc = "migrated"]
  OBVIOUS
<1>13. /\ c \in LoopRec /\ c.pc = "migrated" /\ c.conv = loop[l].conv /\ c.turn = loop[l].turn
       /\ c.window = loop[l].window
  BY <1>3, <1>12 DEF LoopRec
<1>14. LoopOK(c, cleared[c.conv], turns)
  BY <1>1, <1>3, <1>13 DEF LoopOK
<1>15. loop' \in [Loops -> LoopRec] /\ LoopsOK'
  <2>1. loop' = [loop EXCEPT ![l] = c]
    BY <1>1, <1>12
  <2>2. turns' \in TurnIds /\ turns <= turns' /\ LoopOK(c, cleared[c.conv], turns') /\ cleared' = cleared
    BY <1>1, <1>2, <1>14, TurnFacts DEF ConvTypes
  <2> QED BY <1>2, <1>13, <2>1, <2>2, LoopMoves
<1>16. ConvTypes'
  BY <1>1, <1>2, <1>11, <1>15 DEF ConvTypes
<1> QED BY <1>11, <1>15, <1>16 DEF ConvInv

\* A loop moves and the logs stay.
LEMMA OnlyLoop ==
    ASSUME ConvInv, NEW l \in Loops, NEW c \in LoopRec, loop' = [loop EXCEPT ![l] = c],
           LoopOK(c, cleared[c.conv], turns),
           UNCHANGED <<rollout, blob, alive, turns, kept, cleared>>
    PROVE  ConvInv'
<1>1. ConvTypes /\ LoopsOK
  BY DEF ConvInv
<1>2. loop' \in [Loops -> LoopRec] /\ LoopsOK'
  <2>1. turns' \in TurnIds /\ turns <= turns' /\ LoopOK(c, cleared[c.conv], turns') /\ cleared' = cleared
    BY <1>1, TurnFacts DEF ConvTypes
  <2> QED BY <1>1, <2>1, LoopMoves
<1>3. ConvTypes'
  BY <1>1, <1>2 DEF ConvTypes
<1> QED BY <1>2, <1>3, LogsStay DEF ConvInv

LEMMA DropBlobSound ==
    ASSUME ConvInv, NEW l \in Loops, DropBlob(l)
    PROVE  ConvInv'
<1>1. /\ loop[l].pc = "migrated"
      /\ blob' = [blob EXCEPT ![loop[l].conv] = <<>>]
      /\ loop' = [loop EXCEPT ![l].pc = "open"]
      /\ UNCHANGED <<rollout, alive, turns, convOps, kept, cleared>>
  BY DEF DropBlob, LoopAt
<1>2. ConvTypes /\ LoopsOK /\ \A s \in Convs : KeptOK(s) /\ CleanOK(s)
  BY DEF ConvInv
<1>3. loop[l] \in LoopRec /\ LoopOK(loop[l], cleared[loop[l].conv], turns)
  BY <1>2 DEF ConvTypes, LoopsOK
<1>4. PICK c : c = [loop[l] EXCEPT !.pc = "open"]
  OBVIOUS
<1>5. /\ c \in LoopRec /\ c.pc = "open" /\ c.conv = loop[l].conv /\ c.turn = loop[l].turn
      /\ c.window = loop[l].window
  BY <1>3, <1>4 DEF LoopRec
<1>6. LoopOK(c, cleared[c.conv], turns)
  BY <1>1, <1>3, <1>5 DEF LoopOK
<1>7. loop' \in [Loops -> LoopRec] /\ LoopsOK'
  <2>1. loop' = [loop EXCEPT ![l] = c]
    BY <1>1, <1>4
  <2>2. turns' \in TurnIds /\ turns <= turns' /\ LoopOK(c, cleared[c.conv], turns') /\ cleared' = cleared
    BY <1>1, <1>2, <1>6, TurnFacts DEF ConvTypes
  <2> QED BY <1>2, <1>5, <2>1, <2>2, LoopMoves
<1>8. blob' \in [Convs -> {<<>>, Legacy}] /\ \A s \in Convs : blob'[s] # <<>> => blob[s] # <<>>
  BY <1>1, <1>2 DEF ConvTypes
<1>9. ConvTypes'
  BY <1>1, <1>2, <1>7, <1>8 DEF ConvTypes
<1>10. \A s \in Convs : KeptOK(s)' /\ CleanOK(s)'
  BY <1>1, <1>2, <1>8 DEF KeptOK, CleanOK
<1> QED BY <1>7, <1>9, <1>10 DEF ConvInv

LEMMA OpenLoopSound ==
    ASSUME ConvInv, NEW l \in Loops, OpenLoop(l)
    PROVE  ConvInv'
<1>0. PICK x : x = loop[l]
  OBVIOUS
<1>1. PICK past, a, b : /\ past = IF x.kind = "chat" THEN History(rollout[x.conv]) ELSE <<>>
                        /\ a = <<Msg("system", x.turn)>> /\ b = <<Msg("user", x.turn)>>
  OBVIOUS
<1>2. PICK w : w = (a \o past) \o b
  OBVIOUS
<1>3. /\ x.pc = "open"
      /\ loop' = [loop EXCEPT ![l].pc = "run", ![l].window = w]
      /\ UNCHANGED <<rollout, blob, alive, turns, convOps, kept, cleared>>
  BY <1>0, <1>1, <1>2 DEF OpenLoop, LoopAt
<1>4. ConvTypes /\ LoopsOK /\ \A s \in Convs : KeptOK(s) /\ CleanOK(s)
  BY DEF ConvInv
<1>5. x \in LoopRec /\ LoopOK(x, cleared[x.conv], turns)
  BY <1>0, <1>4 DEF ConvTypes, LoopsOK
<1>6. x.conv \in Convs /\ x.turn \in TurnIds /\ x.turn \in 1 .. turns /\ x.turn \notin cleared[x.conv]
  BY <1>3, <1>5 DEF LoopRec, LoopOK
<1>7. PICK q, C : q = rollout[x.conv] /\ C = cleared[x.conv]
  OBVIOUS
<1>8. q \in Seq(Messages) /\ LogClean(q, C)
  BY <1>4, <1>6, <1>7 DEF ConvTypes, CleanOK
<1>9. past \in Seq(Messages) /\ AllClean(past, C)
  <2>1. /\ History(q) \in Seq(Messages)
        /\ \A m \in Lines(History(q)) : m \in Lines(q) /\ Parses(m)
    BY <1>8, HistoryLines
  <2>2. AllClean(History(q), C)
    BY <1>8, <2>1 DEF AllClean, LogClean
  <2>3. past = History(q) \/ past = <<>>
    BY <1>1, <1>7
  <2>4. AllClean(<<>>, C) /\ <<>> \in Seq(Messages)
    BY DEF AllClean, Lines
  <2> QED BY <2>1, <2>2, <2>3, <2>4, Zenon
<1>10. PICK p, u : p = Msg("system", x.turn) /\ u = Msg("user", x.turn)
  OBVIOUS
<1>11. /\ p \in Messages /\ p.turn = x.turn /\ p.covers = {}
       /\ u \in Messages /\ u.turn = x.turn /\ u.covers = {}
  BY <1>6, <1>10, MessageFacts
<1>12. a = <<p>> /\ b = <<u>>
  BY <1>1, <1>10
<1>13. /\ a \in Seq(Messages) /\ \A m : m \in Lines(a) <=> m = p
       /\ b \in Seq(Messages) /\ \A m : m \in Lines(b) <=> m = u
  BY <1>11, <1>12, LinesOfFew
<1>14. a # <<>> /\ a[1] = p
  BY <1>12
<1>15. PICK h : h = a \o past
  OBVIOUS
<1>16. /\ h \in Seq(Messages) /\ \A m : m \in Lines(h) <=> m \in Lines(a) \/ m \in Lines(past)
       /\ h # <<>> /\ h[1] = a[1]
  BY <1>9, <1>13, <1>14, <1>15, LinesJoined
<1>17. /\ h \o b \in Seq(Messages) /\ \A m : m \in Lines(h \o b) <=> m \in Lines(h) \/ m \in Lines(b)
       /\ (h \o b) # <<>> /\ (h \o b)[1] = h[1]
  BY <1>13, <1>16, LinesJoined
<1>18. w = h \o b
  BY <1>2, <1>15
<1>19. w \in Seq(Messages) /\ w # <<>> /\ w[1] = p
  BY <1>14, <1>16, <1>17, <1>18
<1>20. AllClean(w, C)
  <2>1. Clean(p, C) /\ Clean(u, C)
    BY <1>6, <1>7, <1>11 DEF Clean
  <2> QED BY <1>9, <1>13, <1>16, <1>17, <1>18, <2>1 DEF AllClean
<1>21. PICK c : c = [x EXCEPT !.pc = "run", !.window = w]
  OBVIOUS
<1>22. c \in LoopRec /\ c.pc = "run" /\ c.conv = x.conv /\ c.turn = x.turn /\ c.window = w
  BY <1>5, <1>19, <1>21 DEF LoopRec
<1>23. LoopOK(c, cleared[c.conv], turns)
  BY <1>6, <1>7, <1>10, <1>19, <1>20, <1>22 DEF LoopOK
<1>24. loop' = [loop EXCEPT ![l] = c]
  BY <1>0, <1>3, <1>21, <1>4 DEF ConvTypes
<1> QED BY <1>3, <1>22, <1>23, <1>24, OnlyLoop

LEMMA ToolStepSound ==
    ASSUME ConvInv, NEW l \in Loops, ToolStep(l)
    PROVE  ConvInv'
<1>0. PICK x : x = loop[l]
  OBVIOUS
<1>1. PICK p, u : p = Msg("assistant", x.turn) /\ u = [Msg("tool", x.turn) EXCEPT !.size = 2]
  OBVIOUS
<1>2. PICK e, w, n : e = <<p, u>> /\ w = x.window \o e /\ n = x.steps + 1
  OBVIOUS
<1>3. /\ x.pc = "run" /\ loop' = [loop EXCEPT ![l].steps = n, ![l].window = w]
      /\ UNCHANGED <<rollout, blob, alive, turns, convOps, kept, cleared>>
  BY <1>0, <1>1, <1>2 DEF ToolStep, LoopAt
<1>4. ConvTypes /\ LoopsOK
  BY DEF ConvInv
<1>5. x \in LoopRec /\ LoopOK(x, cleared[x.conv], turns)
  BY <1>0, <1>4 DEF ConvTypes, LoopsOK
<1>6. PICK C : C = cleared[x.conv]
  OBVIOUS
<1>7. /\ x.turn \in TurnIds /\ x.turn \in 1 .. turns /\ x.turn \notin C
      /\ x.window \in Seq(Messages) /\ x.window # <<>> /\ x.window[1] = Msg("system", x.turn)
      /\ AllClean(x.window, C)
  BY <1>3, <1>5, <1>6 DEF LoopRec, LoopOK
<1>8. /\ p \in Messages /\ p.turn = x.turn /\ p.covers = {}
  BY <1>1, <1>7, MessageFacts
<1>9. /\ u \in Messages /\ u.turn = x.turn /\ u.covers = {}
  <2>1. PICK m : m = Msg("tool", x.turn)
    OBVIOUS
  <2>2. m \in Messages /\ m.turn = x.turn /\ m.covers = {}
    BY <1>7, <2>1, MessageFacts
  <2>3. u = [m EXCEPT !.size = 2]
    BY <1>1, <2>1
  <2> QED BY <2>2, <2>3 DEF Messages
<1>10. e \in Seq(Messages) /\ \A m \in Lines(e) : m = p \/ m = u
  BY <1>2, <1>8, <1>9 DEF Lines
<1>11. PICK v : v = x.window
  OBVIOUS
<1>12. v \in Seq(Messages) /\ v # <<>>
  BY <1>7, <1>11
<1>13. /\ v \o e \in Seq(Messages) /\ \A m : m \in Lines(v \o e) <=> m \in Lines(v) \/ m \in Lines(e)
       /\ (v \o e) # <<>> /\ (v \o e)[1] = v[1]
  BY <1>10, <1>12, LinesJoined
<1>14. w = v \o e
  BY <1>2, <1>11
<1>15. AllClean(w, C)
  <2>1. Clean(p, C) /\ Clean(u, C)
    BY <1>7, <1>8, <1>9 DEF Clean
  <2> QED BY <1>7, <1>10, <1>11, <1>13, <1>14, <2>1 DEF AllClean
<1>16. PICK c : c = [x EXCEPT !.steps = n, !.window = w]
  OBVIOUS
<1>17. c \in LoopRec /\ c.pc = "run" /\ c.conv = x.conv /\ c.turn = x.turn /\ c.window = w
  <2>1. n \in Nat
    BY <1>2, <1>5 DEF LoopRec
  <2> QED BY <1>3, <1>5, <1>13, <1>14, <1>16, <2>1 DEF LoopRec
<1>18. w # <<>> /\ w[1] = Msg("system", x.turn)
  BY <1>7, <1>11, <1>13, <1>14
<1>19. LoopOK(c, cleared[c.conv], turns)
  BY <1>6, <1>7, <1>15, <1>17, <1>18 DEF LoopOK
<1>20. loop' = [loop EXCEPT ![l] = c]
  BY <1>0, <1>3, <1>16, <1>4 DEF ConvTypes
<1> QED BY <1>3, <1>17, <1>19, <1>20, OnlyLoop

LEMMA FailLoopSound ==
    ASSUME ConvInv, NEW l \in Loops, FailLoop(l)
    PROVE  ConvInv'
<1>1. /\ loop' = [loop EXCEPT ![l] = NoLoop]
      /\ UNCHANGED <<rollout, blob, alive, turns, convOps, kept, cleared>>
  BY DEF FailLoop
<1>2. PICK c : c = NoLoop
  OBVIOUS
<1>3. c \in LoopRec /\ LoopOK(c, cleared[c.conv], turns)
  BY <1>2, Stopped DEF ConvInv
<1> QED BY <1>1, <1>2, <1>3, OnlyLoop

\* A loop moves and writes to the log of its session.
LEMMA LoopWrites ==
    ASSUME ConvInv, NEW l \in Loops, NEW c \in LoopRec, loop' = [loop EXCEPT ![l] = c],
           LoopOK(c, cleared[c.conv], turns),
           rollout' \in [Convs -> Seq(Messages)], kept' \in [Convs -> SUBSET (0 .. turns)],
           \A x \in Convs : KeptOK(x)' /\ CleanOK(x)',
           UNCHANGED <<blob, alive, turns, cleared>>
    PROVE  ConvInv'
<1>1. ConvTypes /\ LoopsOK
  BY DEF ConvInv
<1>2. loop' \in [Loops -> LoopRec] /\ LoopsOK'
  <2>1. turns' \in TurnIds /\ turns <= turns' /\ LoopOK(c, cleared[c.conv], turns') /\ cleared' = cleared
    BY <1>1, TurnFacts DEF ConvTypes
  <2> QED BY <1>1, <2>1, LoopMoves
<1>3. ConvTypes'
  BY <1>1, <1>2 DEF ConvTypes
<1> QED BY <1>2, <1>3 DEF ConvInv

LEMMA CompactLoopSound ==
    ASSUME ConvInv, NEW l \in Loops, CompactLoop(l)
    PROVE  ConvInv'
<1>0. PICK x, d, cut, sum : /\ x = loop[l] /\ d = Decay(x.window) /\ cut = CutHistory(d)
                            /\ sum = Summary(x.turn, Mentioned(SubSeq(d, 2, cut)))
  OBVIOUS
<1>1. PICK v, w, a : /\ v = HardDrop(d) /\ w = HardDrop(<<d[1], sum>> \o SubSeq(d, cut + 1, Len(d)))
                     /\ a = AppendMany(rollout[x.conv], <<sum>>)
  OBVIOUS
<1>2. /\ x.pc = "run"
      /\ \/ loop' = [loop EXCEPT ![l].window = v] /\ UNCHANGED rollout
         \/ loop' = [loop EXCEPT ![l].window = w] /\ rollout' = [rollout EXCEPT ![x.conv] = a]
      /\ UNCHANGED <<blob, alive, turns, convOps, kept, cleared>>
  BY <1>0, <1>1 DEF CompactLoop, LoopAt
<1>3. ConvTypes /\ LoopsOK /\ loop \in [Loops -> LoopRec]
  BY DEF ConvInv, ConvTypes
<1>4. x \in LoopRec /\ LoopOK(x, cleared[x.conv], turns)
  BY <1>0, <1>3 DEF LoopsOK
<1>5. PICK C, s, t, u : C = cleared[x.conv] /\ s = x.conv /\ t = x.turn /\ u = x.window
  OBVIOUS
<1>6. /\ s \in Convs /\ t \in TurnIds /\ t \in 1 .. turns /\ t \notin C
      /\ u \in Seq(Messages) /\ u # <<>> /\ u[1] = Msg("system", t) /\ AllClean(u, C)
  BY <1>2, <1>4, <1>5 DEF LoopRec, LoopOK
<1>7. u[1].role # "tool"
  BY <1>6, MessageFacts
<1>8. d = Decay(u) /\ sum = Summary(t, Mentioned(SubSeq(d, 2, cut)))
  BY <1>0, <1>5
<1>9. /\ HardDrop(d) \in Seq(Messages) /\ HardDrop(d) # <<>> /\ HardDrop(d)[1] = u[1]
      /\ AllClean(HardDrop(d), C)
      /\ sum \in Messages /\ sum.kind = "compaction" /\ Clean(sum, C)
      /\ \A y : y = HardDrop(<<d[1], sum>> \o SubSeq(d, cut + 1, Len(d))) =>
           y \in Seq(Messages) /\ y # <<>> /\ y[1] = u[1] /\ AllClean(y, C)
  BY <1>0, <1>6, <1>7, <1>8, Compacted
<1>10. /\ v \in Seq(Messages) /\ v # <<>> /\ v[1] = u[1] /\ AllClean(v, C)
       /\ w \in Seq(Messages) /\ w # <<>> /\ w[1] = u[1] /\ AllClean(w, C)
  BY <1>1, <1>9
<1>11. ASSUME NEW z, z = v \/ z = w
       PROVE  /\ [x EXCEPT !.window = z] \in LoopRec
              /\ LoopOK([x EXCEPT !.window = z], cleared[[x EXCEPT !.window = z].conv], turns)
  <2>1. PICK c : c = [x EXCEPT !.window = z]
    OBVIOUS
  <2>2. z \in Seq(Messages) /\ z # <<>> /\ z[1] = u[1] /\ AllClean(z, C)
    BY <1>10, <1>11
  <2>3. c \in LoopRec /\ c.pc = "run" /\ c.conv = x.conv /\ c.turn = x.turn /\ c.window = z
    BY <1>2, <1>4, <2>1, <2>2 DEF LoopRec
  <2>4. LoopOK(c, cleared[c.conv], turns)
    BY <1>5, <1>6, <2>2, <2>3 DEF LoopOK
  <2> QED BY <2>1, <2>3, <2>4
<1>12. CASE loop' = [loop EXCEPT ![l].window = v] /\ UNCHANGED rollout
  <2>1. PICK c : c = [x EXCEPT !.window = v]
    OBVIOUS
  <2>2. c \in LoopRec /\ LoopOK(c, cleared[c.conv], turns)
    BY <1>11, <2>1
  <2>3. loop' = [loop EXCEPT ![l] = c]
    BY <1>0, <1>3, <1>12, <2>1
  <2> QED BY <1>2, <1>12, <2>2, <2>3, OnlyLoop
<1>13. CASE loop' = [loop EXCEPT ![l].window = w] /\ rollout' = [rollout EXCEPT ![x.conv] = a]
  <2>1. PICK c : c = [x EXCEPT !.window = w]
    OBVIOUS
  <2>2. c \in LoopRec /\ LoopOK(c, cleared[c.conv], turns)
    BY <1>11, <2>1
  <2>3. loop' = [loop EXCEPT ![l] = c]
    BY <1>0, <1>3, <1>13, <2>1
  <2>4. PICK items : items = <<sum>>
    OBVIOUS
  <2>5. items \in Seq(Messages) /\ items # <<>> /\ \A m : m \in Lines(items) <=> m = sum
    BY <1>9, <2>4, LinesOfFew
  <2>6. LogClean(items, C)
    BY <1>9, <2>5 DEF LogClean
  <2>7. PICK k : k = {}
    OBVIOUS
  <2>8. k \in SUBSET (0 .. turns) /\ Spoken(items, k)
    BY <2>7 DEF Spoken
  <2>9. kept' = [kept EXCEPT ![s] = kept[s] \cup k]
    BY <1>2, <1>3, <1>6, <2>7 DEF ConvTypes
  <2>10. a = AppendMany(rollout[s], items) /\ rollout' = [rollout EXCEPT ![s] = a]
         /\ LogClean(items, cleared[s]) /\ UNCHANGED <<blob, cleared, turns>>
    BY <1>1, <1>2, <1>5, <1>13, <2>4, <2>6
  <2>11. /\ rollout' \in [Convs -> Seq(Messages)] /\ kept' \in [Convs -> SUBSET (0 .. turns)]
         /\ \A y \in Convs : KeptOK(y)' /\ CleanOK(y)'
    BY <1>6, <2>5, <2>8, <2>9, <2>10, LogGrows
  <2> QED BY <1>2, <2>2, <2>3, <2>11, LoopWrites
<1> QED BY <1>2, <1>12, <1>13

LEMMA FinishLoopSound ==
    ASSUME ConvInv, NEW l \in Loops, FinishLoop(l)
    PROVE  ConvInv'
<1>0. PICK x, own : x = loop[l] /\ own = <<Msg("assistant", x.turn)>>
  OBVIOUS
<1>1. /\ x.pc = "run" /\ loop' = [loop EXCEPT ![l] = NoLoop]
      /\ UNCHANGED <<blob, alive, turns, convOps, cleared>>
  BY <1>0 DEF FinishLoop, LoopAt
<1>2. PICK c : c = NoLoop
  OBVIOUS
<1>3. c \in LoopRec /\ LoopOK(c, cleared[c.conv], turns) /\ loop' = [loop EXCEPT ![l] = c]
  BY <1>1, <1>2, Stopped DEF ConvInv
<1>4. CASE x.kind # "chat"
  <2>1. UNCHANGED <<rollout, kept>>
    BY <1>0, <1>4 DEF FinishLoop
  <2> QED BY <1>1, <1>3, <2>1, OnlyLoop
<1>5. CASE x.kind = "chat"
  <2>1. PICK s, t, items, a : /\ s = x.conv /\ t = x.turn /\ items = TurnLines(x.turn, own)
                              /\ a = AppendMany(rollout[x.conv], items)
    OBVIOUS
  <2>2. rollout' = [rollout EXCEPT ![s] = a] /\ kept' = [kept EXCEPT ![s] = kept[s] \cup {t}]
    BY <1>0, <1>5, <2>1 DEF FinishLoop
  <2>3. ConvTypes /\ LoopsOK
    BY DEF ConvInv
  <2>4. x \in LoopRec /\ LoopOK(x, cleared[x.conv], turns)
    BY <1>0, <2>3 DEF ConvTypes, LoopsOK
  <2>5. PICK C : C = cleared[s]
    OBVIOUS
  <2>6. s \in Convs /\ t \in TurnIds /\ t \in 1 .. turns /\ t \notin C
    BY <1>1, <2>1, <2>4, <2>5 DEF LoopRec, LoopOK
  <2>7. items = <<Boundary(t), Msg("user", t), Msg("assistant", t)>>
    <3>1. PICK p, q, r : p = Boundary(t) /\ q = Msg("user", t) /\ r = Msg("assistant", t)
      OBVIOUS
    <3>2. p \in Messages /\ q \in Messages /\ r \in Messages
      BY <2>6, <3>1, MessageFacts
    <3>3. <<p, q>> \o <<r>> = <<p, q, r>>
      BY <3>2, Three
    <3>4. items = <<p, q>> \o <<r>>
      BY <1>0, <2>1, <3>1 DEF TurnLines
    <3> QED BY <3>1, <3>3, <3>4, Zenon
  <2>8. items \in Seq(Messages) /\ items # <<>> /\ LogClean(items, C) /\ Spoken(items, {t})
    BY <2>6, <2>7, ThreeLines
  <2>9. PICK k : k = {t}
    OBVIOUS
  <2>10. /\ k \in SUBSET (0 .. turns) /\ kept' = [kept EXCEPT ![s] = kept[s] \cup k]
         /\ Spoken(items, k) /\ a = AppendMany(rollout[s], items)
         /\ LogClean(items, cleared[s]) /\ UNCHANGED <<blob, cleared, turns>>
    <3>1. k \in SUBSET (0 .. turns)
      BY <2>3, <2>6, <2>9, TurnFacts
    <3> QED BY <1>1, <2>1, <2>2, <2>5, <2>8, <2>9, <3>1
  <2>11. /\ rollout' \in [Convs -> Seq(Messages)] /\ kept' \in [Convs -> SUBSET (0 .. turns)]
         /\ \A y \in Convs : KeptOK(y)' /\ CleanOK(y)'
    BY <2>2, <2>6, <2>8, <2>10, LogGrows
  <2> QED BY <1>1, <1>3, <2>11, LoopWrites
<1> QED BY <1>4, <1>5

-----------------------------------------------------------------------------
(* The other operations of a session. *)

\* Log, blob and appended turns of s go; what was cleared quietly is remembered.
LEMMA Forgotten ==
    ASSUME ConvInv, NEW s \in Convs, Forgets(s), rollout' = [rollout EXCEPT ![s] = <<>>],
           blob' = ClearedBlob(s), alive' \subseteq Convs, UNCHANGED <<loop, turns>>
    PROVE  ConvInv'
<1>1. ConvTypes /\ LoopsOK /\ \A x \in Convs : KeptOK(x) /\ CleanOK(x)
  BY DEF ConvInv
<1>2. PICK D : D = IF ConvQuiet(s) THEN cleared[s] \cup kept[s] \cup (IF blob[s] # <<>> THEN {0} ELSE {})
                   ELSE cleared[s] \ kept[s]
  OBVIOUS
<1>3. cleared' = [cleared EXCEPT ![s] = D] /\ kept' = [kept EXCEPT ![s] = {}]
  BY <1>2 DEF Forgets
<1>4. D \subseteq 0 .. turns /\ (~ConvQuiet(s) => D \subseteq cleared[s])
  BY <1>1, <1>2, TurnFacts DEF ConvTypes
<1>5. blob' \in [Convs -> {<<>>, Legacy}] /\ blob'[s] = <<>> /\ \A x \in Convs \ {s} : blob'[x] = blob[x]
  BY <1>1 DEF ClearedBlob, ConvTypes
<1>6. /\ rollout' \in [Convs -> Seq(Messages)] /\ rollout'[s] = <<>>
      /\ \A x \in Convs \ {s} : rollout'[x] = rollout[x]
  BY <1>1 DEF ConvTypes
<1>7. /\ kept' \in [Convs -> SUBSET (0 .. turns)] /\ kept'[s] = {}
      /\ \A x \in Convs \ {s} : kept'[x] = kept[x]
      /\ cleared' \in [Convs -> SUBSET (0 .. turns)] /\ cleared'[s] = D
      /\ \A x \in Convs \ {s} : cleared'[x] = cleared[x]
  BY <1>1, <1>3, <1>4 DEF ConvTypes
<1>8. ConvTypes'
  BY <1>1, <1>5, <1>6, <1>7 DEF ConvTypes
<1>9. ASSUME NEW x \in Convs PROVE KeptOK(x)' /\ CleanOK(x)'
  <2>1. CASE x = s
    <3>1. LogClean(<<>>, cleared'[s])
      BY DEF LogClean, Lines
    <3> QED BY <1>5, <1>6, <1>7, <2>1, <3>1 DEF KeptOK, CleanOK
  <2>2. CASE x # s
    <3>1. rollout'[x] = rollout[x] /\ kept'[x] = kept[x] /\ blob'[x] = blob[x] /\ cleared'[x] = cleared[x]
      BY <1>5, <1>6, <1>7, <2>2
    <3> QED BY <1>1, <3>1 DEF KeptOK, CleanOK
  <2> QED BY <2>1, <2>2
<1>10. LoopsOK'
  <2>1. ASSUME NEW l \in Loops PROVE LoopOK(loop[l], cleared'[loop[l].conv], turns)
    <3>1. LoopOK(loop[l], cleared[loop[l].conv], turns) /\ loop[l] \in LoopRec /\ loop[l].conv \in Convs
      BY <1>1 DEF LoopsOK, ConvTypes, LoopRec
    <3>2. CASE loop[l].conv # s
      <4>1. cleared'[loop[l].conv] = cleared[loop[l].conv]
        BY <1>7, <3>1, <3>2
      <4> QED BY <3>1, <4>1
    <3>3. CASE loop[l].conv = s /\ ConvQuiet(s)
      <4>1. loop[l].pc = "idle"
        BY <3>3 DEF ConvQuiet, LoopAt
      <4> QED BY <4>1 DEF LoopOK
    <3>4. CASE loop[l].conv = s /\ ~ConvQuiet(s)
      <4>1. PICK C, E : C = cleared[loop[l].conv] /\ E = cleared'[loop[l].conv]
        OBVIOUS
      <4>2. E \subseteq C
        BY <1>4, <1>7, <3>4, <4>1
      <4>3. turns \in Nat /\ turns <= turns /\ LoopOK(loop[l], C, turns)
        BY <1>1, <3>1, <4>1, TurnFacts
      <4>4. LoopOK(loop[l], E, turns)
        BY <3>1, <4>2, <4>3, LoopOKStays
      <4> QED BY <4>1, <4>4
    <3> QED BY <3>2, <3>3, <3>4
  <2> QED BY <2>1 DEF LoopsOK
<1> QED BY <1>8, <1>9, <1>10 DEF ConvInv

LEMMA RevertSound ==
    ASSUME ConvInv, NEW s \in Convs, Revert(s)
    PROVE  ConvInv'
<1>1. /\ rollout' = [rollout EXCEPT ![s] = <<>>] /\ blob' = ClearedBlob(s) /\ Forgets(s)
      /\ UNCHANGED <<alive, loop, turns>>
  BY DEF Revert
<1>2. alive' \subseteq Convs
  BY <1>1 DEF ConvInv, ConvTypes
<1> QED BY <1>1, <1>2, Forgotten

LEMMA DeleteSound ==
    ASSUME ConvInv, NEW s \in Convs, Delete(s)
    PROVE  ConvInv'
<1>1. /\ rollout' = [rollout EXCEPT ![s] = <<>>] /\ blob' = ClearedBlob(s) /\ Forgets(s)
      /\ alive' = alive \ {s} /\ UNCHANGED <<loop, turns>>
  BY DEF Delete
<1>2. alive' \subseteq Convs
  BY <1>1 DEF ConvInv, ConvTypes
<1> QED BY <1>1, <1>2, Forgotten

\* The copy of a session: what it starts with is what its source has by then.
LEMMA ForkSound ==
    ASSUME ConvInv, NEW s \in Convs, NEW t \in Convs, Fork(s, t)
    PROVE  ConvInv'
<1>1. PICK moved : moved = (rollout[s] = <<>> /\ blob[s] # <<>>)
  OBVIOUS
<1>2. PICK log, ks : /\ log = IF moved THEN <<Boundary(0)>> \o blob[s] ELSE rollout[s]
                     /\ ks = IF moved THEN kept[s] \cup {0} ELSE kept[s]
  OBVIOUS
<1>3. /\ s \in alive /\ t \notin alive /\ ConvQuiet(t)
      /\ rollout' = [rollout EXCEPT ![s] = log, ![t] = log]
      /\ blob' = IF moved THEN [blob EXCEPT ![s] = <<>>] ELSE blob
      /\ kept' = [kept EXCEPT ![s] = ks, ![t] = ks]
      /\ alive' = alive \cup {t} /\ cleared' = [cleared EXCEPT ![t] = {}]
      /\ UNCHANGED <<loop, turns>>
  BY <1>1, <1>2 DEF Fork
<1>4. ConvTypes /\ LoopsOK /\ \A x \in Convs : KeptOK(x) /\ CleanOK(x)
  BY DEF ConvInv
<1>5. s # t
  BY <1>3
<1>6. PICK C : C = cleared[s]
  OBVIOUS
<1>7. /\ log \in Seq(Messages) /\ LogClean(log, C) /\ ks \in SUBSET (0 .. turns)
      /\ \A u \in ks : Readable(log, u)
  <2>1. CASE moved
    <3>1. rollout[s] = <<>> /\ blob[s] = Legacy /\ blob[s] # <<>> /\ 0 \notin C
      BY <1>1, <1>4, <1>6, <2>1 DEF ConvTypes, CleanOK
    <3>2. kept[s] = {}
      <4>1. \A u \in kept[s] : Readable(<<>>, u)
        BY <1>4, <3>1 DEF KeptOK
      <4> QED BY <4>1 DEF Readable, Says, Lines
    <3>3. PICK z : z = 0
      OBVIOUS
    <3>4. log = <<Boundary(z), Msg("user", z), Msg("assistant", z)>>
      <4>1. PICK a, b, d : a = Boundary(0) /\ b = Msg("user", 0) /\ d = Msg("assistant", 0)
        OBVIOUS
      <4>2. a \in Messages /\ b \in Messages /\ d \in Messages
        BY <1>4, <4>1, TurnFacts, MessageFacts
      <4>3. log = <<a>> \o <<b, d>>
        BY <1>2, <2>1, <3>1, <4>1 DEF Legacy
      <4>4. <<a>> \o <<b, d>> = <<a, b, d>>
        BY <4>2, Three
      <4> QED BY <3>3, <4>1, <4>3, <4>4, Zenon
    <3>5. z \in TurnIds /\ z \notin C
      BY <1>4, <3>1, <3>3, TurnFacts
    <3>6. /\ log \in Seq(Messages) /\ LogClean(log, C) /\ Spoken(log, {z})
      BY <3>4, <3>5, ThreeLines
    <3>7. Readable(log, z)
      <4>1. \A r \in {"user", "assistant"} : \E i \in 2 .. Len(log) :
               log[i].kind = "msg" /\ log[i].role = r /\ log[i].turn = z
        BY <3>6 DEF Spoken
      <4>2. \A i \in 2 .. Len(log) : log[i] \in Lines(log)
        BY <3>6, LinesTyped
      <4>3. \A r \in {"user", "assistant"} : Says(log, r, z)
        BY <4>1, <4>2 DEF Says
      <4> QED BY <4>3 DEF Readable
    <3>8. ks = {z} /\ z \in 0 .. turns
      BY <1>2, <1>4, <2>1, <3>2, <3>3, TurnFacts
    <3> QED BY <3>6, <3>7, <3>8
  <2>2. CASE ~moved
    <3>1. log = rollout[s] /\ ks = kept[s]
      BY <1>2, <2>2
    <3> QED BY <1>4, <1>6, <3>1 DEF ConvTypes, KeptOK, CleanOK
  <2> QED BY <2>1, <2>2
<1>8. /\ blob' \in [Convs -> {<<>>, Legacy}]
      /\ \A x \in Convs : blob'[x] # <<>> => blob[x] # <<>>
  BY <1>3, <1>4 DEF ConvTypes
<1>9. /\ rollout' \in [Convs -> Seq(Messages)] /\ rollout'[s] = log /\ rollout'[t] = log
      /\ \A x \in Convs \ {s, t} : rollout'[x] = rollout[x]
  BY <1>3, <1>4, <1>5, <1>7 DEF ConvTypes
<1>10. /\ kept' \in [Convs -> SUBSET (0 .. turns)] /\ kept'[s] = ks /\ kept'[t] = ks
       /\ \A x \in Convs \ {s, t} : kept'[x] = kept[x]
  BY <1>3, <1>4, <1>5, <1>7 DEF ConvTypes
<1>11. /\ cleared' \in [Convs -> SUBSET (0 .. turns)] /\ cleared'[t] = {}
       /\ \A x \in Convs \ {t} : cleared'[x] = cleared[x]
  BY <1>3, <1>4 DEF ConvTypes
<1>12. ConvTypes'
  BY <1>3, <1>4, <1>8, <1>9, <1>10, <1>11 DEF ConvTypes
<1>13. ASSUME NEW x \in Convs PROVE KeptOK(x)' /\ CleanOK(x)'
  <2>1. CASE x = s
    <3>1. cleared'[s] = C
      BY <1>5, <1>6, <1>11
    <3>2. KeptOK(s)'
      BY <1>7, <1>9, <1>10 DEF KeptOK
    <3>3. CleanOK(s)'
      BY <1>4, <1>6, <1>7, <1>8, <1>9, <3>1 DEF CleanOK
    <3> QED BY <2>1, <3>2, <3>3
  <2>2. CASE x = t
    <3>1. KeptOK(t)'
      BY <1>7, <1>9, <1>10 DEF KeptOK
    <3>2. LogClean(log, {})
      BY DEF LogClean, Clean
    <3>3. CleanOK(t)'
      BY <1>9, <1>11, <3>2 DEF CleanOK
    <3> QED BY <2>2, <3>1, <3>3
  <2>3. CASE x # s /\ x # t
    <3>1. rollout'[x] = rollout[x] /\ kept'[x] = kept[x] /\ cleared'[x] = cleared[x]
      BY <1>9, <1>10, <1>11, <2>3
    <3> QED BY <1>4, <1>8, <3>1 DEF KeptOK, CleanOK
  <2> QED BY <2>1, <2>2, <2>3
<1>14. LoopsOK'
  <2>1. ASSUME NEW l \in Loops PROVE LoopOK(loop[l], cleared'[loop[l].conv], turns)
    <3>1. LoopOK(loop[l], cleared[loop[l].conv], turns) /\ loop[l].conv \in Convs
      BY <1>4 DEF LoopsOK, ConvTypes, LoopRec
    <3>2. CASE loop[l].conv # t
      <4>1. cleared'[loop[l].conv] = cleared[loop[l].conv]
        BY <1>11, <3>1, <3>2
      <4> QED BY <3>1, <4>1
    <3>3. CASE loop[l].conv = t
      <4>1. loop[l].pc = "idle"
        BY <1>3, <3>3 DEF ConvQuiet, LoopAt
      <4> QED BY <4>1 DEF LoopOK
    <3> QED BY <3>2, <3>3
  <2> QED BY <1>3, <2>1 DEF LoopsOK
<1> QED BY <1>12, <1>13, <1>14 DEF ConvInv

\* agentd dies: the loops are gone, and one of them may leave half a turn behind.
LEMMA ConvCrashSound ==
    ASSUME ConvInv, ConvCrash
    PROVE  ConvInv'
<1>1. /\ loop' = [l \in Loops |-> NoLoop]
      /\ UNCHANGED <<blob, alive, turns, kept, cleared>>
  BY DEF ConvCrash
<1>2. ConvTypes /\ LoopsOK
  BY DEF ConvInv
<1>3. loop' \in [Loops -> LoopRec] /\ LoopsOK'
  <2>1. \A l \in Loops : loop'[l] = NoLoop
    BY <1>1
  <2>2. loop' \in [Loops -> LoopRec]
    BY <1>1, <1>2, Stopped
  <2>3. \A l \in Loops : LoopOK(loop'[l], cleared'[loop'[l].conv], turns')
    BY <1>2, <2>1, Stopped
  <2> QED BY <2>2, <2>3 DEF LoopsOK
<1>4. rollout' \in [Convs -> Seq(Messages)] /\ \A x \in Convs : KeptOK(x)' /\ CleanOK(x)'
  <2>1. CASE UNCHANGED rollout
    BY <1>1, <1>2, <2>1, LogsStay DEF ConvTypes
  <2>2. ASSUME NEW l \in Loops, LoopAt(l, "run"), loop[l].kind = "chat",
               NEW lines, lines = TurnLines(loop[l].turn, <<Msg("assistant", loop[l].turn)>>),
               NEW n \in 0..(Len(lines) - 1), NEW cut \in {Torn, Split},
               rollout' = [rollout EXCEPT ![loop[l].conv] =
                              AppendMany(@, SubSeq(lines, 1, n) \o <<cut>>)]
        PROVE  rollout' \in [Convs -> Seq(Messages)] /\ \A x \in Convs : KeptOK(x)' /\ CleanOK(x)'
    <3>0. PICK x, s, t, C : x = loop[l] /\ s = x.conv /\ t = x.turn /\ C = cleared[s]
      OBVIOUS
    <3>1. x \in LoopRec /\ LoopOK(x, cleared[x.conv], turns) /\ x.pc = "run"
      BY <1>2, <2>2, <3>0 DEF ConvTypes, LoopsOK, LoopAt
    <3>2. s \in Convs /\ t \in TurnIds /\ t \notin C
      BY <3>0, <3>1 DEF LoopRec, LoopOK
    <3>3. lines = <<Boundary(t), Msg("user", t), Msg("assistant", t)>>
      <4>1. PICK p, q, r : p = Boundary(t) /\ q = Msg("user", t) /\ r = Msg("assistant", t)
        OBVIOUS
      <4>2. p \in Messages /\ q \in Messages /\ r \in Messages
        BY <3>2, <4>1, MessageFacts
      <4>3. <<p, q>> \o <<r>> = <<p, q, r>>
        BY <4>2, Three
      <4>4. lines = <<p, q>> \o <<r>>
        BY <2>2, <3>0, <4>1 DEF TurnLines
      <4> QED BY <4>1, <4>3, <4>4, Zenon
    <3>4. lines \in Seq(Messages) /\ Len(lines) = 3 /\ AllClean(lines, C)
      BY <3>2, <3>3, ThreeLines
    <3>5. PICK p, e, items, a : /\ p = SubSeq(lines, 1, n) /\ e = <<cut>> /\ items = p \o e
                                /\ a = AppendMany(rollout[s], items)
      OBVIOUS
    <3>6. p \in Seq(Messages) /\ Lines(p) \subseteq Lines(lines)
      <4>1. PICK o : o = 1
        OBVIOUS
      <4>2. o \in Int /\ 1 <= o /\ n \in Int /\ n <= Len(lines)
        BY <3>4, <4>1
      <4>3. SubSeq(lines, o, n) \in Seq(Messages) /\ Lines(SubSeq(lines, o, n)) \subseteq Lines(lines)
        BY <3>4, <4>2, LinesOfPart
      <4> QED BY <3>5, <4>1, <4>3
    <3>7. e \in Seq(Messages) /\ \A m : m \in Lines(e) <=> m = cut
      BY <3>5, MessageFacts, LinesOfFew
    <3>8. p \o e \in Seq(Messages) /\ \A m : m \in Lines(p \o e) <=> m \in Lines(p) \/ m \in Lines(e)
      BY <3>6, <3>7, LinesJoined
    <3>9. items \in Seq(Messages) /\ items # <<>>
      <4>1. cut \in Lines(items)
        BY <3>5, <3>7, <3>8, Zenon
      <4>2. Lines(<<>>) = {}
        BY DEF Lines
      <4> QED BY <3>5, <3>8, <4>1, <4>2, Zenon
    <3>10. LogClean(items, C)
      <4>1. ~Parses(cut)
        BY MessageFacts DEF Parses
      <4> QED BY <3>4, <3>5, <3>6, <3>7, <3>8, <4>1 DEF LogClean, AllClean
    <3>11. PICK k : k = {}
      OBVIOUS
    <3>12. /\ k \in SUBSET (0 .. turns) /\ Spoken(items, k)
           /\ kept' = [kept EXCEPT ![s] = kept[s] \cup k]
      <4>1. k \in SUBSET (0 .. turns) /\ Spoken(items, k)
        BY <3>11 DEF Spoken
      <4>2. kept' = [kept EXCEPT ![s] = kept[s] \cup k]
        BY <1>1, <1>2, <3>2, <3>11 DEF ConvTypes
      <4> QED BY <4>1, <4>2
    <3>13. /\ rollout' = [rollout EXCEPT ![s] = a] /\ LogClean(items, cleared[s])
           /\ UNCHANGED <<blob, cleared, turns>>
      BY <1>1, <2>2, <3>0, <3>5, <3>10
    <3> QED BY <3>2, <3>5, <3>9, <3>12, <3>13, LogGrows
  <2>3. \/ UNCHANGED rollout
        \/ \E l \in Loops :
             /\ LoopAt(l, "run") /\ loop[l].kind = "chat"
             /\ LET lines == TurnLines(loop[l].turn, <<Msg("assistant", loop[l].turn)>>)
                IN  \E n \in 0..(Len(lines) - 1), cut \in {Torn, Split} :
                      rollout' = [rollout EXCEPT ![loop[l].conv] =
                                    AppendMany(@, SubSeq(lines, 1, n) \o <<cut>>)]
    BY Zenon DEF ConvCrash
  <2>4. ASSUME NEW l \in Loops, LoopAt(l, "run"), loop[l].kind = "chat",
               NEW n \in 0..(Len(TurnLines(loop[l].turn, <<Msg("assistant", loop[l].turn)>>)) - 1),
               NEW cut \in {Torn, Split},
               rollout' = [rollout EXCEPT ![loop[l].conv] = AppendMany(@,
                 SubSeq(TurnLines(loop[l].turn, <<Msg("assistant", loop[l].turn)>>), 1, n)
                   \o <<cut>>)]
        PROVE  rollout' \in [Convs -> Seq(Messages)] /\ \A x \in Convs : KeptOK(x)' /\ CleanOK(x)'
    <3>1. PICK lines : lines = TurnLines(loop[l].turn, <<Msg("assistant", loop[l].turn)>>)
      OBVIOUS
    <3> QED BY <2>2, <2>4, <3>1
  <2> QED BY <2>1, <2>3, <2>4, Zenon
<1>5. ConvTypes'
  BY <1>1, <1>2, <1>3, <1>4 DEF ConvTypes
<1> QED BY <1>3, <1>4, <1>5 DEF ConvInv

LEMMA ConvStep == ConvInv /\ [ConvNext]_convVars => ConvInv'
<1> SUFFICES ASSUME ConvInv, [ConvNext]_convVars PROVE ConvInv'
  OBVIOUS
<1>1. ASSUME NEW l \in Loops,
             \/ BeginTurn(l) \/ Migrate(l) \/ DropBlob(l) \/ OpenLoop(l) \/ ToolStep(l)
             \/ CompactLoop(l) \/ FinishLoop(l) \/ FailLoop(l)
      PROVE  ConvInv'
  BY <1>1, BeginTurnSound, MigrateSound, DropBlobSound, OpenLoopSound, ToolStepSound,
     CompactLoopSound, FinishLoopSound, FailLoopSound
<1>2. ASSUME NEW s \in Convs, Revert(s) \/ Delete(s) PROVE ConvInv'
  BY <1>2, RevertSound, DeleteSound
<1>3. ASSUME NEW s \in Convs, NEW t \in Convs, Fork(s, t) PROVE ConvInv'
  BY <1>3, ForkSound
<1>4. CASE ConvCrash
  BY <1>4, ConvCrashSound
<1>5. CASE UNCHANGED convVars
  <2>1. UNCHANGED <<rollout, blob, alive, loop, turns, kept, cleared>>
    BY <1>5 DEF convVars
  <2>2. ConvTypes' /\ LoopsOK'
    BY <2>1 DEF ConvInv, ConvTypes, LoopsOK
  <2> QED BY <2>1, <2>2, LogsStay DEF ConvInv
<1> QED BY <1>1, <1>2, <1>3, <1>4, <1>5, Zenon DEF ConvNext

LEMMA ConvInvSound == ConvInv => HistorySound
<1> SUFFICES ASSUME ConvInv PROVE HistorySound
  OBVIOUS
<1>1. ConvTypes /\ LoopsOK /\ \A s \in Convs : KeptOK(s) /\ CleanOK(s)
  BY DEF ConvInv
<1>2. ConvTypeOK
  <2>1. \A s \in Convs : \A i \in DOMAIN rollout[s] : rollout[s][i] \in Messages
    BY <1>1 DEF ConvTypes
  <2>2. alive \subseteq Convs /\ turns \in TurnIds
    BY <1>1 DEF ConvTypes
  <2>3. \A l \in Loops :
         /\ loop[l].pc \in {"idle", "migrate", "migrated", "open", "run"}
         /\ LoopAt(l, "run") => /\ loop[l].window # <<>>
                                /\ loop[l].window[1] = Msg("system", loop[l].turn)
    BY <1>1 DEF ConvTypes, LoopRec, LoopsOK, LoopOK, LoopAt
  <2> QED BY <2>1, <2>2, <2>3 DEF ConvTypeOK
<1>3. TurnsReadable
  <2> SUFFICES ASSUME NEW s \in Convs, NEW t \in kept[s], NEW r \in {"user", "assistant"}
               PROVE  \E i \in DOMAIN rollout[s] :
                        /\ rollout[s][i].kind = "msg" /\ rollout[s][i].role = r
                        /\ rollout[s][i].turn = t
                        /\ \/ rollout[s][i] \in Lines(ReadRollout(rollout[s]))
                           \/ \E j \in DOMAIN rollout[s] : j < i /\ NotText(rollout[s][j])
    BY DEF TurnsReadable
  <2>0. PICK q : q = rollout[s]
    OBVIOUS
  <2>1. Says(q, r, t) /\ q \in Seq(Messages)
    BY <1>1, <2>0 DEF KeptOK, Readable, ConvTypes
  <2>2. PICK i \in DOMAIN q : q[i].kind = "msg" /\ q[i].role = r /\ q[i].turn = t
    BY <2>1 DEF Says, Lines
  <2>3. Parses(q[i])
    BY <2>2 DEF Parses
  <2>4. \/ q[i] \in Lines(ReadRollout(q))
        \/ \E j \in DOMAIN q : j < i /\ NotText(q[j])
    BY <2>1, <2>3, ReadLines
  <2> QED BY <2>0, <2>2, <2>4
<1>4. ClearedStaysGone
  <2> SUFFICES ASSUME NEW s \in Convs
               PROVE  cleared[s] \cap Mentioned(ReadRollout(rollout[s])) = {}
    BY DEF ClearedStaysGone
  <2>1. PICK q, C : q = rollout[s] /\ C = cleared[s]
    OBVIOUS
  <2>2. q \in Seq(Messages) /\ LogClean(q, C)
    BY <1>1, <2>1 DEF ConvTypes, CleanOK
  <2>3. C \cap Mentioned(ReadRollout(q)) = {}
    BY <2>2, ReadClean
  <2> QED BY <2>1, <2>3
<1> QED BY <1>2, <1>3, <1>4 DEF HistorySound

(* The history of a session, for any number of sessions, loops and turns and   *)
(* any sizes of tail, budget and history: a completed turn is read back        *)
(* whatever a crash leaves in the log and whatever is compacted, unless it     *)
(* stands behind a line torn inside a character; and a turn                    *)
(* that a revert, a rewind or a deletion removed comes back neither from the   *)
(* log, nor from the legacy blob, nor in a summary (rollout.rs append_many,    *)
(* session.rs rebuild_messages, clear_history, copy_history, context.rs        *)
(* compact_with_summary).                                                      *)
THEOREM HistoryCorrect == ConvSpec => []HistorySound
<1>1. ConvInit => ConvInv
  BY ConvInitSound
<1>2. ConvInv /\ [ConvNext]_convVars => ConvInv'
  BY ConvStep
<1>3. ConvInv => HistorySound
  BY ConvInvSound
<1> QED BY <1>1, <1>2, <1>3, PTL DEF ConvSpec
=============================================================================
