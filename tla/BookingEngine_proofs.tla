------------------------ MODULE BookingEngine_proofs ------------------------
(***************************************************************************)
(* Proofs about BookingEngine, for every set of callers, keys, requests    *)
(* and slots, every capacity and price, and any number of records and      *)
(* attempts: whatever calls overlap at their awaits, a key has one         *)
(* booking, a slot is not oversold, and what is sold is paid.              *)
(*                                                                         *)
(* And about CheckoutPage, the one page in whose memory the engine lives:  *)
(* what it shows and says is true, for every set of services, selections   *)
(* and customers and any number of reloads.  A reload empties the engine,  *)
(* so that the page's invariant has engine clauses of its own.             *)
(***************************************************************************)
EXTENDS CheckoutPage, SequenceTheorems, FiniteSetTheorems, TLAPS

\* Each record on its own: one that did not fail is the one of its key, and
\* its payment key was counted as an attempt.
RecordsHold ==
  \A b \in 1 .. Len(record) :
    /\ record[b].state # "draft"
    /\ record[b].state # "failed" => byKey[record[b].key] = b
    /\ ~ record[b].live => record[b].state = "failed"
    /\ record[b].attempt < attempts[record[b].key]
    /\ record[b].intent \in {NoIntent, PaymentKey(b)}

\* Records and keys name each other, and no two records share a payment key.
KeysHold ==
  /\ \A k \in Keys : /\ byKey[k] # 0 => record[byKey[k]].key = k
                     /\ pending[k] # 0 => record[pending[k]].key = k
  /\ \A a, b \in 1 .. Len(record) :
       record[a].key = record[b].key /\ record[a].attempt = record[b].attempt => a = b

\* What the engine minted it still knows, and what a confirmation saw at the
\* provider before its await is still so after it.
MoneyHolds ==
  /\ \A i \in PaymentKeys : bookingOf[i] # 0 => record[bookingOf[i]].intent = i
  /\ \A c \in Callers :
       confirming[c].step = "verify" =>
         /\ bookingOf[confirming[c].intent] = confirming[c].booking
         /\ confirming[c].saw = "succeeded" => Captured(confirming[c].intent)

Inv == /\ EngineTypeOK /\ RecordsHold /\ KeysHold
       /\ MoneyHolds /\ SoldIsPaid /\ NoSlotOversold

-----------------------------------------------------------------------------
(***************************************************************************)
(* Records.                                                                *)
(***************************************************************************)

\* What the typing of the sequence says of its elements.
LEMMA RecordTyped ==
  ASSUME EngineTypeOK
  PROVE  /\ Len(record) \in Nat /\ DOMAIN record = 1 .. Len(record)
         /\ \A b \in 1 .. Len(record) : record[b] \in Recorded
<1>1. record \in Seq(Recorded)
  BY DEF EngineTypeOK
<1>2. Len(record) \in Nat /\ DOMAIN record = 1 .. Len(record)
  BY <1>1, LenProperties
<1>3. \A b \in 1 .. Len(record) : record[b] \in Recorded
  BY <1>1, ElementOfSeq
<1> QED
  BY <1>2, <1>3

\* A payment key is one, and not the absence of one.
LEMMA PaymentKeyIsOne ==
  ASSUME EngineTypeOK, NEW b \in 1 .. Len(record)
  PROVE  PaymentKey(b) \in PaymentKeys /\ PaymentKey(b) # NoIntent
<1>1. record[b] \in Recorded
  BY RecordTyped
<1>2. PaymentKey(b) \in PaymentKeys
  BY <1>1 DEF PaymentKey, PaymentKeys, Recorded
<1>3. Len(PaymentKey(b)) = 2 /\ Len(NoIntent) = 0
  BY DEF PaymentKey, NoIntent
<1> QED
  BY <1>2, <1>3

\* A record changed in its state only.
Moved(b, to) ==
  /\ record' \in Seq(Recorded) /\ Len(record') = Len(record)
  /\ \A a \in 1 .. Len(record) :
       record'[a] = IF a = b THEN [record[a] EXCEPT !.state = to] ELSE record[a]

\* What Move does, record by record.
LEMMA MoveMoves ==
  ASSUME EngineTypeOK, NEW b \in 1 .. Len(record), NEW to \in BookingState, Move(b, to)
  PROVE  Moved(b, to)
<1> DEFINE e == [record[b] EXCEPT !.state = to]
<1>1. record \in Seq(Recorded) /\ record[b] \in Recorded
  BY RecordTyped DEF EngineTypeOK
<1>2. e \in Recorded
  BY <1>1 DEF Recorded
<1>3. record' = [record EXCEPT ![b] = e]
  BY DEF Move
<1> HIDE DEF e
<1>4. /\ [record EXCEPT ![b] = e] \in Seq(Recorded)
      /\ Len([record EXCEPT ![b] = e]) = Len(record)
      /\ \A a \in 1 .. Len(record) : [record EXCEPT ![b] = e][a] = IF a = b THEN e ELSE record[a]
  BY <1>1, <1>2, ExceptSeq
<1> QED
  BY <1>3, <1>4 DEF Moved, e

\* A superseded record leaves the engine's map, the others stay as they are.
LEMMA SupersedingDrops ==
  ASSUME EngineTypeOK, NEW k \in Keys
  PROVE  /\ Superseding(k) \in Seq(Recorded) /\ Len(Superseding(k)) = Len(record)
         /\ \A a \in 1 .. Len(record) :
              Superseding(k)[a] = IF a = byKey[k] THEN [record[a] EXCEPT !.live = FALSE]
                                                  ELSE record[a]
<1>1. record \in Seq(Recorded) /\ byKey[k] \in 0 .. Len(record) /\ Len(record) \in Nat
  BY RecordTyped DEF EngineTypeOK
<1>2. CASE byKey[k] = 0
  BY <1>1, <1>2 DEF Superseding
<1>3. CASE byKey[k] # 0
  <2> DEFINE b == byKey[k]  e == [record[b] EXCEPT !.live = FALSE]
  <2>1. b \in 1 .. Len(record) /\ record[b] \in Recorded
    BY <1>1, <1>3, RecordTyped
  <2>2. e \in Recorded
    BY <2>1 DEF Recorded
  <2>3. Superseding(k) = [record EXCEPT ![b] = e]
    BY <1>3 DEF Superseding
  <2> HIDE DEF e
  <2>4. /\ [record EXCEPT ![b] = e] \in Seq(Recorded)
        /\ Len([record EXCEPT ![b] = e]) = Len(record)
        /\ \A a \in 1 .. Len(record) : [record EXCEPT ![b] = e][a] = IF a = b THEN e ELSE record[a]
    BY <1>1, <2>1, <2>2, ExceptSeq
  <2> QED
    BY <2>3, <2>4 DEF e
<1> QED
  BY <1>2, <1>3

-----------------------------------------------------------------------------
(***************************************************************************)
(* Changes of one record's state.                                          *)
(***************************************************************************)

\* A record that has not failed may move on; nothing else changes.
LEMMA MovedTyped ==
  ASSUME EngineTypeOK, NEW b \in 1 .. Len(record), NEW to \in BookingState, Moved(b, to),
         UNCHANGED <<byKey, pending, attempts, intent, bookingOf, offered>>,
         confirming' \in [Callers -> Call]
  PROVE  EngineTypeOK'
BY DEF EngineTypeOK, Moved, IntentState, BookingState, PaymentKeys, Call, Recorded, NoCall

\* A legal move keeps what is known of each record.
LEMMA MovedKeepsRecords ==
  ASSUME EngineTypeOK, RecordsHold, KeysHold,
         NEW b \in 1 .. Len(record), NEW to \in BookingState \ {"draft"}, Moved(b, to),
         record[b].state # "failed",
         UNCHANGED <<byKey, pending, attempts>>
  PROVE  RecordsHold' /\ KeysHold'
<1>1. /\ Len(record') = Len(record)
      /\ \A a \in 1 .. Len(record) :
           /\ record[a] \in Recorded
           /\ record'[a].key = record[a].key /\ record'[a].attempt = record[a].attempt
           /\ record'[a].intent = record[a].intent /\ record'[a].live = record[a].live
           /\ record'[a].state = IF a = b THEN to ELSE record[a].state
  BY RecordTyped DEF Moved, Recorded
<1>2. \A a \in 1 .. Len(record) : PaymentKey(a)' = PaymentKey(a)
  BY <1>1 DEF PaymentKey
<1>3. RecordsHold'
  BY <1>1, <1>2 DEF RecordsHold
<1>4. KeysHold'
  <2>1. \A k \in Keys : byKey[k] \in 0 .. Len(record) /\ pending[k] \in 0 .. Len(record)
    BY DEF EngineTypeOK
  <2> QED
    BY <1>1, <2>1, RecordTyped DEF KeysHold
<1> QED
  BY <1>3, <1>4

\* And what is known of its intent, if a sale has its payment.
LEMMA MovedKeepsMoney ==
  ASSUME EngineTypeOK, MoneyHolds, SoldIsPaid,
         NEW b \in 1 .. Len(record), NEW to \in BookingState, Moved(b, to),
         to \in {"confirmed", "completed", "cancelled", "refunded"} =>
           /\ record[b].intent # NoIntent /\ Captured(record[b].intent)
           /\ bookingOf[record[b].intent] = b,
         UNCHANGED <<intent, bookingOf>>,
         UNCHANGED confirming \/ \E c \in Callers : confirming' = [confirming EXCEPT ![c] = NoCall]
  PROVE  MoneyHolds' /\ SoldIsPaid'
<1>1. /\ Len(record') = Len(record) /\ Len(record) \in Nat
      /\ DOMAIN record = 1 .. Len(record) /\ DOMAIN record' = 1 .. Len(record)
      /\ \A a \in 1 .. Len(record) :
           /\ record'[a].intent = record[a].intent
           /\ record'[a].state = IF a = b THEN to ELSE record[a].state
  <2>1. DOMAIN record' = 1 .. Len(record')
    BY LenProperties DEF Moved
  <2> QED
    BY <2>1, RecordTyped DEF Moved, Recorded
<1>2. \A i \in PaymentKeys : bookingOf[i] \in 0 .. Len(record)
  BY DEF EngineTypeOK
<1>3. \A i : Captured(i)' = Captured(i)
  BY DEF Captured
<1>4. \A c \in Callers : confirming'[c].step = "verify" => confirming'[c] = confirming[c]
  BY DEF EngineTypeOK, NoCall
<1>5. MoneyHolds'
  BY <1>1, <1>2, <1>3, <1>4 DEF MoneyHolds
<1>6. SoldIsPaid'
  BY <1>1, <1>3 DEF SoldIsPaid
<1> QED
  BY <1>5, <1>6

\* Capacity is a count of a finite set.
LEMMA HoldingFinite ==
  ASSUME EngineTypeOK, NEW s
  PROVE  IsFiniteSet(Holding(s)) /\ Cardinality(Holding(s)) \in Nat
<1>1. IsFiniteSet(1 .. Len(record)) /\ Holding(s) \subseteq 1 .. Len(record)
  BY RecordTyped, FS_Interval DEF Holding
<1> QED
  BY <1>1, FS_Subset, FS_CardinalityType

\* A step after which no booking holds a slot that did not before.
LEMMA FewerHold ==
  ASSUME EngineTypeOK, NoSlotOversold,
         \A s \in Slots : Holding(s)' \subseteq Holding(s)
  PROVE  NoSlotOversold'
<1> SUFFICES ASSUME NEW s \in Slots
             PROVE  Cardinality(Holding(s)') <= Capacity
  BY DEF NoSlotOversold
<1>1. Cardinality(Holding(s)') <= Cardinality(Holding(s)) /\ Cardinality(Holding(s)') \in Nat
  BY HoldingFinite, FS_Subset, FS_CardinalityType
<1>2. Cardinality(Holding(s)) <= Capacity
  BY DEF NoSlotOversold
<1> QED
  BY <1>1, <1>2, HoldingFinite, EngineAssumption

\* And the room of each slot, since a record only leaves its slot.
LEMMA MovedKeepsRoom ==
  ASSUME EngineTypeOK, NoSlotOversold,
         NEW b \in 1 .. Len(record), NEW to \in BookingState, Moved(b, to),
         to = "pending_payment" => record[b].state = "pending_payment",
         to = "confirmed" => record[b].state = "pending_payment"
  PROVE  NoSlotOversold'
<1>1. /\ DOMAIN record = 1 .. Len(record) /\ DOMAIN record' = 1 .. Len(record)
      /\ \A a \in 1 .. Len(record) :
           /\ record'[a].live = record[a].live /\ record'[a].request = record[a].request
           /\ record'[a].state = IF a = b THEN to ELSE record[a].state
  <2>1. DOMAIN record' = 1 .. Len(record')
    BY LenProperties DEF Moved
  <2> QED
    BY <2>1, RecordTyped DEF Moved, Recorded
<1>2. \A s \in Slots : Holding(s)' \subseteq Holding(s)
  BY <1>1 DEF Holding
<1> QED
  BY <1>2, FewerHold

-----------------------------------------------------------------------------
(***************************************************************************)
(* Creations.                                                              *)
(***************************************************************************)

\* What superseding the record of a key leaves: it is failed, so dropping it
\* from the map frees nothing.
LEMMA SupersededFields ==
  ASSUME Inv, NEW k \in Keys, ~ Joins(k)
  PROVE  /\ Superseding(k) \in Seq(Recorded) /\ Len(Superseding(k)) = Len(record)
         /\ Len(record) \in Nat /\ DOMAIN record = 1 .. Len(record)
         /\ \A a \in 1 .. Len(record) :
              /\ record[a] \in Recorded
              /\ Superseding(k)[a].key = record[a].key
              /\ Superseding(k)[a].attempt = record[a].attempt
              /\ Superseding(k)[a].request = record[a].request
              /\ Superseding(k)[a].intent = record[a].intent
              /\ Superseding(k)[a].state = record[a].state
              /\ Superseding(k)[a].live = record[a].live \/ record[a].state = "failed"
              /\ record[a].key = k => record[a].state = "failed"
         /\ pending[k] = 0
<1>1. /\ pending[k] = 0
      /\ byKey[k] # 0 => record[byKey[k]].state = "failed"
  BY DEF Joins
<1>2. /\ Len(record) \in Nat /\ DOMAIN record = 1 .. Len(record)
      /\ \A a \in 1 .. Len(record) : record[a] \in Recorded
  BY RecordTyped DEF Inv
<1>3. /\ Superseding(k) \in Seq(Recorded) /\ Len(Superseding(k)) = Len(record)
      /\ \A a \in 1 .. Len(record) :
           Superseding(k)[a] = IF a = byKey[k] THEN [record[a] EXCEPT !.live = FALSE]
                                               ELSE record[a]
  BY SupersedingDrops DEF Inv
<1>4. \A a \in 1 .. Len(record) : record[a].key = k => record[a].state = "failed"
  <2> SUFFICES ASSUME NEW a \in 1 .. Len(record), record[a].key = k,
                      record[a].state # "failed"
               PROVE  FALSE
    OBVIOUS
  <2>1. byKey[k] = a
    BY DEF Inv, RecordsHold
  <2> QED
    BY <1>1, <2>1
<1>5. \A a \in 1 .. Len(record) :
        Superseding(k)[a].live = record[a].live \/ record[a].state = "failed"
  <2> SUFFICES ASSUME NEW a \in 1 .. Len(record), a # byKey[k]
               PROVE  Superseding(k)[a].live = record[a].live
    BY <1>1, <1>2
  <2> QED
    BY <1>3
<1>6. \A a \in 1 .. Len(record) :
        /\ Superseding(k)[a].key = record[a].key
        /\ Superseding(k)[a].attempt = record[a].attempt
        /\ Superseding(k)[a].request = record[a].request
        /\ Superseding(k)[a].intent = record[a].intent
        /\ Superseding(k)[a].state = record[a].state
  BY <1>2, <1>3 DEF Recorded
<1> QED
  BY <1>1, <1>2, <1>3, <1>4, <1>5, <1>6

\* A refused creation drops the failed record and counts its attempt.
LEMMA CreateRefusedKeeps ==
  ASSUME Inv, NEW k \in Keys, NEW r \in Requests, CreateRefused(k, r)
  PROVE  Inv'
<1> DEFINE n == Len(record)
<1>1. /\ record' = Superseding(k) /\ ~ Joins(k)
      /\ byKey' = [byKey EXCEPT ![k] = 0] /\ attempts' = [attempts EXCEPT ![k] = @ + 1]
      /\ attempts[k] < MaxAttempts
      /\ UNCHANGED <<pending, intent, bookingOf, offered, confirming>>
  BY DEF CreateRefused
<1>2. /\ record' \in Seq(Recorded) /\ Len(record') = n /\ n \in Nat
      /\ DOMAIN record = 1 .. n /\ DOMAIN record' = 1 .. n
      /\ \A a \in 1 .. n :
           /\ record[a] \in Recorded
           /\ record'[a].key = record[a].key /\ record'[a].attempt = record[a].attempt
           /\ record'[a].request = record[a].request /\ record'[a].intent = record[a].intent
           /\ record'[a].state = record[a].state
           /\ record'[a].live = record[a].live \/ record[a].state = "failed"
           /\ record[a].key = k => record[a].state = "failed"
  <2>1. record' \in Seq(Recorded) /\ Len(record') = n
    BY <1>1, SupersededFields
  <2>2. DOMAIN record' = 1 .. n
    BY <2>1, LenProperties
  <2> QED
    BY <1>1, <2>1, <2>2, SupersededFields
<1>3. /\ byKey \in [Keys -> 0 .. n] /\ attempts \in [Keys -> 0 .. MaxAttempts]
      /\ pending \in [Keys -> 0 .. n] /\ bookingOf \in [PaymentKeys -> 0 .. n]
      /\ MaxAttempts \in Nat
  BY EngineAssumption DEF Inv, EngineTypeOK
<1>4. EngineTypeOK'
  <2>1. byKey' \in [Keys -> 0 .. n] /\ attempts' \in [Keys -> 0 .. MaxAttempts]
    BY <1>1, <1>2, <1>3
  <2>2. /\ intent' \in [PaymentKeys -> [state : IntentState, refunded : 0 .. Price]]
        /\ offered' \subseteq Slots /\ confirming' \in [Callers -> Call]
        /\ pending' \in [Keys -> 0 .. n] /\ bookingOf' \in [PaymentKeys -> 0 .. n]
        /\ n <= MaxRecords
    BY <1>1, <1>3 DEF Inv, EngineTypeOK
  <2> HIDE DEF n
  <2> QED
    BY <1>2, <2>1, <2>2 DEF EngineTypeOK, IntentState, PaymentKeys, Call, Recorded
<1>5. \A a \in 1 .. n : PaymentKey(a)' = PaymentKey(a)
  BY <1>2 DEF PaymentKey
<1>6. RecordsHold'
  <2> SUFFICES ASSUME NEW b \in 1 .. n
               PROVE  /\ record'[b].state # "draft"
                      /\ record'[b].state # "failed" => byKey'[record'[b].key] = b
                      /\ ~ record'[b].live => record'[b].state = "failed"
                      /\ record'[b].attempt < attempts'[record'[b].key]
                      /\ record'[b].intent \in {NoIntent, PaymentKey(b)'}
    BY <1>2 DEF RecordsHold
  <2>1. /\ record[b].state # "draft"
        /\ record[b].state # "failed" => byKey[record[b].key] = b
        /\ record[b].attempt < attempts[record[b].key]
        /\ record[b].intent \in {NoIntent, PaymentKey(b)}
        /\ ~ record[b].live => record[b].state = "failed"
    BY DEF Inv, RecordsHold
  <2>4. record[b].key \in Keys /\ record[b].attempt \in Nat
    <3>1. record[b] \in Recorded /\ MaxAttempts \in Nat
      BY <1>2, <1>3
    <3> HIDE DEF PaymentKeys, NoIntent
    <3> QED
      BY <3>1 DEF Recorded
  <2>2. record'[b].state # "failed" => byKey'[record'[b].key] = b
    BY <1>1, <1>2, <1>3, <2>1, <2>4
  <2>3. record'[b].attempt < attempts'[record'[b].key]
    BY <1>1, <1>2, <1>3, <2>1, <2>4
  <2>5. record'[b].state # "draft" /\ record'[b].intent \in {NoIntent, PaymentKey(b)'}
    BY <1>2, <1>5, <2>1
  <2>6. ~ record'[b].live => record'[b].state = "failed"
    BY <1>2, <2>1
  <2> QED
    BY <2>2, <2>3, <2>5, <2>6
<1>7. KeysHold'
  <2>1. /\ byKey' = [byKey EXCEPT ![k] = 0] /\ pending' = pending
        /\ byKey \in [Keys -> 0 .. n] /\ pending \in [Keys -> 0 .. n]
        /\ Len(record') = n /\ n \in Nat
        /\ \A a \in 1 .. n : record'[a].key = record[a].key /\ record'[a].attempt = record[a].attempt
    BY <1>1, <1>2, <1>3
  <2> HIDE DEF n
  <2>2. \A j \in Keys : byKey'[j] # 0 => record'[byKey'[j]].key = j
    BY <2>1 DEF Inv, KeysHold
  <2>3. \A j \in Keys : pending'[j] # 0 => record'[pending'[j]].key = j
    BY <2>1 DEF Inv, KeysHold
  <2>4. \A a, b \in 1 .. n :
          record'[a].key = record'[b].key /\ record'[a].attempt = record'[b].attempt => a = b
    BY <2>1 DEF Inv, KeysHold, n
  <2> QED
    BY <2>1, <2>2, <2>3, <2>4 DEF KeysHold
<1>8. \A i : Captured(i)' = Captured(i)
  BY <1>1 DEF Captured
<1>9. MoneyHolds'
  BY <1>1, <1>2, <1>3, <1>8 DEF Inv, MoneyHolds
<1>10. SoldIsPaid'
  BY <1>1, <1>2, <1>8 DEF Inv, SoldIsPaid
<1>11. NoSlotOversold'
  <2>1. \A s \in Slots : Holding(s)' \subseteq Holding(s)
    BY <1>2 DEF Holding
  <2> QED
    BY <2>1, FewerHold DEF Inv
<1> QED
  BY <1>4, <1>6, <1>7, <1>9, <1>10, <1>11 DEF Inv

\* A creation counts what holds the slot before it adds one.
LEMMA CreateKeeps ==
  ASSUME Inv, NEW k \in Keys, NEW r \in Requests, Create(k, r)
  PROVE  Inv'
<1> DEFINE n == Len(record)
           e == [key |-> k, attempt |-> attempts[k], request |-> r,
                 state |-> "pending_payment", live |-> TRUE, intent |-> NoIntent]
<1>1. /\ record' = Append(Superseding(k), e) /\ ~ Joins(k)
      /\ byKey' = [byKey EXCEPT ![k] = n + 1] /\ pending' = [pending EXCEPT ![k] = n + 1]
      /\ attempts' = [attempts EXCEPT ![k] = @ + 1]
      /\ attempts[k] < MaxAttempts /\ n < MaxRecords /\ HasRoom(SlotOf[r])
      /\ UNCHANGED <<intent, bookingOf, offered, confirming>>
  BY DEF Create
<1>2. /\ byKey \in [Keys -> 0 .. n] /\ attempts \in [Keys -> 0 .. MaxAttempts]
      /\ pending \in [Keys -> 0 .. n] /\ bookingOf \in [PaymentKeys -> 0 .. n]
      /\ MaxAttempts \in Nat /\ MaxRecords \in Nat
  BY EngineAssumption DEF Inv, EngineTypeOK
<1>3. e \in Recorded
  BY <1>2 DEF Recorded, BookingState
<1>4. /\ record' \in Seq(Recorded) /\ Len(record') = n + 1 /\ n \in Nat
      /\ DOMAIN record = 1 .. n /\ DOMAIN record' = 1 .. n + 1
      /\ \A a \in 1 .. n : record'[a] = Superseding(k)[a]
      /\ record'[n + 1] = e
  <2> HIDE DEF e
  <2>1. Superseding(k) \in Seq(Recorded) /\ Len(Superseding(k)) = n /\ n \in Nat
        /\ DOMAIN record = 1 .. n
    BY <1>1, SupersededFields
  <2>2. /\ Append(Superseding(k), e) \in Seq(Recorded)
        /\ Len(Append(Superseding(k), e)) = n + 1
        /\ \A a \in 1 .. n : Append(Superseding(k), e)[a] = Superseding(k)[a]
        /\ Append(Superseding(k), e)[n + 1] = e
    BY <1>3, <2>1, AppendProperties
  <2>3. DOMAIN record' = 1 .. Len(record')
    BY <1>1, <2>2, LenProperties
  <2> QED
    BY <1>1, <2>1, <2>2, <2>3
<1> HIDE DEF e
<1>5. \A a \in 1 .. n :
        /\ record[a] \in Recorded
        /\ record'[a].key = record[a].key /\ record'[a].attempt = record[a].attempt
        /\ record'[a].request = record[a].request /\ record'[a].intent = record[a].intent
        /\ record'[a].state = record[a].state
        /\ record'[a].live = record[a].live \/ record[a].state = "failed"
        /\ record[a].key = k => record[a].state = "failed"
  BY <1>1, <1>4, SupersededFields
<1>6. /\ record'[n + 1].key = k /\ record'[n + 1].attempt = attempts[k]
      /\ record'[n + 1].request = r /\ record'[n + 1].state = "pending_payment"
      /\ record'[n + 1].live = TRUE /\ record'[n + 1].intent = NoIntent
  BY <1>4 DEF e
<1>15. \A j \in Keys : attempts'[j] \in Nat /\ attempts[j] \in Nat
                         /\ attempts[j] <= attempts'[j] /\ (j = k => attempts[j] < attempts'[j])
  BY <1>1, <1>2
<1>7. EngineTypeOK'
  <2>1. /\ byKey' \in [Keys -> 0 .. n + 1] /\ attempts' \in [Keys -> 0 .. MaxAttempts]
        /\ pending' \in [Keys -> 0 .. n + 1]
    BY <1>1, <1>2, <1>4
  <2>2. /\ intent' \in [PaymentKeys -> [state : IntentState, refunded : 0 .. Price]]
        /\ offered' \subseteq Slots /\ confirming' \in [Callers -> Call]
        /\ bookingOf' \in [PaymentKeys -> 0 .. n + 1] /\ n + 1 <= MaxRecords
    <3>1. bookingOf' \in [PaymentKeys -> 0 .. n] /\ n \in Nat
      BY <1>1, <1>2, <1>4
    <3>2. bookingOf' \in [PaymentKeys -> 0 .. n + 1]
      BY <3>1
    <3> QED
      BY <1>1, <1>2, <1>4, <3>2 DEF Inv, EngineTypeOK
  <2> HIDE DEF n
  <2> QED
    BY <1>4, <2>1, <2>2 DEF EngineTypeOK, IntentState, PaymentKeys, Call, Recorded
<1>8. \A a \in 1 .. n : PaymentKey(a)' = PaymentKey(a)
  BY <1>5 DEF PaymentKey
<1>9. RecordsHold'
  <2> SUFFICES ASSUME NEW b \in 1 .. n + 1
               PROVE  /\ record'[b].state # "draft"
                      /\ record'[b].state # "failed" => byKey'[record'[b].key] = b
                      /\ ~ record'[b].live => record'[b].state = "failed"
                      /\ record'[b].attempt < attempts'[record'[b].key]
                      /\ record'[b].intent \in {NoIntent, PaymentKey(b)'}
    BY <1>4 DEF RecordsHold
  <2>1. CASE b = n + 1
    <3>1. record'[b].state = "pending_payment" /\ record'[b].key = k
      BY <1>6, <2>1
    <3>2. byKey'[k] = b
      BY <1>1, <1>2, <2>1
    <3>3. record'[b].attempt < attempts'[record'[b].key]
      BY <1>6, <1>15, <2>1
    <3>4. record'[b].live
      BY <1>6, <2>1, Zenon
    <3>5. record'[b].intent = NoIntent
      BY <1>6, <2>1
    <3> QED
      BY <3>1, <3>2, <3>3, <3>4, <3>5
  <2>2. CASE b \in 1 .. n
    <3>1. /\ record[b].state # "draft"
          /\ record[b].state # "failed" => byKey[record[b].key] = b
          /\ record[b].attempt < attempts[record[b].key]
          /\ record[b].intent \in {NoIntent, PaymentKey(b)}
          /\ ~ record[b].live => record[b].state = "failed"
      BY <2>2 DEF Inv, RecordsHold
    <3>2. record[b].key \in Keys /\ record[b].attempt \in Nat
      BY <1>2, <1>5, <2>2 DEF Recorded
    <3>3. record'[b].state # "failed" => byKey'[record'[b].key] = b
      BY <1>1, <1>2, <1>5, <2>2, <3>1, <3>2
    <3>4. record'[b].attempt < attempts'[record'[b].key]
      BY <1>5, <1>15, <2>2, <3>1, <3>2
    <3>5. record'[b].state # "draft" /\ record'[b].intent \in {NoIntent, PaymentKey(b)'}
      BY <1>5, <1>8, <2>2, <3>1
    <3>6. ~ record'[b].live => record'[b].state = "failed"
      BY <1>5, <2>2, <3>1
    <3> QED
      BY <3>3, <3>4, <3>5, <3>6
  <2> QED
    BY <1>4, <2>1, <2>2
<1>10. KeysHold'
  <2>1. /\ byKey' = [byKey EXCEPT ![k] = n + 1] /\ pending' = [pending EXCEPT ![k] = n + 1]
        /\ byKey \in [Keys -> 0 .. n] /\ pending \in [Keys -> 0 .. n]
        /\ Len(record') = n + 1 /\ n \in Nat /\ record'[n + 1].key = k
        /\ \A a \in 1 .. n : record'[a].key = record[a].key /\ record'[a].attempt = record[a].attempt
    BY <1>1, <1>2, <1>4, <1>5, <1>6
  <2>2. \A a \in 1 .. n : ~ (record[a].key = k /\ record[a].attempt = attempts[k])
    <3> SUFFICES ASSUME NEW a \in 1 .. n, record[a].key = k, record[a].attempt = attempts[k]
                 PROVE  FALSE
      OBVIOUS
    <3>1. record[a].attempt < attempts[record[a].key]
      BY DEF Inv, RecordsHold
    <3> QED
      BY <1>2, <3>1
  <2>3. \A a, b \in 1 .. n :
          record[a].key = record[b].key /\ record[a].attempt = record[b].attempt => a = b
    BY DEF Inv, KeysHold
  <2>4. \A a, b \in 1 .. n + 1 :
          record'[a].key = record'[b].key /\ record'[a].attempt = record'[b].attempt => a = b
    <3> HIDE DEF n
    <3> SUFFICES ASSUME NEW a \in 1 .. n + 1, NEW b \in 1 .. n + 1, record'[a].key = record'[b].key,
                        record'[a].attempt = record'[b].attempt
                 PROVE  a = b
      OBVIOUS
    <3>1. (a \in 1 .. n \/ a = n + 1) /\ (b \in 1 .. n \/ b = n + 1)
      BY <2>1
    <3>2. CASE a \in 1 .. n /\ b \in 1 .. n
      BY <2>1, <2>3, <3>2
    <3>3. CASE a = n + 1 /\ b \in 1 .. n
      BY <1>6, <2>1, <2>2, <3>3
    <3>4. CASE b = n + 1 /\ a \in 1 .. n
      BY <1>6, <2>1, <2>2, <3>4
    <3> QED
      BY <3>1, <3>2, <3>3, <3>4
  <2> HIDE DEF n
  <2>5. \A j \in Keys : byKey'[j] # 0 => record'[byKey'[j]].key = j
    BY <2>1 DEF Inv, KeysHold
  <2>6. \A j \in Keys : pending'[j] # 0 => record'[pending'[j]].key = j
    BY <2>1 DEF Inv, KeysHold
  <2> QED
    BY <2>1, <2>4, <2>5, <2>6 DEF KeysHold
<1>11. \A i : Captured(i)' = Captured(i)
  BY <1>1 DEF Captured
<1>12. MoneyHolds'
  <2>1. UNCHANGED <<bookingOf, confirming>>
    BY <1>1
  <2>2. \A i \in PaymentKeys : bookingOf[i] # 0 => bookingOf[i] \in 1 .. n
    BY <1>2, <1>4
  <2>3. \A i \in PaymentKeys : bookingOf[i] # 0 => record'[bookingOf[i]].intent = i
    BY <1>5, <2>2 DEF Inv, MoneyHolds
  <2> QED
    BY <1>11, <2>1, <2>3 DEF Inv, MoneyHolds
<1>13. SoldIsPaid'
  <2> SUFFICES ASSUME NEW b \in 1 .. n + 1,
                      record'[b].state \in {"confirmed", "completed", "cancelled", "refunded"}
               PROVE  /\ record'[b].intent # NoIntent /\ Captured(record[b].intent)'
                      /\ bookingOf'[record'[b].intent] = b
    <3>1. DOMAIN record' = 1 .. n + 1
      BY <1>4
    <3> QED
      BY <3>1 DEF SoldIsPaid
  <2>1. b \in 1 .. n
    BY <1>4, <1>6
  <2>2. b \in DOMAIN record /\ record'[b].intent = record[b].intent
        /\ record'[b].state = record[b].state
    BY <1>4, <1>5, <2>1
  <2>3. record[b].intent # NoIntent /\ Captured(record[b].intent)
        /\ bookingOf[record[b].intent] = b
    BY <2>2 DEF Inv, SoldIsPaid
  <2>5. bookingOf' = bookingOf /\ Captured(record[b].intent)'
    BY <1>1, <2>2, <2>3 DEF Captured
  <2> QED
    BY <2>2, <2>3, <2>5
<1>14. NoSlotOversold'
  <2> SUFFICES ASSUME NEW s \in Slots
               PROVE  Cardinality(Holding(s)') <= Capacity
    BY DEF NoSlotOversold
  <2>1. IsFiniteSet(Holding(s)) /\ Cardinality(Holding(s)) \in Nat
    BY HoldingFinite DEF Inv
  <2>2. /\ IsFiniteSet(Holding(s) \cup {n + 1})
        /\ Cardinality(Holding(s) \cup {n + 1}) <= Cardinality(Holding(s)) + 1
    <3>1. Cardinality(Holding(s) \cup {n + 1})
            = IF n + 1 \in Holding(s) THEN Cardinality(Holding(s)) ELSE Cardinality(Holding(s)) + 1
      BY <2>1, FS_AddElement
    <3> QED
      BY <2>1, <3>1, FS_AddElement
  <2>3. CASE s = SlotOf[r]
    <3>1. Cardinality(Holding(s)) < Capacity
      BY <1>1, <2>3 DEF HasRoom
    <3>2. Holding(s)' \subseteq Holding(s) \cup {n + 1}
      BY <1>4, <1>5 DEF Holding
    <3>3. IsFiniteSet(Holding(s)') /\ Cardinality(Holding(s)') <= Cardinality(Holding(s) \cup {n + 1})
      BY <2>2, <3>2, FS_Subset
    <3> QED
      BY <2>1, <2>2, <3>1, <3>3, FS_CardinalityType, EngineAssumption
  <2>4. CASE s # SlotOf[r]
    <3>1. Holding(s)' \subseteq Holding(s)
      BY <1>4, <1>5, <1>6, <2>4 DEF Holding
    <3>2. IsFiniteSet(Holding(s)') /\ Cardinality(Holding(s)') <= Cardinality(Holding(s))
      BY <2>1, <3>1, FS_Subset
    <3>3. Cardinality(Holding(s)) <= Capacity
      BY DEF Inv, NoSlotOversold
    <3> QED
      BY <2>1, <3>2, <3>3, FS_CardinalityType, EngineAssumption
  <2> QED
    BY <2>3, <2>4
<1> QED
  BY <1>7, <1>9, <1>10, <1>12, <1>13, <1>14 DEF Inv

-----------------------------------------------------------------------------
(***************************************************************************)
(* The provider, and what goes on after an await.                          *)
(***************************************************************************)

\* A capture stays one, whatever the provider does next.
LEMMA ProviderKeeps ==
  ASSUME Inv,
         UNCHANGED <<record, byKey, pending, attempts, bookingOf, offered, confirming>>,
         intent' \in [PaymentKeys -> [state : IntentState, refunded : 0 .. Price]],
         \A i \in PaymentKeys : Captured(i) => Captured(i)'
  PROVE  Inv'
<1>1. EngineTypeOK'
  BY DEF Inv, EngineTypeOK, IntentState, PaymentKeys, Call, Recorded
<1>2. RecordsHold' /\ KeysHold'
  <2>1. \A b : PaymentKey(b)' = PaymentKey(b)
    BY DEF PaymentKey
  <2> QED
    BY <2>1 DEF Inv, RecordsHold, KeysHold
<1>3. MoneyHolds'
  <2>1. \A c \in Callers : confirming[c].step = "verify" => confirming[c].intent \in PaymentKeys
    BY DEF Inv, EngineTypeOK, Call, NoCall
  <2> QED
    BY <2>1 DEF Inv, MoneyHolds
<1>4. SoldIsPaid'
  <2>1. \A b \in DOMAIN record : record[b].intent # NoIntent => record[b].intent \in PaymentKeys
    BY RecordTyped DEF Inv, Recorded
  <2> QED
    BY <2>1 DEF Inv, SoldIsPaid
<1>5. NoSlotOversold'
  BY DEF Inv, NoSlotOversold, Holding
<1> QED
  BY <1>1, <1>2, <1>3, <1>4, <1>5 DEF Inv

\* A new intent captures nothing.
LEMMA ProviderCreatesKeeps ==
  ASSUME Inv, NEW k \in Keys, ProviderCreates(k)
  PROVE  Inv'
<1> DEFINE i == PaymentKey(pending[k])
<1>1. /\ pending[k] \in 1 .. Len(record) /\ intent[i].state = "none"
      /\ intent' = [intent EXCEPT ![i].state = "requires_payment"]
      /\ UNCHANGED <<record, byKey, pending, attempts, bookingOf, offered, confirming>>
  BY RecordTyped DEF ProviderCreates, Inv, EngineTypeOK
<1>2. i \in PaymentKeys
  BY <1>1, PaymentKeyIsOne DEF Inv
<1> HIDE DEF i
<1>3. intent' \in [PaymentKeys -> [state : IntentState, refunded : 0 .. Price]]
  BY <1>1, <1>2 DEF Inv, EngineTypeOK, IntentState
<1>4. \A j \in PaymentKeys : Captured(j) => Captured(j)'
  BY <1>1, <1>2 DEF Inv, EngineTypeOK, Captured
<1> QED
  BY <1>1, <1>3, <1>4, ProviderKeeps

\* A payment that settles takes no capture back.
LEMMA CompletePaymentKeeps ==
  ASSUME Inv, NEW i \in PaymentKeys, NEW outcome \in {"succeeded", "failed"},
         CompletePayment(i, outcome)
  PROVE  Inv'
<1>1. /\ intent[i].state = "requires_payment"
      /\ intent' = [intent EXCEPT ![i].state = outcome]
      /\ UNCHANGED <<record, byKey, pending, attempts, bookingOf, offered, confirming>>
  BY DEF CompletePayment
<1>2. intent' \in [PaymentKeys -> [state : IntentState, refunded : 0 .. Price]]
  BY <1>1 DEF Inv, EngineTypeOK, IntentState
<1>3. \A j \in PaymentKeys : Captured(j) => Captured(j)'
  BY <1>1 DEF Inv, EngineTypeOK, Captured
<1> QED
  BY <1>1, <1>2, <1>3, ProviderKeeps

\* A refund leaves its intent captured.
LEMMA RefundPaymentKeeps ==
  ASSUME Inv, NEW i \in PaymentKeys, NEW amount \in 1 .. Price, RefundPayment(i, amount)
  PROVE  Inv'
<1> DEFINE e == [state |-> IF intent[i].refunded + amount = Price THEN "refunded"
                                                                  ELSE "partially_refunded",
                 refunded |-> intent[i].refunded + amount]
<1>1. /\ intent[i].refunded + amount <= Price
      /\ intent' = [intent EXCEPT ![i] = e]
      /\ UNCHANGED <<record, byKey, pending, attempts, bookingOf, offered, confirming>>
  BY DEF RefundPayment
<1>2. intent \in [PaymentKeys -> [state : IntentState, refunded : 0 .. Price]] /\ Price \in Nat
  BY EngineAssumption DEF Inv, EngineTypeOK
<1>3. e \in [state : IntentState, refunded : 0 .. Price]
  <2>1. intent[i].refunded \in 0 .. Price
    BY <1>2
  <2> QED
    BY <1>1, <1>2, <2>1 DEF IntentState
<1>4. e.state \in {"refunded", "partially_refunded"}
  OBVIOUS
<1> HIDE DEF e
<1>5. intent' \in [PaymentKeys -> [state : IntentState, refunded : 0 .. Price]]
  BY <1>1, <1>2, <1>3
<1>6. \A j \in PaymentKeys : Captured(j) => Captured(j)'
  BY <1>1, <1>2, <1>4 DEF Captured
<1> QED
  BY <1>1, <1>5, <1>6, ProviderKeeps

\* A slot that closes takes no more bookings.
LEMMA SlotClosesKeeps ==
  ASSUME Inv, NEW s \in Slots, SlotCloses(s)
  PROVE  Inv'
<1>1. /\ offered' = offered \ {s}
      /\ UNCHANGED <<record, byKey, pending, attempts, intent, bookingOf, confirming>>
  BY DEF SlotCloses
<1>2. EngineTypeOK'
  BY <1>1 DEF Inv, EngineTypeOK, IntentState, PaymentKeys, Call, Recorded
<1>3. RecordsHold' /\ KeysHold' /\ MoneyHolds' /\ SoldIsPaid' /\ NoSlotOversold'
  BY <1>1 DEF Inv, RecordsHold, KeysHold, MoneyHolds, SoldIsPaid, NoSlotOversold, Holding,
              Captured, PaymentKey
<1> QED
  BY <1>2, <1>3 DEF Inv

\* A confirmation looks up its record and asks the provider.
LEMMA ConfirmStartKeeps ==
  ASSUME Inv, NEW c \in Callers, NEW i \in PaymentKeys, ConfirmStart(c, i)
  PROVE  Inv'
<1> DEFINE e == [step |-> "verify", booking |-> bookingOf[i], intent |-> i,
                 saw |-> intent[i].state]
<1>1. /\ bookingOf[i] # 0 /\ confirming' = [confirming EXCEPT ![c] = e]
      /\ UNCHANGED <<record, byKey, pending, attempts, intent, bookingOf, offered>>
  BY DEF ConfirmStart
<1>2. bookingOf[i] \in Ids /\ intent[i].state \in IntentState
  <2>1. /\ bookingOf \in [PaymentKeys -> 0 .. Len(record)] /\ Len(record) <= MaxRecords
        /\ intent \in [PaymentKeys -> [state : IntentState, refunded : 0 .. Price]]
        /\ Len(record) \in Nat /\ MaxRecords \in Nat
    BY RecordTyped, EngineAssumption DEF Inv, EngineTypeOK
  <2> QED
    BY <1>1, <2>1 DEF Ids
<1>3. e \in Call
  BY <1>2 DEF Call
<1>4. e.booking = bookingOf[i] /\ e.intent = i /\ e.saw = intent[i].state
  OBVIOUS
<1> HIDE DEF e
<1>5. confirming \in [Callers -> Call] /\ confirming' \in [Callers -> Call]
  BY <1>1, <1>3 DEF Inv, EngineTypeOK
<1>6. EngineTypeOK'
  BY <1>1, <1>5 DEF Inv, EngineTypeOK, IntentState, PaymentKeys, Call, Recorded
<1>7. RecordsHold' /\ KeysHold' /\ SoldIsPaid' /\ NoSlotOversold'
  BY <1>1 DEF Inv, RecordsHold, KeysHold, SoldIsPaid, NoSlotOversold, Holding,
              Captured, PaymentKey
<1>8. MoneyHolds'
  <2>1. \A j : Captured(j)' = Captured(j)
    BY <1>1 DEF Captured
  <2>2. \A d \in Callers : confirming'[d].step = "verify" =>
          /\ bookingOf[confirming'[d].intent] = confirming'[d].booking
          /\ confirming'[d].saw = "succeeded" => Captured(confirming'[d].intent)
    <3> SUFFICES ASSUME NEW d \in Callers, confirming'[d].step = "verify"
                 PROVE  /\ bookingOf[confirming'[d].intent] = confirming'[d].booking
                        /\ confirming'[d].saw = "succeeded" => Captured(confirming'[d].intent)
      OBVIOUS
    <3>1. CASE d = c
      BY <1>1, <1>4, <1>5, <3>1 DEF Captured
    <3>2. CASE d # c
      BY <1>1, <1>5, <3>2 DEF Inv, MoneyHolds
    <3> QED
      BY <3>1, <3>2
  <2> QED
    BY <1>1, <2>1, <2>2 DEF Inv, MoneyHolds
<1> QED
  BY <1>6, <1>7, <1>8 DEF Inv

\* The engine learns the intent of its booking: a payment key belongs to one
\* record, so no other booking loses its own.
LEMMA IntentReadyKeeps ==
  ASSUME Inv, NEW k \in Keys, IntentReady(k)
  PROVE  Inv'
<1> DEFINE n == Len(record)
           b == pending[k]
           i == PaymentKey(b)
           e == [record[b] EXCEPT !.intent = i]
<1>1. /\ b # 0 /\ bookingOf' = [bookingOf EXCEPT ![i] = b]
      /\ record' = [record EXCEPT ![b] = e]
      /\ pending' = [pending EXCEPT ![k] = 0]
      /\ UNCHANGED <<byKey, attempts, intent, offered, confirming>>
      /\ intent[i].state # "none"
  BY DEF IntentReady
<1>2. /\ n \in Nat /\ DOMAIN record = 1 .. n /\ record \in Seq(Recorded)
      /\ byKey \in [Keys -> 0 .. n] /\ pending \in [Keys -> 0 .. n]
      /\ bookingOf \in [PaymentKeys -> 0 .. n]
  BY RecordTyped DEF Inv, EngineTypeOK
<1>3. b \in 1 .. n
  BY <1>1, <1>2
<1>4. i \in PaymentKeys /\ i # NoIntent
  BY <1>3, PaymentKeyIsOne DEF Inv
<1>5. record[b] \in Recorded
  BY <1>3, RecordTyped DEF Inv
<1> HIDE DEF n, b
<1>6. e \in Recorded
  <2> HIDE DEF i
  <2> QED
    BY <1>4, <1>5 DEF Recorded
<1>7. /\ e.key = record[b].key /\ e.attempt = record[b].attempt /\ e.request = record[b].request
      /\ e.state = record[b].state /\ e.live = record[b].live /\ e.intent = i
  BY <1>5 DEF Recorded
<1> HIDE DEF e
<1>8. /\ record' \in Seq(Recorded) /\ Len(record') = n /\ DOMAIN record' = 1 .. n
      /\ \A a \in 1 .. n : record'[a] = IF a = b THEN e ELSE record[a]
  <2>1. /\ [record EXCEPT ![b] = e] \in Seq(Recorded) /\ Len([record EXCEPT ![b] = e]) = n
        /\ \A a \in 1 .. n : [record EXCEPT ![b] = e][a] = IF a = b THEN e ELSE record[a]
    BY <1>2, <1>3, <1>6, ExceptSeq DEF n
  <2>2. DOMAIN record' = 1 .. Len(record')
    BY <1>1, <2>1, LenProperties
  <2> QED
    BY <1>1, <2>1, <2>2
<1>9. \A a \in 1 .. n :
        /\ record'[a].key = record[a].key /\ record'[a].attempt = record[a].attempt
        /\ record'[a].request = record[a].request /\ record'[a].state = record[a].state
        /\ record'[a].live = record[a].live
        /\ record'[a].intent = IF a = b THEN i ELSE record[a].intent
  BY <1>7, <1>8
<1>10. \A a \in 1 .. n : PaymentKey(a)' = PaymentKey(a)
  BY <1>9 DEF PaymentKey
<1>11. EngineTypeOK'
  <2>1. /\ pending' \in [Keys -> 0 .. n] /\ byKey' \in [Keys -> 0 .. n]
        /\ bookingOf' \in [PaymentKeys -> 0 .. n]
    BY <1>1, <1>2, <1>3, <1>4
  <2>2. /\ intent' \in [PaymentKeys -> [state : IntentState, refunded : 0 .. Price]]
        /\ offered' \subseteq Slots /\ confirming' \in [Callers -> Call]
        /\ attempts' \in [Keys -> 0 .. MaxAttempts] /\ n <= MaxRecords
    BY <1>1 DEF Inv, EngineTypeOK, n
  <2> QED
    BY <1>8, <2>1, <2>2 DEF EngineTypeOK, IntentState, PaymentKeys, Call, Recorded
<1>12. RecordsHold'
  <2> SUFFICES ASSUME NEW a \in 1 .. n
               PROVE  /\ record'[a].state # "draft"
                      /\ record'[a].state # "failed" => byKey'[record'[a].key] = a
                      /\ ~ record'[a].live => record'[a].state = "failed"
                      /\ record'[a].attempt < attempts'[record'[a].key]
                      /\ record'[a].intent \in {NoIntent, PaymentKey(a)'}
    BY <1>8 DEF RecordsHold
  <2>1. /\ record[a].state # "draft"
        /\ record[a].state # "failed" => byKey[record[a].key] = a
        /\ ~ record[a].live => record[a].state = "failed"
        /\ record[a].attempt < attempts[record[a].key]
        /\ record[a].intent \in {NoIntent, PaymentKey(a)}
    BY DEF Inv, RecordsHold, n
  <2>2. record'[a].intent \in {NoIntent, PaymentKey(a)'}
    BY <1>9, <1>10, <2>1
  <2> QED
    BY <1>1, <1>9, <2>1, <2>2
<1>13. KeysHold'
  <2>1. \A j \in Keys : byKey'[j] # 0 => record'[byKey'[j]].key = j
    BY <1>1, <1>2, <1>9 DEF Inv, KeysHold
  <2>2. \A j \in Keys : pending'[j] # 0 => record'[pending'[j]].key = j
    BY <1>1, <1>2, <1>9 DEF Inv, KeysHold
  <2>3. \A a, d \in 1 .. n :
          record[a].key = record[d].key /\ record[a].attempt = record[d].attempt => a = d
    BY DEF Inv, KeysHold, n
  <2>4. \A a, d \in 1 .. n :
          record'[a].key = record'[d].key /\ record'[a].attempt = record'[d].attempt => a = d
    BY <1>9, <2>3
  <2> QED
    BY <1>8, <2>1, <2>2, <2>4 DEF KeysHold
\* Only this record can have the intent i, so whoever is minted under it is b.
<1>14. \A a \in 1 .. n : record[a].intent = i => a = b
  <2> SUFFICES ASSUME NEW a \in 1 .. n, record[a].intent = i
               PROVE  a = b
    OBVIOUS
  <2>1. PaymentKey(a) = PaymentKey(b)
    BY <1>4 DEF Inv, RecordsHold, n
  <2>2. record[a].key = record[b].key /\ record[a].attempt = record[b].attempt
    BY <2>1 DEF PaymentKey
  <2> QED
    BY <1>3, <2>2 DEF Inv, KeysHold, n
<1> HIDE DEF i
<1>15. \A j \in PaymentKeys : bookingOf[j] # 0 =>
         bookingOf[j] \in 1 .. n /\ record[bookingOf[j]].intent = j /\ (j = i => bookingOf[j] = b)
  BY <1>2, <1>14 DEF Inv, MoneyHolds
<1>16. \A j \in PaymentKeys : bookingOf[j] # 0 => bookingOf'[j] = bookingOf[j]
  BY <1>1, <1>2, <1>15
<1>17. \A j : Captured(j)' = Captured(j)
  BY <1>1 DEF Captured
<1>18. MoneyHolds'
  <2>1. \A j \in PaymentKeys : bookingOf'[j] # 0 => record'[bookingOf'[j]].intent = j
    <3> SUFFICES ASSUME NEW j \in PaymentKeys, bookingOf'[j] # 0
                 PROVE  record'[bookingOf'[j]].intent = j
      OBVIOUS
    <3>1. CASE j = i
      BY <1>1, <1>2, <1>3, <1>9, <3>1
    <3>2. CASE j # i
      <4>1. bookingOf'[j] = bookingOf[j]
        BY <1>1, <1>2, <3>2
      <4>2. bookingOf[j] \in 1 .. n /\ record[bookingOf[j]].intent = j
        BY <1>15, <4>1
      <4>3. record'[bookingOf[j]].intent = IF bookingOf[j] = b THEN i ELSE record[bookingOf[j]].intent
        BY <1>9, <4>2
      <4>4. bookingOf[j] # b
        <5> SUFFICES ASSUME bookingOf[j] = b
                     PROVE  FALSE
          OBVIOUS
        <5>1. record[b].intent = j /\ j # NoIntent
          <6>1. \A x \in PaymentKeys : x # NoIntent
            <7> TAKE x \in PaymentKeys
            <7>1. PICK y \in Keys, z \in 0 .. MaxAttempts : x = <<y, z>>
              BY DEF PaymentKeys
            <7>2. Len(<<y, z>>) = 2 /\ Len(NoIntent) = 0
              BY DEF NoIntent
            <7> QED
              BY <7>1, <7>2
          <6> QED
            BY <4>2, <6>1
        <5>2. record[b].intent \in {NoIntent, PaymentKey(b)}
          BY <1>3 DEF Inv, RecordsHold, n
        <5> QED
          BY <3>2, <5>1, <5>2 DEF i
      <4> QED
        BY <4>1, <4>2, <4>3, <4>4
    <3> QED
      BY <3>1, <3>2
  <2>2. \A c \in Callers : confirming[c].step = "verify" =>
          /\ confirming[c].intent \in PaymentKeys /\ confirming[c].booking # 0
          /\ bookingOf[confirming[c].intent] = confirming[c].booking
          /\ confirming[c].saw = "succeeded" => Captured(confirming[c].intent)
    BY EngineAssumption DEF Inv, MoneyHolds, EngineTypeOK, Call, NoCall, Ids
  <2>3. \A c \in Callers : confirming[c].step = "verify" =>
          bookingOf'[confirming[c].intent] = confirming[c].booking
    BY <1>16, <2>2
  <2> QED
    BY <1>1, <1>17, <2>1, <2>2, <2>3 DEF MoneyHolds
<1>19. SoldIsPaid'
  <2> SUFFICES ASSUME NEW a \in 1 .. n,
                      record'[a].state \in {"confirmed", "completed", "cancelled", "refunded"}
               PROVE  /\ record'[a].intent # NoIntent /\ Captured(record[a].intent)'
                      /\ bookingOf'[record'[a].intent] = a
    <3>1. DOMAIN record' = 1 .. n
      BY <1>8
    <3> QED
      BY <3>1 DEF SoldIsPaid
  <2>1. /\ record[a].intent # NoIntent /\ Captured(record[a].intent)
        /\ bookingOf[record[a].intent] = a
    BY <1>2, <1>9 DEF Inv, SoldIsPaid
  <2>2. record[a].intent \in PaymentKeys /\ a # 0
    BY <2>1, RecordTyped DEF Inv, Recorded, n
  <2>3. record'[a].intent = record[a].intent
    BY <1>9, <1>15, <2>1, <2>2, RecordTyped DEF Inv, RecordsHold, i, n
  <2>4. bookingOf'[record[a].intent] = a
    BY <1>16, <2>1, <2>2
  <2>5. Captured(record[a].intent)'
    BY <1>1, <2>1, <2>3 DEF Captured
  <2> QED
    BY <2>1, <2>3, <2>4, <2>5
<1>20. NoSlotOversold'
  <2>1. \A s \in Slots : Holding(s)' \subseteq Holding(s)
    BY <1>2, <1>8, <1>9 DEF Holding
  <2> QED
    BY <2>1, FewerHold DEF Inv
<1> QED
  BY <1>11, <1>12, <1>13, <1>18, <1>19, <1>20 DEF Inv

-----------------------------------------------------------------------------
(***************************************************************************)
(* Moves.                                                                  *)
(***************************************************************************)

\* No move leads to draft or out of failed, and only a payment confirms.
LEMMA LegalMoves ==
  ASSUME Inv, NEW b \in 1 .. Len(record), NEW to, CanMove(b, to)
  PROVE  /\ to \in BookingState \ {"draft", "pending_payment"}
         /\ record[b].state # "failed"
         /\ to = "confirmed" => record[b].state = "pending_payment"
         /\ to \in {"completed", "cancelled", "refunded"} =>
              record[b].state \in {"confirmed", "completed", "cancelled"}
<1>1. record[b].state \in BookingState /\ record[b].state # "draft"
  BY RecordTyped DEF Inv, RecordsHold, Recorded
<1> QED
  BY <1>1 DEF CanMove, Transitions, BookingState

\* A booking without its intent fails, unless it moved meanwhile.
LEMMA IntentRefusedKeeps ==
  ASSUME Inv, NEW k \in Keys, IntentRefused(k)
  PROVE  Inv'
<1> DEFINE b == pending[k]
<1>1. /\ b # 0 /\ pending' = [pending EXCEPT ![k] = 0]
      /\ IF CanMove(b, "failed") THEN Move(b, "failed") ELSE UNCHANGED record
      /\ UNCHANGED <<byKey, attempts, intent, bookingOf, offered, confirming>>
  BY DEF IntentRefused
<1>2. /\ Len(record) \in Nat /\ pending \in [Keys -> 0 .. Len(record)]
      /\ pending' \in [Keys -> 0 .. Len(record)]
  BY <1>1, RecordTyped DEF Inv, EngineTypeOK
<1>3. b \in 1 .. Len(record)
  BY <1>1, <1>2
<1>4. \A j \in Keys : pending'[j] # 0 => pending'[j] = pending[j]
  BY <1>1, <1>2
<1> HIDE DEF b
<1>5. CASE CanMove(b, "failed")
  <2>1. Moved(b, "failed")
    BY <1>1, <1>3, <1>5, MoveMoves DEF Inv, BookingState
  <2>2. /\ Len(record') = Len(record) /\ record' \in Seq(Recorded)
        /\ \A a \in 1 .. Len(record) :
             /\ record[a] \in Recorded
             /\ record'[a].key = record[a].key /\ record'[a].attempt = record[a].attempt
             /\ record'[a].intent = record[a].intent /\ record'[a].live = record[a].live
             /\ record'[a].state = IF a = b THEN "failed" ELSE record[a].state
    BY <2>1, RecordTyped DEF Moved, Recorded, Inv
  <2>3. EngineTypeOK'
    <3>1. /\ byKey' \in [Keys -> 0 .. Len(record)] /\ bookingOf' \in [PaymentKeys -> 0 .. Len(record)]
          /\ intent' \in [PaymentKeys -> [state : IntentState, refunded : 0 .. Price]]
          /\ offered' \subseteq Slots /\ confirming' \in [Callers -> Call]
          /\ attempts' \in [Keys -> 0 .. MaxAttempts] /\ Len(record) <= MaxRecords
      BY <1>1 DEF Inv, EngineTypeOK
    <3> QED
      BY <1>2, <2>2, <3>1 DEF EngineTypeOK, IntentState, PaymentKeys, Call, Recorded
  <2>4. \A a \in 1 .. Len(record) : PaymentKey(a)' = PaymentKey(a)
    BY <2>2 DEF PaymentKey
  <2>5. RecordsHold'
    <3> SUFFICES ASSUME NEW a \in 1 .. Len(record)
                 PROVE  /\ record'[a].state # "draft"
                        /\ record'[a].state # "failed" => byKey'[record'[a].key] = a
                        /\ ~ record'[a].live => record'[a].state = "failed"
                        /\ record'[a].attempt < attempts'[record'[a].key]
                        /\ record'[a].intent \in {NoIntent, PaymentKey(a)'}
      BY <2>2 DEF RecordsHold
    <3>1. /\ record[a].state # "draft"
          /\ record[a].state # "failed" => byKey[record[a].key] = a
          /\ ~ record[a].live => record[a].state = "failed"
          /\ record[a].attempt < attempts[record[a].key]
          /\ record[a].intent \in {NoIntent, PaymentKey(a)}
      BY DEF Inv, RecordsHold
    <3> QED
      BY <1>1, <2>2, <2>4, <3>1
  <2>6. KeysHold'
    <3>1. \A j \in Keys : byKey'[j] # 0 => record'[byKey'[j]].key = j
      <4>1. byKey \in [Keys -> 0 .. Len(record)] /\ byKey' = byKey
        BY <1>1 DEF Inv, EngineTypeOK
      <4> QED
        BY <1>2, <2>2, <4>1 DEF Inv, KeysHold
    <3>2. \A j \in Keys : pending'[j] # 0 => record'[pending'[j]].key = j
      BY <1>2, <1>4, <2>2 DEF Inv, KeysHold
    <3>3. \A a, d \in 1 .. Len(record) :
            record'[a].key = record'[d].key /\ record'[a].attempt = record'[d].attempt => a = d
      BY <2>2 DEF Inv, KeysHold
    <3> QED
      BY <2>2, <3>1, <3>2, <3>3 DEF KeysHold
  <2>7. MoneyHolds' /\ SoldIsPaid'
    BY <1>1, <1>3, <2>1, MovedKeepsMoney DEF Inv, BookingState
  <2>8. NoSlotOversold'
    BY <1>3, <2>1, MovedKeepsRoom DEF Inv, BookingState
  <2> QED
    BY <2>3, <2>5, <2>6, <2>7, <2>8 DEF Inv
<1>6. CASE ~ CanMove(b, "failed")
  <2>1. UNCHANGED <<record, byKey, attempts, intent, bookingOf, offered, confirming>>
    BY <1>1, <1>6
  <2>2. EngineTypeOK'
    BY <1>2, <2>1 DEF Inv, EngineTypeOK, IntentState, PaymentKeys, Call, Recorded
  <2>3. RecordsHold' /\ MoneyHolds' /\ SoldIsPaid' /\ NoSlotOversold'
    BY <2>1 DEF Inv, RecordsHold, MoneyHolds, SoldIsPaid, NoSlotOversold, Holding,
                Captured, PaymentKey
  <2>4. KeysHold'
    BY <1>4, <2>1 DEF Inv, KeysHold
  <2> QED
    BY <2>2, <2>3, <2>4 DEF Inv
<1> QED
  BY <1>5, <1>6

\* A merchant's transition never sells.
LEMMA TransitionKeeps ==
  ASSUME Inv, NEW b \in DOMAIN record, NEW to \in MemberStates, Transition(b, to)
  PROVE  Inv'
<1>1. /\ to # "confirmed" /\ CanMove(b, to) /\ Move(b, to)
      /\ UNCHANGED <<byKey, pending, attempts, intent, bookingOf, offered, confirming>>
  BY DEF Transition
<1>2. b \in 1 .. Len(record) /\ DOMAIN record = 1 .. Len(record)
  BY RecordTyped DEF Inv
<1>3. /\ to \in BookingState \ {"draft"} /\ to # "pending_payment"
      /\ record[b].state # "failed"
      /\ to \in {"completed", "cancelled", "refunded"} =>
           record[b].state \in {"confirmed", "completed", "cancelled"}
  BY <1>1, <1>2, LegalMoves
<1>4. Moved(b, to)
  BY <1>1, <1>2, <1>3, MoveMoves DEF Inv
<1>5. EngineTypeOK'
  <2>1. confirming' \in [Callers -> Call]
    BY <1>1 DEF Inv, EngineTypeOK
  <2> QED
    BY <1>1, <1>2, <1>3, <1>4, <2>1, MovedTyped DEF Inv
<1>6. RecordsHold' /\ KeysHold'
  BY <1>1, <1>2, <1>3, <1>4, MovedKeepsRecords DEF Inv
<1>7. MoneyHolds' /\ SoldIsPaid'
  <2>1. to \in {"confirmed", "completed", "cancelled", "refunded"} =>
          /\ record[b].intent # NoIntent /\ Captured(record[b].intent)
          /\ bookingOf[record[b].intent] = b
    BY <1>1, <1>3 DEF Inv, SoldIsPaid
  <2> QED
    BY <1>1, <1>2, <1>3, <1>4, <2>1, MovedKeepsMoney DEF Inv
<1>8. NoSlotOversold'
  BY <1>1, <1>2, <1>3, <1>4, MovedKeepsRoom DEF Inv
<1> QED
  BY <1>5, <1>6, <1>7, <1>8 DEF Inv

\* What the provider said before the await still holds after it, and whether
\* the record still waits is asked again.
LEMMA ConfirmFinishKeeps ==
  ASSUME Inv, NEW c \in Callers, ConfirmFinish(c)
  PROVE  Inv'
<1> DEFINE p == confirming[c]  b == p.booking
<1>1. /\ p.step = "verify" /\ confirming' = [confirming EXCEPT ![c] = NoCall]
      /\ UNCHANGED <<byKey, pending, attempts, intent, bookingOf, offered>>
      /\ \/ p.saw = "failed" /\ record[b].state = "pending_payment" /\ Move(b, "failed")
         \/ /\ p.saw = "succeeded" /\ record[b].state = "pending_payment"
            /\ Move(b, "confirmed")
         \/ UNCHANGED record
  BY DEF ConfirmFinish, Verdict
<1>2. confirming \in [Callers -> Call] /\ confirming' \in [Callers -> Call]
  BY <1>1 DEF Inv, EngineTypeOK, Call
<1>3. /\ p.intent \in PaymentKeys /\ b \in Ids
      /\ bookingOf[p.intent] = b
      /\ p.saw = "succeeded" => Captured(p.intent)
  BY <1>1, <1>2 DEF Inv, MoneyHolds, Call, NoCall
<1>4. b \in 1 .. Len(record) /\ record[b].intent = p.intent
  <2>1. bookingOf \in [PaymentKeys -> 0 .. Len(record)] /\ Len(record) \in Nat /\ b # 0
    BY <1>3, RecordTyped, EngineAssumption DEF Inv, EngineTypeOK, Ids
  <2> QED
    BY <1>3, <2>1 DEF Inv, MoneyHolds
<1>5. p.intent # NoIntent
  BY <1>3, <1>4, PaymentKeyIsOne DEF Inv, RecordsHold, PaymentKeys, NoIntent
<1> HIDE DEF p, b
<1>6. ASSUME NEW to \in {"failed", "confirmed"}, Move(b, to), record[b].state = "pending_payment",
             to = "confirmed" => Captured(p.intent)
      PROVE  Inv'
  <2>1. Moved(b, to) /\ to \in BookingState \ {"draft"}
    BY <1>4, <1>6, MoveMoves DEF Inv, BookingState
  <2>2. EngineTypeOK'
    BY <1>1, <1>2, <1>4, <2>1, MovedTyped DEF Inv
  <2>3. RecordsHold' /\ KeysHold'
    BY <1>1, <1>4, <1>6, <2>1, MovedKeepsRecords DEF Inv
  <2>4. MoneyHolds' /\ SoldIsPaid'
    BY <1>1, <1>3, <1>4, <1>5, <1>6, <2>1, MovedKeepsMoney DEF Inv
  <2>5. NoSlotOversold'
    BY <1>4, <1>6, <2>1, MovedKeepsRoom DEF Inv
  <2> QED
    BY <2>2, <2>3, <2>4, <2>5 DEF Inv
<1>7. CASE UNCHANGED record
  <2>1. UNCHANGED <<record, byKey, pending, attempts, intent, bookingOf, offered>>
    BY <1>1, <1>7
  <2>2. EngineTypeOK'
    BY <1>2, <2>1 DEF Inv, EngineTypeOK, IntentState, PaymentKeys, Call, Recorded
  <2>3. RecordsHold' /\ KeysHold' /\ SoldIsPaid' /\ NoSlotOversold'
    BY <2>1 DEF Inv, RecordsHold, KeysHold, SoldIsPaid, NoSlotOversold, Holding,
                Captured, PaymentKey
  <2>4. MoneyHolds'
    <3>1. \A d \in Callers : confirming'[d].step = "verify" => confirming'[d] = confirming[d]
      BY <1>1, <1>2 DEF NoCall
    <3>2. \A j : Captured(j)' = Captured(j)
      BY <2>1 DEF Captured
    <3> QED
      BY <2>1, <3>1, <3>2 DEF Inv, MoneyHolds
  <2> QED
    BY <2>2, <2>3, <2>4 DEF Inv
<1> QED
  BY <1>1, <1>3, <1>6, <1>7

-----------------------------------------------------------------------------
(***************************************************************************)
(* The theorem.                                                            *)
(***************************************************************************)

\* The engine starts without records.
LEMMA EngineStarts ==
  ASSUME EngineInit
  PROVE  Inv
<1>1. record = <<>> /\ Len(record) = 0 /\ record \in Seq(Recorded) /\ DOMAIN record = {}
  <2>1. record = <<>>
    BY DEF EngineInit
  <2>2. record \in Seq(Recorded) /\ Len(record) = 0
    BY <2>1, EmptySeq
  <2> QED
    BY <2>1, <2>2
<1>2. EngineTypeOK
  BY <1>1, EngineAssumption
     DEF EngineInit, EngineTypeOK, IntentState, Call, NoCall
<1>3. RecordsHold /\ KeysHold /\ MoneyHolds /\ SoldIsPaid
  BY <1>1 DEF EngineInit, RecordsHold, KeysHold, MoneyHolds, SoldIsPaid, NoCall
<1>4. NoSlotOversold
  <2>1. \A s \in Slots : Holding(s) = {}
    BY <1>1 DEF Holding
  <2> QED
    BY <2>1, FS_EmptySet, EngineAssumption DEF NoSlotOversold
<1> QED
  BY <1>2, <1>3, <1>4 DEF Inv

\* Every step of the engine keeps the invariant.
LEMMA EngineSteps ==
  ASSUME Inv, [EngineNext]_engine
  PROVE  Inv'
<1>1. ASSUME NEW k \in Keys, NEW r \in Requests, Create(k, r) \/ CreateRefused(k, r)
      PROVE  Inv'
  BY <1>1, CreateKeeps, CreateRefusedKeeps
<1>2. ASSUME NEW k \in Keys, ProviderCreates(k) \/ IntentReady(k) \/ IntentRefused(k)
      PROVE  Inv'
  BY <1>2, ProviderCreatesKeeps, IntentReadyKeeps, IntentRefusedKeeps
<1>3. ASSUME NEW b \in DOMAIN record, NEW to \in MemberStates, Transition(b, to)
      PROVE  Inv'
  BY <1>3, TransitionKeeps
<1>4. ASSUME NEW c \in Callers, NEW i \in PaymentKeys, ConfirmStart(c, i)
      PROVE  Inv'
  BY <1>4, ConfirmStartKeeps
<1>5. ASSUME NEW c \in Callers, ConfirmFinish(c)
      PROVE  Inv'
  BY <1>5, ConfirmFinishKeeps
<1>6. ASSUME NEW i \in PaymentKeys,
             \/ \E outcome \in {"succeeded", "failed"} : CompletePayment(i, outcome)
             \/ \E amount \in 1 .. Price : RefundPayment(i, amount)
      PROVE  Inv'
  BY <1>6, CompletePaymentKeeps, RefundPaymentKeeps
<1>7. ASSUME NEW s \in Slots, SlotCloses(s)
      PROVE  Inv'
  BY <1>7, SlotClosesKeeps
<1>8. CASE UNCHANGED engine
  BY <1>8 DEF engine, Inv, EngineTypeOK, RecordsHold, KeysHold, MoneyHolds, SoldIsPaid,
              NoSlotOversold, Holding, Captured, PaymentKey, IntentState, PaymentKeys,
              Call, Recorded
<1> QED
  BY <1>1, <1>2, <1>3, <1>4, <1>5, <1>6, <1>7, <1>8 DEF EngineNext

\* The invariant is what soundness needs.
LEMMA InvIsSound ==
  ASSUME Inv
  PROVE  BookingsAreSound
<1>1. DOMAIN record = 1 .. Len(record)
  BY RecordTyped DEF Inv
<1>2. OneBookingPerKey
  <2>1. \A a, b \in DOMAIN record :
          record[a].key = record[b].key
            /\ record[a].state # "failed" /\ record[b].state # "failed" => a = b
    BY <1>1 DEF Inv, RecordsHold
  <2>2. \A b \in DOMAIN record : ~ record[b].live => record[b].state = "failed"
    BY <1>1 DEF Inv, RecordsHold
  <2> QED
    BY <2>1, <2>2 DEF OneBookingPerKey
<1> QED
  BY <1>2 DEF Inv, BookingsAreSound

\* Whatever submits, confirmations, failures, refunds and merchant's moves
\* overlap at their awaits, a key has one booking that did not fail, no slot is
\* promised beyond its capacity, and a booking that was ever confirmed has an
\* intent of its own that captured its price (core/src/booking.ts).
THEOREM EngineIsSound == EngineSpec => []BookingsAreSound
<1>1. EngineInit => Inv
  BY EngineStarts
<1>2. Inv /\ [EngineNext]_engine => Inv'
  BY EngineSteps
<1>3. Inv => BookingsAreSound
  BY InvIsSound
<1> QED
  BY <1>1, <1>2, <1>3, PTL DEF EngineSpec

-----------------------------------------------------------------------------
(* The checkout page over the engine.                                      *)

JobShape ==
  {NoJob} \cup [stage : {"create"}, kind : JobKinds, key : Keys, booking : Nat]
          \cup [stage : {"charge", "ask", "confirm"}, kind : {"succeeded", "failed"},
                booking : Nat, intent : PaymentKeys]
PageShape ==
  [step : {Steps[n] : n \in DOMAIN Steps}, selection : Selections \cup {None},
   slot : Slots \cup {None}, slotPending : BOOLEAN, customer : Customers \cup {None},
   key : Keys, booking : Nat, intent : PaymentKeys \cup {NoIntent},
   status : {"idle", "working", "failed", "succeeded"}]
PageShapes ==
  /\ EngineTypeOK
  /\ page \in PageShape /\ page.booking <= Len(record)
  /\ job \in JobShape

\* A record of the page's engine, which a reload empties: while it is live it is
\* its key's, and lacks its intent only while it is being created.
RecordIs(b) ==
  /\ record[b].intent \in {NoIntent, PaymentKey(b)}
  /\ record[b].live =>
       /\ byKey[record[b].key] = b /\ record[b].attempt < attempts[record[b].key]
       /\ record[b].state \in {"pending_payment", "confirmed", "failed"}
       /\ record[b].intent = NoIntent /\ record[b].state # "failed" =>
            pending[record[b].key] = b
       /\ record[b].intent # NoIntent =>
            /\ bookingOf[record[b].intent] = b
            /\ intent[record[b].intent].state # "none"
\* A key has a live record, and no intent of an attempt to come.
KeyIs(k) ==
  /\ byKey[k] # 0 => record[byKey[k]].key = k /\ record[byKey[k]].live
  /\ pending[k] # 0 =>
       /\ byKey[k] = pending[k]
       /\ record[pending[k]].intent = NoIntent
       /\ record[pending[k]].state = "pending_payment"
       /\ intent[PaymentKey(pending[k])].state \in {"none", "requires_payment"}
  /\ \A a \in attempts[k] .. MaxAttempts : intent[<<k, a>>].state = "none"
\* What the provider settled is what the page's job is about to ask for, or what
\* the engine has made of its booking.
IntentIs(i) ==
  /\ intent[i].state \in {"none", "requires_payment", "succeeded", "failed"}
  /\ bookingOf[i] # 0 =>
       /\ record[bookingOf[i]].intent = i
       /\ ~ record[bookingOf[i]].live => record[bookingOf[i]].state = "failed"
  /\ intent[i].state \in {"succeeded", "failed"} =>
       \/ job.stage \in {"ask", "confirm"} /\ job.intent = i /\ job.kind = intent[i].state
       \/ /\ bookingOf[i] # 0
          /\ record[bookingOf[i]].state =
               IF intent[i].state = "succeeded" THEN "confirmed" ELSE "failed"
EngineIs ==
  /\ \A b \in 1 .. Len(record) : RecordIs(b)
  /\ \A k \in Keys : KeyIs(k)
  /\ \A i \in PaymentKeys : IntentIs(i)

\* The wizard: a request may change only before the customer's details, where a
\* key is left to move to, and options are chosen of a service that has some.
WizardIs ==
  /\ page.step \in {"service", "configure", "summary", "slot"} => MayRotate
  /\ page.step # "service" => page.selection # None
  /\ page.step = "configure" => ServiceOf[page.selection] \in Configurable
  /\ (page.step = "confirmation" <=> page.status = "succeeded")
  /\ job # NoJob => page.step = "payment" /\ ~ mounting

\* The key of the page is used for the request on the page only, by a booking
\* that is or becomes the page's and is not sold before the page says so.
KeyIsPages ==
  /\ \A k \in Keys : k > page.key => byKey[k] = 0
  /\ \A k \in Keys : pending[k] # 0 => job.stage = "create" /\ job.key = k
  /\ byKey[page.key] # 0 =>
       /\ record[byKey[page.key]].request = Current
       /\ page.booking # 0 \/ job.stage = "create"
       /\ page.step # "confirmation" => record[byKey[page.key]].state # "confirmed"
\* The booking of the page, its request and its intent.
BookingIsPages ==
  /\ page.step = "confirmation" => page.booking # 0
  /\ page.booking # 0 =>
       /\ record[page.booking].request = Current
       /\ \A k \in Keys : pending[k] # page.booking
       /\ page.step = "confirmation" => record[page.booking].state = "confirmed"
       /\ record[page.booking].state = "pending_payment" /\ page.intent # NoIntent =>
            /\ record[page.booking].intent = page.intent
            /\ job.stage # "create" /\ intent[page.intent].state # "none" =>
                 bookingOf[page.intent] = page.booking
\* The page's job and what it captured.
CreatesForPage ==
  job.stage = "create" =>
    /\ job.key = page.key /\ job.booking \in 1 .. Len(record)
    /\ record[job.booking].live /\ record[job.booking].key = page.key
    /\ record[job.booking].request = Current
    /\ pending[page.key] \in {0, job.booking}
PaysForPage ==
  job.stage \in {"charge", "ask", "confirm"} =>
    /\ job.booking = page.booking /\ page.booking # 0 /\ job.intent = page.intent
    /\ bookingOf[job.intent] = job.booking
    /\ record[job.booking].state = "pending_payment"
    /\ intent[job.intent].state = IF job.stage = "charge" THEN "requires_payment" ELSE job.kind
Asks ==
  confirming[Page] =
    IF job.stage = "confirm"
    THEN [step |-> "verify", booking |-> job.booking, intent |-> job.intent, saw |-> job.kind]
    ELSE NoCall
PageInv ==
  /\ PageShapes /\ EngineIs /\ WizardIs /\ KeyIsPages /\ BookingIsPages
  /\ CreatesForPage /\ PaysForPage /\ Asks

-----------------------------------------------------------------------------
\* The types, field by field.
LEMMA Sizes ==
  ASSUME PageShapes
  PROVE  /\ Len(record) \in Nat /\ DOMAIN record = 1 .. Len(record)
         /\ MaxAttempts \in Nat
         /\ byKey \in [Keys -> 0 .. Len(record)] /\ pending \in [Keys -> 0 .. Len(record)]
         /\ attempts \in [Keys -> 0 .. MaxAttempts]
         /\ intent \in [PaymentKeys -> [state : IntentState, refunded : 0 .. Price]]
         /\ bookingOf \in [PaymentKeys -> 0 .. Len(record)]
         /\ confirming \in [Callers -> Call]
         /\ \A b \in 1 .. Len(record) :
              /\ record[b] \in Recorded
              /\ record[b].key \in Keys /\ record[b].attempt \in 0 .. MaxAttempts
              /\ record[b].live \in BOOLEAN /\ record[b].request \in Requests
              /\ record[b].intent \in PaymentKeys \cup {NoIntent}
              /\ PaymentKey(b) \in PaymentKeys /\ PaymentKey(b) # NoIntent
<1>1. EngineTypeOK
  BY DEF PageShapes
<1>2. \A b \in 1 .. Len(record) : PaymentKey(b) \in PaymentKeys /\ PaymentKey(b) # NoIntent
  BY <1>1, PaymentKeyIsOne
<1>3. \A b \in 1 .. Len(record) : record[b] \in Recorded
  BY <1>1, RecordTyped
<1>4. \A b \in 1 .. Len(record) :
        /\ record[b].key \in Keys /\ record[b].attempt \in 0 .. MaxAttempts
        /\ record[b].live \in BOOLEAN /\ record[b].request \in Requests
        /\ record[b].intent \in PaymentKeys \cup {NoIntent}
  <2> HIDE DEF PaymentKeys, NoIntent
  <2> QED BY <1>3 DEF Recorded
<1> QED
  BY <1>1, <1>2, <1>3, <1>4, RecordTyped, EngineAssumption DEF EngineTypeOK

\* And of the page.
LEMMA PageFields ==
  ASSUME PageShapes
  PROVE  /\ page.step \in {"service", "configure", "summary", "slot", "customer", "payment",
                           "confirmation"}
         /\ page.selection \in Selections \cup {None} /\ page.slot \in Slots \cup {None}
         /\ page.slotPending \in BOOLEAN /\ page.customer \in Customers \cup {None}
         /\ page.key \in Keys /\ page.key \in Nat /\ page.booking \in 0 .. Len(record)
         /\ page.intent \in PaymentKeys \cup {NoIntent}
         /\ page.status \in {"idle", "working", "failed", "succeeded"}
<1>1. page \in PageShape /\ page.booking <= Len(record) /\ Len(record) \in Nat
  BY Sizes DEF PageShapes
<1> DEFINE T == {Steps[m] : m \in DOMAIN Steps}
<1>2. page \in [step : T, selection : Selections \cup {None}, slot : Slots \cup {None},
                slotPending : BOOLEAN, customer : Customers \cup {None}, key : Keys,
                booking : Nat, intent : PaymentKeys \cup {NoIntent},
                status : {"idle", "working", "failed", "succeeded"}]
  BY <1>1 DEF PageShape
<1>3. page.step \in T => page.step \in {"service", "configure", "summary", "slot", "customer",
                                       "payment", "confirmation"}
  BY DEF Steps
<1> HIDE DEF T
<1>4. /\ page.step \in T /\ page.selection \in Selections \cup {None}
      /\ page.slot \in Slots \cup {None} /\ page.slotPending \in BOOLEAN
      /\ page.customer \in Customers \cup {None} /\ page.key \in Keys /\ page.booking \in Nat
      /\ page.intent \in PaymentKeys \cup {NoIntent}
      /\ page.status \in {"idle", "working", "failed", "succeeded"}
  BY <1>2
<1>5. page.key \in Nat
  BY <1>4, PageAssumption
<1>6. page.booking \in 0 .. Len(record)
  BY <1>1, <1>4
<1> QED
  BY <1>3, <1>4, <1>5, <1>6

\* The names of the wizard's steps.
LEMMA StepNames ==
  /\ "service" \in {Steps[m] : m \in DOMAIN Steps} /\ "configure" \in {Steps[m] : m \in DOMAIN Steps}
  /\ "summary" \in {Steps[m] : m \in DOMAIN Steps} /\ "slot" \in {Steps[m] : m \in DOMAIN Steps}
  /\ "customer" \in {Steps[m] : m \in DOMAIN Steps} /\ "payment" \in {Steps[m] : m \in DOMAIN Steps}
  /\ "confirmation" \in {Steps[m] : m \in DOMAIN Steps}
<1> DOMAIN Steps = 1 .. 7
  BY DEF Steps
<1> 1 \in 1 .. 7 /\ 2 \in 1 .. 7 /\ 3 \in 1 .. 7 /\ 4 \in 1 .. 7 /\ 5 \in 1 .. 7 /\ 6 \in 1 .. 7 /\ 7 \in 1 .. 7
  OBVIOUS
<1> Steps[1] = "service" /\ Steps[2] = "configure" /\ Steps[3] = "summary" /\ Steps[4] = "slot"
    /\ Steps[5] = "customer" /\ Steps[6] = "payment" /\ Steps[7] = "confirmation"
  BY DEF Steps
<1> QED
  BY Zenon

\* A job is none, or creates, or pays.
LEMMA JobFields ==
  ASSUME PageShapes
  PROVE  /\ job.stage \in {"none", "create", "charge", "ask", "confirm"}
         /\ (job = NoJob <=> job.stage = "none")
         /\ job.stage = "create" =>
              job.kind \in JobKinds /\ job.key \in Keys /\ job.booking \in Nat
         /\ job.stage \in {"charge", "ask", "confirm"} =>
              /\ job.kind \in {"succeeded", "failed"} /\ job.booking \in Nat
              /\ job.intent \in PaymentKeys
              /\ job \in [stage : {"charge", "ask", "confirm"}, kind : {"succeeded", "failed"},
                          booking : Nat, intent : PaymentKeys]
<1> DEFINE C == [stage : {"create"}, kind : JobKinds, key : Keys, booking : Nat]
           M == [stage : {"charge", "ask", "confirm"}, kind : {"succeeded", "failed"},
                 booking : Nat, intent : PaymentKeys]
<1>1. job = NoJob \/ job \in C \/ job \in M
  BY DEF PageShapes, JobShape
<1>2. NoJob.stage = "none"
  BY DEF NoJob
<1> HIDE DEF PaymentKeys, NoJob
<1>3. CASE job = NoJob
  BY <1>2, <1>3
<1>4. CASE job \in C
  BY <1>2, <1>4
<1>5. CASE job \in M
  BY <1>2, <1>5
<1> QED
  BY <1>1, <1>3, <1>4, <1>5

\* The steps next to a step lead through options only where there are some.
LEMMA Neighbours ==
  ASSUME PageShapes, WizardIs
  PROVE  /\ page.step \in {"service", "configure", "summary", "slot"} =>
              LET next == VisibleSteps[Index + 1]
              IN  /\ next \in {"configure", "summary", "slot", "customer"}
                  /\ next = "configure" => HasOptions(page.selection)
         /\ InWizard /\ Index > 1 =>
              LET last == VisibleSteps[Index - 1]
              IN  /\ last \in {"service", "configure", "summary", "slot"}
                  /\ last = "configure" => HasOptions(page.selection)
                  /\ page.step # "service"
<1>1. page.step \in {"service", "configure", "summary", "slot", "customer", "payment",
                     "confirmation"}
  BY PageFields
<1>2. CASE HasOptions(page.selection)
  <2>1. VisibleSteps = <<"service", "configure", "summary", "slot", "customer", "payment",
                         "confirmation">>
    BY <1>2 DEF VisibleSteps, Steps
  <2>2. \E m \in 1 .. 7 : VisibleSteps[m] = page.step
    BY <1>1, <2>1
  <2>3. DOMAIN VisibleSteps = 1 .. 7
    BY <2>1
  <2>4. Index \in 1 .. 7 /\ VisibleSteps[Index] = page.step
    BY <2>2, <2>3 DEF Index
  <2> HIDE DEF Index, VisibleSteps
  <2> QED
    BY <1>2, <2>1, <2>4 DEF InWizard
<1>3. CASE ~ HasOptions(page.selection)
  <2>1. VisibleSteps = <<"service", "summary", "slot", "customer", "payment", "confirmation">>
    BY <1>3 DEF VisibleSteps
  <2>2. page.step # "configure"
    BY <1>3 DEF WizardIs, HasOptions
  <2>3. \E m \in 1 .. 6 : VisibleSteps[m] = page.step
    BY <1>1, <2>1, <2>2
  <2>4. DOMAIN VisibleSteps = 1 .. 6
    BY <2>1
  <2>5. Index \in 1 .. 6 /\ VisibleSteps[Index] = page.step
    BY <2>3, <2>4 DEF Index
  <2> HIDE DEF Index, VisibleSteps
  <2> QED
    BY <1>3, <2>1, <2>5 DEF InWizard
<1> QED
  BY <1>2, <1>3

-----------------------------------------------------------------------------
\* The page starts without bookings.
LEMMA PageStarts == PageInit => PageInv
<1> SUFFICES ASSUME PageInit PROVE PageInv
  OBVIOUS
<1>1. EngineInit /\ page = Fresh(1) /\ job = NoJob
  BY DEF PageInit
<1>2. EngineTypeOK /\ Len(record) = 0
  BY <1>1, EngineStarts DEF Inv, EngineInit
<1>3. Fresh(1) \in PageShape
  BY StepNames, PageAssumption DEF Fresh, PageShape
<1>4. /\ page.step = "service" /\ page.booking = 0 /\ page.key = 1 /\ page.status = "idle"
      /\ job.stage = "none"
  BY <1>1 DEF Fresh, NoJob
<1>5. PageShapes
  BY <1>1, <1>2, <1>3, <1>4 DEF PageShapes, JobShape
<1>6. EngineIs
  <2>1. \A k \in Keys : KeyIs(k)
    BY <1>1, EngineAssumption DEF EngineInit, KeyIs, PaymentKeys
  <2>2. \A i \in PaymentKeys : IntentIs(i)
    BY <1>1 DEF EngineInit, IntentIs
  <2> QED
    BY <1>2, <2>1, <2>2 DEF EngineIs
<1>7. WizardIs /\ BookingIsPages /\ CreatesForPage /\ PaysForPage
  BY <1>1, <1>4 DEF WizardIs, MayRotate, BookingIsPages, CreatesForPage, PaysForPage
<1>8. KeyIsPages /\ Asks
  BY <1>1, <1>4, PageAssumption DEF EngineInit, KeyIsPages, Asks
<1> QED
  BY <1>5, <1>6, <1>7, <1>8 DEF PageInv

\* A key without a booking, and none after it.
Unused(k) == k \in Keys /\ byKey[k] = 0 /\ \A j \in Keys : j > k => byKey[j] = 0

\* The key of a changed request is unused.
LEMMA ClearedFields ==
  ASSUME PageInv, job = NoJob, MayRotate, NEW s \in PageShape,
         s.key = page.key, s.booking = page.booking
  PROVE  LET c == Invalidated(s)
         IN  /\ c \in PageShape /\ c.step = s.step /\ c.selection = s.selection
             /\ c.slot = s.slot /\ c.customer = s.customer
             /\ c.booking = 0 /\ c.intent = NoIntent /\ c.status = "idle" /\ Unused(c.key)
<1> DEFINE k == IF s.booking # 0 THEN NextKey ELSE s.key
           c == [s EXCEPT !.booking = 0, !.intent = NoIntent, !.status = "idle",
                          !.slotPending = FALSE, !.key = k]
<1>1. Invalidated(s) = c
  BY DEF Invalidated
<1>2. page.key \in Keys /\ page.key \in Nat /\ Keys \subseteq Nat
  BY PageFields, PageAssumption DEF PageInv
<1>3. Unused(k)
  <2>1. job.stage # "create"
    BY DEF NoJob
  <2>2. \A j \in Keys : j > page.key => byKey[j] = 0
    BY DEF PageInv, KeyIsPages
  <2>3. page.booking = 0 => byKey[page.key] = 0
    BY <2>1 DEF PageInv, KeyIsPages
  <2>4. page.booking # 0 => NextKey \in Keys
    BY DEF MayRotate
  <2> QED
    BY <1>2, <2>2, <2>3, <2>4 DEF Unused, NextKey
<1>4. k \in Keys
  BY <1>3 DEF Unused
<1> HIDE DEF k
<1>5. c \in PageShape
  <2> DEFINE T == {Steps[m] : m \in DOMAIN Steps}
  <2>1. s \in [step : T, selection : Selections \cup {None}, slot : Slots \cup {None},
                slotPending : BOOLEAN, customer : Customers \cup {None}, key : Keys,
                booking : Nat, intent : PaymentKeys \cup {NoIntent},
                status : {"idle", "working", "failed", "succeeded"}]
    BY DEF PageShape
  <2> HIDE DEF T
  <2>2. c \in [step : T, selection : Selections \cup {None}, slot : Slots \cup {None},
                slotPending : BOOLEAN, customer : Customers \cup {None}, key : Keys,
                booking : Nat, intent : PaymentKeys \cup {NoIntent},
                status : {"idle", "working", "failed", "succeeded"}]
    BY <1>4, <2>1
  <2> QED
    BY <2>2 DEF PageShape, T
<1>6. /\ c.step = s.step /\ c.selection = s.selection /\ c.slot = s.slot
      /\ c.customer = s.customer /\ c.booking = 0 /\ c.intent = NoIntent
      /\ c.status = "idle" /\ c.key = k
  BY DEF PageShape
<1> HIDE DEF c
<1> QED
  BY <1>1, <1>3, <1>5, <1>6

\* The engine and the job stay; the page keeps its request with its booking, or
\* gives its booking up.
Keeps(p) ==
  /\ p.key = page.key /\ p.booking = page.booking /\ p.intent = page.intent
  /\ p.selection = page.selection /\ p.slot = page.slot /\ p.customer = page.customer
  /\ (p.step = "confirmation" <=> page.step = "confirmation")
Clears(p) == p.booking = 0 /\ p.step # "confirmation" /\ Unused(p.key)
\* A page that moves while the engine and the job stay.
LEMMA Wandering ==
  ASSUME PageInv, job = NoJob, UNCHANGED job, EngineTypeOK',
         UNCHANGED <<record, byKey, pending, attempts, intent, bookingOf, confirming>>,
         page' \in PageShape, WizardIs', Keeps(page') \/ Clears(page')
  PROVE  PageInv'
<1>1. job.stage = "none" /\ page.booking <= Len(record) /\ Len(record) \in Nat
  BY Sizes DEF NoJob, PageInv, PageShapes
<1>2. PageShapes'
  BY <1>1 DEF PageInv, PageShapes, Keeps, Clears, JobShape, PaymentKeys, PageShape
<1>3. \A b : PaymentKey(b)' = PaymentKey(b)
  BY DEF PaymentKey
<1>4. EngineIs'
  BY <1>3 DEF PageInv, EngineIs, RecordIs, KeyIs, IntentIs
<1>5. \A k \in Keys : pending[k] = 0
  BY <1>1 DEF PageInv, KeyIsPages
<1>6. CASE Keeps(page')
  <2>1. Current' = Current
    BY <1>6 DEF Keeps, Current, RequestOf
  <2>2. KeyIsPages'
    BY <1>6, <1>1, <2>1 DEF PageInv, KeyIsPages, Keeps
  <2>3. BookingIsPages'
    BY <1>6, <1>1, <2>1 DEF PageInv, BookingIsPages, Keeps
  <2> QED
    BY <1>1, <1>2, <1>4, <2>2, <2>3 DEF PageInv, CreatesForPage, PaysForPage, Asks
<1>7. CASE Clears(page')
  <2>1. KeyIsPages'
    BY <1>7, <1>5 DEF KeyIsPages, Clears, Unused
  <2>2. BookingIsPages'
    BY <1>7 DEF BookingIsPages, Clears
  <2> QED
    BY <1>1, <1>2, <1>4, <2>1, <2>2 DEF PageInv, CreatesForPage, PaysForPage, Asks
<1> QED
  BY <1>6, <1>7

-----------------------------------------------------------------------------
\* The wizard: the customer moves, the engine and the job stay.
LEMMA NoJobHere ==
  ASSUME PageInv, page.step # "payment"
  PROVE  job = NoJob
BY DEF PageInv, WizardIs

\* Another step of the wizard with the same request.
LEMMA StepMoves ==
  ASSUME PageInv, job = NoJob, page.step # "confirmation",
         NEW to \in {"service", "configure", "summary", "slot", "customer"},
         Enter(Goto(page, to)), UNCHANGED <<engine, job>>,
         to \in {"service", "configure", "summary", "slot"} => MayRotate,
         to # "service" => page.selection # None,
         to = "configure" => ServiceOf[page.selection] \in Configurable
  PROVE  PageInv'
<1> DEFINE p == Goto(page, to)
<1>1. page' = p
  BY DEF Enter
<1>2. /\ p \in PageShape /\ p.step = to /\ p.key = page.key /\ p.booking = page.booking
      /\ p.intent = page.intent /\ p.selection = page.selection /\ p.slot = page.slot
      /\ p.customer = page.customer /\ p.status = page.status
  BY StepNames DEF Goto, PageShape, PageInv, PageShapes
<1> HIDE DEF p
<1>3. Keeps(p)
  BY <1>2 DEF Keeps
<1>4. WizardIs'
  BY <1>1, <1>2 DEF PageInv, WizardIs, MayRotate, NextKey
<1>5. EngineTypeOK'
  BY DEF PageInv, PageShapes, EngineTypeOK, engine, IntentState, PaymentKeys, Call, Recorded
<1> QED
  BY <1>1, <1>2, <1>3, <1>4, <1>5, Wandering DEF engine

\* Continue and Back keep the request and its booking.
LEMMA StepsKeep ==
  ASSUME PageInv, Continue \/ Back \/ BackFromPayment
  PROVE  PageInv'
<1>0. PageShapes /\ WizardIs
  BY DEF PageInv
<1>1. CASE Continue
  <2>1. /\ InWizard /\ StepValid /\ Enter(Goto(page, VisibleSteps[Index + 1]))
        /\ UNCHANGED <<engine, job>>
    BY <1>1 DEF Continue
  <2> DEFINE to == VisibleSteps[Index + 1]
  <2>2. page.step \in {"service", "configure", "summary", "slot"}
    BY <1>0, <2>1, PageFields DEF InWizard, StepValid
  <2>3. to \in {"configure", "summary", "slot", "customer"} /\ (to = "configure" => HasOptions(page.selection))
    BY <1>0, <2>2, Neighbours
  <2>4. page.selection # None /\ MayRotate
    BY <1>0, <2>1, <2>2 DEF WizardIs, StepValid
  <2>5. job = NoJob
    BY <2>2, NoJobHere
  <2> HIDE DEF to
  <2>6. Enter(Goto(page, to))
    BY <2>1 DEF to
  <2> QED
    BY <2>1, <2>2, <2>3, <2>4, <2>5, <2>6, StepMoves DEF HasOptions
<1>2. CASE Back
  <2>1. /\ InWizard /\ Index > 1 /\ MayRotate /\ Enter(Goto(page, VisibleSteps[Index - 1]))
        /\ UNCHANGED <<engine, job>>
    BY <1>2 DEF Back
  <2> DEFINE to == VisibleSteps[Index - 1]
  <2>3. /\ to \in {"service", "configure", "summary", "slot"}
        /\ (to = "configure" => HasOptions(page.selection)) /\ page.step # "service"
    BY <1>0, <2>1, Neighbours
  <2>4. page.selection # None
    BY <1>0, <2>3 DEF WizardIs
  <2>5. job = NoJob /\ page.step # "confirmation"
    BY <2>1, NoJobHere DEF InWizard
  <2> HIDE DEF to
  <2>6. Enter(Goto(page, to))
    BY <2>1 DEF to
  <2> QED
    BY <2>1, <2>3, <2>4, <2>5, <2>6, StepMoves DEF HasOptions
<1>3. CASE BackFromPayment
  BY <1>0, <1>3, StepMoves DEF BackFromPayment, WizardIs
<1> QED
  BY <1>1, <1>2, <1>3

\* A change of the request gives the booking up.
LEMMA ChangeClears ==
  ASSUME PageInv, job = NoJob, MayRotate, UNCHANGED <<engine, job>>,
         NEW s \in PageShape, s.key = page.key, s.booking = page.booking,
         s.step \in {"service", "configure", "summary", "slot"},
         s.step # "service" => s.selection # None,
         s.step = "configure" => ServiceOf[s.selection] \in Configurable,
         NEW waits \in BOOLEAN,
         page' = [Invalidated(s) EXCEPT !.slotPending = waits] \/ page' = Invalidated(s)
  PROVE  PageInv'
<1> DEFINE c == Invalidated(s)
<1>1. /\ c \in PageShape /\ c.step = s.step /\ c.selection = s.selection
      /\ c.booking = 0 /\ c.status = "idle" /\ Unused(c.key)
  BY ClearedFields
<1> HIDE DEF c
<1>2. page' = [c EXCEPT !.slotPending = waits] \/ page' = c
  BY DEF c
<1>3. /\ page' \in PageShape /\ page'.step = s.step /\ page'.selection = s.selection
      /\ page'.booking = 0 /\ page'.status = "idle" /\ Unused(page'.key)
  <2>1. CASE page' = c
    BY <1>1, <2>1
  <2>2. CASE page' = [c EXCEPT !.slotPending = waits]
    <3>1. /\ page' \in PageShape /\ page'.step = c.step /\ page'.selection = c.selection
          /\ page'.booking = c.booking /\ page'.status = c.status /\ page'.key = c.key
      BY <1>1, <2>2 DEF PageShape
    <3> QED
      BY <1>1, <3>1
  <2> QED
    BY <1>2, <2>1, <2>2
<1>4. Clears(page')
  BY <1>3 DEF Clears
<1>5. WizardIs'
  BY <1>3 DEF WizardIs, MayRotate
<1>6. EngineTypeOK'
  BY DEF PageInv, PageShapes, EngineTypeOK, engine, IntentState, PaymentKeys, Call, Recorded
<1> QED
  BY <1>3, <1>4, <1>5, <1>6, Wandering DEF engine

\* Service, options and time: a change of the request takes an unused key.
LEMMA RequestsKeep ==
  ASSUME PageInv,
         \/ \E sv \in Services : ChooseService(sv)
         \/ \E sel \in Selections : Configure(sel)
         \/ \E s \in Slots \cup {None} : PickSlot(s)
         \/ SlotsArrive
  PROVE  PageInv'
<1>0. /\ page \in PageShape /\ WizardIs /\ PageShapes
  BY DEF PageInv, PageShapes
<1>1. ASSUME NEW sv \in Services, ChooseService(sv) PROVE PageInv'
  <2>1. /\ page.step = "service" /\ MayRotate /\ page' = SelectService(sv)
        /\ Enter(SelectService(sv)) /\ UNCHANGED <<engine, job>> /\ job = NoJob
    BY <1>1, NoJobHere DEF ChooseService, Enter
  <2> DEFINE to == IF sv \in Configurable THEN "configure" ELSE "summary"
  <2>2. CASE page.selection # None /\ ServiceOf[page.selection] = sv
    <3>1. page' = [page EXCEPT !.step = to]
      BY <2>1, <2>2 DEF SelectService
    <3> DEFINE p == [page EXCEPT !.step = to]
    <3>2. to \in {"configure", "summary"}
      OBVIOUS
    <3>3. to = "configure" => sv \in Configurable
      OBVIOUS
    <3> HIDE DEF to
    <3>4. /\ p \in PageShape /\ p.step = to /\ p.key = page.key /\ p.booking = page.booking
          /\ p.intent = page.intent /\ p.selection = page.selection /\ p.slot = page.slot
          /\ p.customer = page.customer /\ p.status = page.status
      BY <1>0, <3>2, StepNames DEF PageShape
    <3> HIDE DEF p
    <3>5. page' = p
      BY <3>1 DEF p
    <3>6. Keeps(p)
      BY <2>1, <3>2, <3>4 DEF Keeps
    <3>7. WizardIs'
      BY <1>0, <2>1, <2>2, <3>2, <3>3, <3>4, <3>5 DEF WizardIs, MayRotate, NextKey
    <3>8. EngineTypeOK'
      BY <2>1 DEF PageInv, PageShapes, EngineTypeOK, engine, IntentState, PaymentKeys, Call, Recorded
    <3> QED
      BY <2>1, <3>4, <3>5, <3>6, <3>7, <3>8, Wandering DEF engine
  <2>3. CASE ~ (page.selection # None /\ ServiceOf[page.selection] = sv)
    <3> DEFINE s == [page EXCEPT !.step = to, !.slot = None, !.selection = EmptySelection[sv]]
    <3>1. page' = Invalidated(s)
      BY <2>1, <2>3 DEF SelectService
    <3>2. to \in {"configure", "summary"} /\ (to = "configure" => sv \in Configurable)
      OBVIOUS
    <3> HIDE DEF to
    <3>3. /\ EmptySelection[sv] \in Selections /\ EmptySelection[sv] # None
          /\ ServiceOf[EmptySelection[sv]] = sv
      BY PageAssumption
    <3>4. /\ s \in PageShape /\ s.step = to /\ s.key = page.key /\ s.booking = page.booking
          /\ s.selection = EmptySelection[sv]
      BY <1>0, <3>2, <3>3, StepNames DEF PageShape
    <3> HIDE DEF s
    <3> QED
      BY <2>1, <3>1, <3>2, <3>3, <3>4, ChangeClears
  <2> QED
    BY <2>2, <2>3
<1>2. ASSUME NEW sel \in Selections, Configure(sel) PROVE PageInv'
  <2> DEFINE s == [page EXCEPT !.selection = sel, !.slot = None]
  <2>1. /\ page.step = "configure" /\ MayRotate /\ ServiceOf[sel] = ServiceOf[page.selection]
        /\ page' = Invalidated(s) /\ UNCHANGED <<engine, job>> /\ job = NoJob
    BY <1>2, NoJobHere DEF Configure, SetSelection
  <2>2. /\ s \in PageShape /\ s.step = page.step /\ s.key = page.key
        /\ s.booking = page.booking /\ s.selection = sel
    BY <1>0 DEF PageShape
  <2>3. sel # None /\ ServiceOf[sel] \in Configurable
    BY <1>0, <2>1, PageAssumption DEF WizardIs
  <2> HIDE DEF s
  <2> QED
    BY <2>1, <2>2, <2>3, ChangeClears
<1>3. ASSUME NEW t \in Slots \cup {None}, page.step = "slot", UNCHANGED <<engine, job>>,
             \/ page' = SetSlot(t)
             \/ page' = [SetSlot(t) EXCEPT !.slotPending = FALSE]
      PROVE  PageInv'
  <2> DEFINE s == [page EXCEPT !.slot = t]
  <2>1. page' = [Invalidated(s) EXCEPT !.slotPending = FALSE] \/ page' = Invalidated(s)
    BY <1>3 DEF SetSlot
  <2>2. /\ s \in PageShape /\ s.step = page.step /\ s.key = page.key
        /\ s.booking = page.booking /\ s.selection = page.selection
    BY <1>0, <1>3 DEF PageShape
  <2>3. job = NoJob /\ MayRotate /\ page.selection # None
    BY <1>0, <1>3, NoJobHere DEF WizardIs
  <2> HIDE DEF s
  <2> QED
    BY <1>3, <2>1, <2>2, <2>3, ChangeClears
<1>4. ASSUME NEW t \in Slots \cup {None}, PickSlot(t) PROVE PageInv'
  BY <1>3, <1>4 DEF PickSlot
<1>5. CASE SlotsArrive
  <2>1. /\ page.step = "slot" /\ UNCHANGED <<engine, job, mounting>>
        /\ \/ page' = [page EXCEPT !.slotPending = FALSE]
           \/ page' = [SetSlot(None) EXCEPT !.slotPending = FALSE]
    BY <1>5 DEF SlotsArrive
  <2>2. CASE page' = [page EXCEPT !.slotPending = FALSE]
    <3>1. /\ page' \in PageShape /\ page'.step = page.step /\ page'.key = page.key
          /\ page'.booking = page.booking /\ page'.intent = page.intent
          /\ page'.selection = page.selection /\ page'.slot = page.slot
          /\ page'.customer = page.customer /\ page'.status = page.status
      BY <1>0, <2>2 DEF PageShape
    <3>2. Keeps(page')
      BY <3>1 DEF Keeps
    <3>3. WizardIs'
      BY <1>0, <2>1, <3>1 DEF WizardIs, MayRotate, NextKey
    <3>4. EngineTypeOK'
      BY <2>1 DEF PageInv, PageShapes, EngineTypeOK, engine, IntentState, PaymentKeys, Call, Recorded
    <3>5. job = NoJob
      BY <2>1, NoJobHere
    <3> QED
      BY <2>1, <3>1, <3>2, <3>3, <3>4, <3>5, Wandering DEF engine
  <2>3. CASE page' = [SetSlot(None) EXCEPT !.slotPending = FALSE]
    BY <1>3, <2>1, <2>3
  <2> QED
    BY <2>1, <2>2, <2>3
<1> QED
  BY <1>1, <1>2, <1>4, <1>5

\* So does a change of the customer's details, and only a change.
LEMMA CustomerKeeps ==
  ASSUME PageInv, NEW c \in Customers, ContinueAsCustomer(c)
  PROVE  PageInv'
<1>0. page \in PageShape /\ WizardIs
  BY DEF PageInv, PageShapes
<1>1. /\ page.step = "customer" /\ MayRotate /\ page' = Goto(ConfirmCustomer(c), "payment")
      /\ UNCHANGED <<engine, job>> /\ job = NoJob
  BY NoJobHere DEF ContinueAsCustomer, Enter
<1> DEFINE s == ConfirmCustomer(c)
           a == [page EXCEPT !.customer = c]
<1>2. /\ a \in PageShape /\ a.step = page.step /\ a.key = page.key /\ a.booking = page.booking
      /\ a.selection = page.selection
  BY <1>0 DEF PageShape
<1>3. s = page \/ s = Invalidated(a)
  BY DEF ConfirmCustomer
<1> HIDE DEF a
<1>4. s = Invalidated(a) => /\ s \in PageShape /\ s.selection = page.selection
                            /\ s.booking = 0 /\ s.status = "idle" /\ Unused(s.key)
  BY <1>1, <1>2, ClearedFields
<1>5. /\ s \in PageShape /\ s.selection = page.selection
      /\ s.status # "succeeded" /\ (s = page \/ (s.booking = 0 /\ Unused(s.key)))
  <2>1. page.status # "succeeded"
    BY <1>0, <1>1 DEF WizardIs
  <2> HIDE DEF s
  <2>2. CASE s = page
    BY <1>0, <2>1, <2>2
  <2>3. CASE s = Invalidated(a)
    BY <1>4, <2>3
  <2> QED
    BY <1>3, <2>2, <2>3
<1> HIDE DEF s
<1> DEFINE p == Goto(s, "payment")
<1>6. /\ p \in PageShape /\ p.step = "payment" /\ p.key = s.key /\ p.booking = s.booking
      /\ p.intent = s.intent /\ p.selection = s.selection /\ p.slot = s.slot
      /\ p.customer = s.customer /\ p.status = s.status
  BY <1>5, StepNames DEF Goto, PageShape
<1>7. page' = p
  BY <1>1 DEF s
<1> HIDE DEF p
<1>8. Keeps(p) \/ Clears(p)
  BY <1>1, <1>5, <1>6 DEF Keeps, Clears
<1>9. WizardIs'
  BY <1>0, <1>1, <1>5, <1>6, <1>7 DEF WizardIs
<1>10. EngineTypeOK'
  BY <1>1 DEF PageInv, PageShapes, EngineTypeOK, engine, IntentState, PaymentKeys, Call, Recorded
<1> QED
  BY <1>1, <1>6, <1>7, <1>8, <1>9, <1>10, Wandering DEF engine

\* A new checkout has the next key.
LEMMA StartOverKeeps ==
  ASSUME PageInv, StartOver
  PROVE  PageInv'
<1>1. /\ page.step = "confirmation" /\ NextKey \in Keys /\ page' = Fresh(NextKey)
      /\ UNCHANGED <<engine, job>> /\ job = NoJob
  BY NoJobHere DEF StartOver, Enter
<1> DEFINE k == NextKey
<1>2. /\ Fresh(k) \in PageShape /\ Fresh(k).step = "service" /\ Fresh(k).booking = 0
      /\ Fresh(k).key = k /\ Fresh(k).status = "idle"
  BY <1>1, StepNames DEF Fresh, PageShape
<1>3. Unused(k)
  <2>1. page.key \in Nat /\ Keys \subseteq Nat
    BY PageFields, PageAssumption DEF PageInv
  <2>2. \A j \in Keys : j > page.key => byKey[j] = 0
    BY DEF PageInv, KeyIsPages
  <2> QED
    BY <1>1, <2>1, <2>2 DEF Unused, NextKey
<1> HIDE DEF k
<1>4. page' = Fresh(k)
  BY <1>1 DEF k
<1>5. Clears(page') /\ page' \in PageShape
  BY <1>2, <1>3, <1>4 DEF Clears
<1>6. WizardIs'
  BY <1>1, <1>2, <1>4 DEF WizardIs, MayRotate
<1>7. EngineTypeOK'
  BY <1>1 DEF PageInv, PageShapes, EngineTypeOK, engine, IntentState, PaymentKeys, Call, Recorded
<1> QED
  BY <1>1, <1>5, <1>6, <1>7, Wandering DEF engine

\* Nothing the invariant is about changes, but what is mounted or offered.
LEMMA IdleKeeps ==
  ASSUME PageInv, job = NoJob \/ mounting' = mounting, UNCHANGED <<page, job>>,
         UNCHANGED <<record, byKey, pending, attempts, intent, bookingOf, confirming>>,
         offered' \subseteq offered
  PROVE  PageInv'
<1>1. PageShapes'
  BY DEF PageInv, PageShapes, EngineTypeOK, IntentState, PaymentKeys, Call, Recorded,
         JobShape, PageShape
<1>2. \A b : PaymentKey(b)' = PaymentKey(b)
  BY DEF PaymentKey
<1>3. EngineIs'
  BY <1>2 DEF PageInv, EngineIs, RecordIs, KeyIs, IntentIs
<1>4. Current' = Current
  BY DEF Current, RequestOf
<1>5. WizardIs'
  BY DEF PageInv, WizardIs, MayRotate, NextKey
<1> QED
  BY <1>1, <1>3, <1>4, <1>5 DEF PageInv, KeyIsPages, BookingIsPages, CreatesForPage,
                             PaysForPage, Asks

-----------------------------------------------------------------------------
\* What the engine's steps change, record by record.
SameOf(a) ==
  /\ record'[a].key = record[a].key /\ record'[a].attempt = record[a].attempt
  /\ record'[a].request = record[a].request
SameBut(k) ==
  \A a \in 1 .. Len(record) :
    /\ SameOf(a) /\ record'[a].intent = record[a].intent /\ record'[a].state = record[a].state
    /\ record'[a].live <=> (record[a].live /\ a # byKey[k])

\* Dropping the failed record of a key changes no other field.
LEMMA SupersededSame ==
  ASSUME EngineTypeOK, NEW k \in Keys, ~ Joins(k)
  PROVE  /\ Superseding(k) \in Seq(Recorded) /\ Len(Superseding(k)) = Len(record)
         /\ \A a \in 1 .. Len(record) :
              LET s == Superseding(k)[a]
              IN  /\ s.key = record[a].key /\ s.attempt = record[a].attempt
                  /\ s.request = record[a].request /\ s.intent = record[a].intent
                  /\ s.state = record[a].state
                  /\ (s.live <=> (record[a].live /\ a # byKey[k]))
         /\ pending[k] = 0 /\ (byKey[k] # 0 => record[byKey[k]].state = "failed")
<1>1. /\ Superseding(k) \in Seq(Recorded) /\ Len(Superseding(k)) = Len(record)
      /\ \A a \in 1 .. Len(record) :
           Superseding(k)[a] = IF a = byKey[k] THEN [record[a] EXCEPT !.live = FALSE]
                                               ELSE record[a]
  BY SupersedingDrops
<1>2. \A a \in 1 .. Len(record) : record[a] \in Recorded
  BY RecordTyped
<1>3. ASSUME NEW a \in 1 .. Len(record)
      PROVE  LET s == Superseding(k)[a]
             IN  /\ s.key = record[a].key /\ s.attempt = record[a].attempt
                 /\ s.request = record[a].request /\ s.intent = record[a].intent
                 /\ s.state = record[a].state
                 /\ (s.live <=> (record[a].live /\ a # byKey[k]))
  <2>1. CASE a = byKey[k]
    <3> DEFINE s == [record[a] EXCEPT !.live = FALSE]
    <3>1. /\ s.key = record[a].key /\ s.attempt = record[a].attempt
          /\ s.request = record[a].request /\ s.intent = record[a].intent
          /\ s.state = record[a].state /\ s.live = FALSE
      BY <1>2 DEF Recorded
    <3> HIDE DEF s
    <3>2. Superseding(k)[a] = s
      BY <1>1, <2>1 DEF s
    <3> QED
      BY <2>1, <3>1, <3>2
  <2>2. CASE a # byKey[k]
    BY <1>1, <2>2
  <2> QED
    BY <2>1, <2>2
<1> QED
  BY <1>1, <1>3 DEF Joins

\* A creation adds the record of its key and drops the failed one before.
LEMMA CreateEffect ==
  ASSUME EngineTypeOK, NEW k \in Keys, NEW r \in Requests, Create(k, r)
  PROVE  LET n == Len(record)
             e == record'[n + 1]
         IN  /\ EngineTypeOK' /\ Len(record') = n + 1 /\ SameBut(k)
             /\ e.key = k /\ e.attempt = attempts[k] /\ e.request = r
             /\ e.state = "pending_payment" /\ e.live = TRUE /\ e.intent = NoIntent
             /\ byKey' = [byKey EXCEPT ![k] = n + 1] /\ pending' = [pending EXCEPT ![k] = n + 1]
             /\ attempts' = [attempts EXCEPT ![k] = @ + 1] /\ attempts[k] < MaxAttempts
             /\ UNCHANGED <<intent, bookingOf, confirming>>
             /\ pending[k] = 0 /\ (byKey[k] # 0 => record[byKey[k]].state = "failed")
<1> DEFINE n == Len(record)
           e == [key |-> k, attempt |-> attempts[k], request |-> r,
                 state |-> "pending_payment", live |-> TRUE, intent |-> NoIntent]
<1>1. /\ record' = Append(Superseding(k), e) /\ ~ Joins(k)
      /\ byKey' = [byKey EXCEPT ![k] = n + 1] /\ pending' = [pending EXCEPT ![k] = n + 1]
      /\ attempts' = [attempts EXCEPT ![k] = @ + 1]
      /\ attempts[k] < MaxAttempts /\ n < MaxRecords
      /\ UNCHANGED <<intent, bookingOf, offered, confirming>>
  BY DEF Create
<1>2. /\ byKey \in [Keys -> 0 .. n] /\ attempts \in [Keys -> 0 .. MaxAttempts]
      /\ pending \in [Keys -> 0 .. n] /\ bookingOf \in [PaymentKeys -> 0 .. n]
      /\ MaxAttempts \in Nat /\ MaxRecords \in Nat /\ n \in Nat
  BY RecordTyped, EngineAssumption DEF EngineTypeOK
<1>3. e \in Recorded
  BY <1>2 DEF Recorded, BookingState
<1>4. /\ e.key = k /\ e.attempt = attempts[k] /\ e.request = r
      /\ e.state = "pending_payment" /\ e.live = TRUE /\ e.intent = NoIntent
  OBVIOUS
<1> HIDE DEF e
<1>5. /\ record' \in Seq(Recorded) /\ Len(record') = n + 1 /\ record'[n + 1] = e
      /\ \A a \in 1 .. n : record'[a] = Superseding(k)[a]
  <2>1. Superseding(k) \in Seq(Recorded) /\ Len(Superseding(k)) = n
    BY <1>1, SupersededSame
  <2> HIDE DEF n
  <2>2. /\ Append(Superseding(k), e) \in Seq(Recorded)
        /\ Len(Append(Superseding(k), e)) = n + 1
        /\ \A a \in 1 .. n : Append(Superseding(k), e)[a] = Superseding(k)[a]
        /\ Append(Superseding(k), e)[n + 1] = e
    BY <1>3, <2>1, AppendProperties
  <2> QED
    BY <1>1, <2>2
<1>6. SameBut(k) /\ pending[k] = 0 /\ (byKey[k] # 0 => record[byKey[k]].state = "failed")
  BY <1>1, <1>5, SupersededSame DEF SameBut, SameOf
<1>7. EngineTypeOK'
  <2>1. /\ byKey' \in [Keys -> 0 .. n + 1] /\ attempts' \in [Keys -> 0 .. MaxAttempts]
        /\ pending' \in [Keys -> 0 .. n + 1] /\ n + 1 <= MaxRecords
    BY <1>1, <1>2
  <2>2. bookingOf' \in [PaymentKeys -> 0 .. n + 1]
    BY <1>1, <1>2
  <2> HIDE DEF n
  <2> QED
    BY <1>1, <1>5, <2>1, <2>2 DEF EngineTypeOK, IntentState, PaymentKeys, Call, Recorded
<1> QED
  BY <1>1, <1>4, <1>5, <1>6, <1>7

\* A refused one drops it, and adds none.
LEMMA RefusedEffect ==
  ASSUME EngineTypeOK, NEW k \in Keys, NEW r, CreateRefused(k, r)
  PROVE  /\ EngineTypeOK' /\ Len(record') = Len(record) /\ SameBut(k)
         /\ byKey' = [byKey EXCEPT ![k] = 0] /\ attempts' = [attempts EXCEPT ![k] = @ + 1]
         /\ attempts[k] < MaxAttempts
         /\ UNCHANGED <<pending, intent, bookingOf, confirming>>
         /\ pending[k] = 0 /\ (byKey[k] # 0 => record[byKey[k]].state = "failed")
<1>1. /\ record' = Superseding(k) /\ ~ Joins(k)
      /\ byKey' = [byKey EXCEPT ![k] = 0] /\ attempts' = [attempts EXCEPT ![k] = @ + 1]
      /\ attempts[k] < MaxAttempts
      /\ UNCHANGED <<pending, intent, bookingOf, offered, confirming>>
  BY DEF CreateRefused
<1>2. /\ byKey \in [Keys -> 0 .. Len(record)] /\ attempts \in [Keys -> 0 .. MaxAttempts]
      /\ MaxAttempts \in Nat /\ Len(record) \in Nat
  BY RecordTyped, EngineAssumption DEF EngineTypeOK
<1>3. /\ record' \in Seq(Recorded) /\ Len(record') = Len(record) /\ SameBut(k)
      /\ pending[k] = 0 /\ (byKey[k] # 0 => record[byKey[k]].state = "failed")
  BY <1>1, SupersededSame DEF SameBut, SameOf
<1>4. byKey' \in [Keys -> 0 .. Len(record)] /\ attempts' \in [Keys -> 0 .. MaxAttempts]
  BY <1>1, <1>2
<1>5. EngineTypeOK'
  BY <1>1, <1>3, <1>4 DEF EngineTypeOK, IntentState, PaymentKeys, Call, Recorded
<1> QED
  BY <1>1, <1>3, <1>5

\* The provider changes one intent.
LEMMA ProviderEffect ==
  ASSUME EngineTypeOK, NEW i \in PaymentKeys, NEW to \in IntentState,
         intent' = [intent EXCEPT ![i].state = to],
         UNCHANGED <<record, byKey, pending, attempts, bookingOf, offered, confirming>>
  PROVE  /\ EngineTypeOK'
         /\ \A j \in PaymentKeys : intent'[j].state = IF j = i THEN to ELSE intent[j].state
<1>1. intent \in [PaymentKeys -> [state : IntentState, refunded : 0 .. Price]]
  BY DEF EngineTypeOK
<1> HIDE DEF IntentState
<1>2. intent' \in [PaymentKeys -> [state : IntentState, refunded : 0 .. Price]]
  BY <1>1
<1>3. \A j \in PaymentKeys : intent'[j].state = IF j = i THEN to ELSE intent[j].state
  BY <1>1
<1> QED
  BY <1>2, <1>3 DEF EngineTypeOK, PaymentKeys, Call, Recorded

\* A ready intent is minted for the record in flight.
LEMMA ReadyEffect ==
  ASSUME EngineTypeOK, NEW k \in Keys, IntentReady(k)
  PROVE  LET b == pending[k]
             i == PaymentKey(b)
         IN  /\ EngineTypeOK' /\ Len(record') = Len(record)
             /\ b \in 1 .. Len(record) /\ i \in PaymentKeys /\ i # NoIntent
             /\ intent[i].state # "none"
             /\ \A a \in 1 .. Len(record) :
                  /\ SameOf(a) /\ record'[a].state = record[a].state
                  /\ record'[a].live = record[a].live
                  /\ record'[a].intent = IF a = b THEN i ELSE record[a].intent
             /\ bookingOf' = [bookingOf EXCEPT ![i] = b]
             /\ pending' = [pending EXCEPT ![k] = 0]
             /\ UNCHANGED <<byKey, attempts, intent, confirming>>
<1> DEFINE n == Len(record)
           b == pending[k]
           i == PaymentKey(b)
           e == [record[b] EXCEPT !.intent = i]
<1>1. /\ b # 0 /\ bookingOf' = [bookingOf EXCEPT ![i] = b]
      /\ record' = [record EXCEPT ![b] = e]
      /\ pending' = [pending EXCEPT ![k] = 0]
      /\ UNCHANGED <<byKey, attempts, intent, offered, confirming>>
      /\ intent[i].state # "none"
  BY DEF IntentReady
<1>2. /\ n \in Nat /\ record \in Seq(Recorded)
      /\ pending \in [Keys -> 0 .. n] /\ bookingOf \in [PaymentKeys -> 0 .. n]
      /\ \A a \in 1 .. n : record[a] \in Recorded
  BY RecordTyped DEF EngineTypeOK
<1>3. b \in 1 .. n
  BY <1>1, <1>2
<1>4. i \in PaymentKeys /\ i # NoIntent
  BY <1>3, PaymentKeyIsOne
<1>5. record[b] \in Recorded
  BY <1>2, <1>3
<1> HIDE DEF n, b, i
<1>6. e \in Recorded
  BY <1>4, <1>5 DEF Recorded
<1>7. /\ e.key = record[b].key /\ e.attempt = record[b].attempt /\ e.request = record[b].request
      /\ e.state = record[b].state /\ e.live = record[b].live /\ e.intent = i
  BY <1>5 DEF Recorded
<1> HIDE DEF e
<1>8. /\ record' \in Seq(Recorded) /\ Len(record') = n
      /\ \A a \in 1 .. n : record'[a] = IF a = b THEN e ELSE record[a]
  <2>1. record \in Seq(Recorded) /\ n = Len(record) /\ b \in 1 .. Len(record)
    BY <1>2, <1>3 DEF n
  <2>2. /\ [record EXCEPT ![b] = e] \in Seq(Recorded)
        /\ Len([record EXCEPT ![b] = e]) = Len(record)
        /\ \A a \in 1 .. Len(record) : [record EXCEPT ![b] = e][a] = IF a = b THEN e ELSE record[a]
    BY <1>6, <2>1, ExceptSeq
  <2> QED
    BY <1>1, <2>1, <2>2
<1>9. \A a \in 1 .. n :
        /\ SameOf(a) /\ record'[a].state = record[a].state /\ record'[a].live = record[a].live
        /\ record'[a].intent = IF a = b THEN i ELSE record[a].intent
  BY <1>7, <1>8 DEF SameOf
<1>10. pending' \in [Keys -> 0 .. n] /\ bookingOf' \in [PaymentKeys -> 0 .. n]
  BY <1>1, <1>2, <1>3, <1>4
<1>11. EngineTypeOK'
  BY <1>1, <1>8, <1>10 DEF EngineTypeOK, IntentState, PaymentKeys, Call, Recorded, n
<1> QED
  BY <1>1, <1>3, <1>4, <1>8, <1>9, <1>11 DEF n, b, i

\* A move changes one record's state.
LEMMA MoveEffect ==
  ASSUME EngineTypeOK, NEW b \in 1 .. Len(record), NEW to \in BookingState, Move(b, to),
         pending' \in [Keys -> 0 .. Len(record)],
         UNCHANGED <<byKey, attempts, intent, bookingOf, offered>>,
         confirming' \in [Callers -> Call]
  PROVE  /\ EngineTypeOK' /\ Len(record') = Len(record)
         /\ \A a \in 1 .. Len(record) :
              /\ SameOf(a) /\ record'[a].intent = record[a].intent
              /\ record'[a].live = record[a].live
              /\ record'[a].state = IF a = b THEN to ELSE record[a].state
<1>1. Moved(b, to)
  BY MoveMoves
<1>2. \A a \in 1 .. Len(record) : record[a] \in Recorded
  BY RecordTyped
<1>3. EngineTypeOK'
  BY <1>1 DEF EngineTypeOK, Moved, IntentState, BookingState, PaymentKeys, Call, Recorded, NoCall
<1>4. ASSUME NEW a \in 1 .. Len(record)
      PROVE  /\ SameOf(a) /\ record'[a].intent = record[a].intent
             /\ record'[a].live = record[a].live
             /\ record'[a].state = IF a = b THEN to ELSE record[a].state
  <2> DEFINE e == [record[a] EXCEPT !.state = to]
  <2>1. /\ e.key = record[a].key /\ e.attempt = record[a].attempt /\ e.request = record[a].request
        /\ e.state = to /\ e.live = record[a].live /\ e.intent = record[a].intent
    BY <1>2 DEF Recorded
  <2> HIDE DEF e
  <2>2. record'[a] = IF a = b THEN e ELSE record[a]
    BY <1>1 DEF Moved, e
  <2> QED
    BY <2>1, <2>2 DEF SameOf
<1> QED
  BY <1>1, <1>3, <1>4 DEF Moved

-----------------------------------------------------------------------------
\* The job begins.
StaysAtPayment ==
  /\ page.step = "payment" /\ page' \in PageShape /\ page'.step = "payment" /\ Keeps(page')
  /\ page'.status # "succeeded" /\ mounting' = FALSE

\* In a page without a job nothing is pending, and what is settled is recorded.
LEMMA WithoutJob ==
  ASSUME PageInv, job = NoJob
  PROVE  /\ job.stage = "none" /\ \A k \in Keys : pending[k] = 0
         /\ \A i \in PaymentKeys :
              intent[i].state \in {"succeeded", "failed"} =>
                /\ bookingOf[i] # 0
                /\ record[bookingOf[i]].state =
                     IF intent[i].state = "succeeded" THEN "confirmed" ELSE "failed"
         /\ confirming[Page] = NoCall
<1>1. job.stage = "none"
  BY DEF NoJob
<1>2. \A k \in Keys : pending[k] = 0
  BY <1>1 DEF PageInv, KeyIsPages
<1>3. \A i \in PaymentKeys : IntentIs(i)
  BY DEF PageInv, EngineIs
<1> HIDE DEF PaymentKeys
<1> QED
  BY <1>1, <1>2, <1>3 DEF IntentIs, PageInv, Asks

\* The page's creation is of the request on it.
LEMMA CreatesAnew ==
  ASSUME PageInv, job = NoJob, StaysAtPayment, NEW kind \in JobKinds,
         Create(page.key, Current),
         job' = [stage |-> "create", kind |-> kind, key |-> page.key, booking |-> Len(record')]
  PROVE  PageInv'
<1> DEFINE n == Len(record)
           k == page.key
<1>0. /\ PageShapes /\ EngineTypeOK /\ EngineIs /\ WizardIs /\ KeyIsPages /\ BookingIsPages
      /\ Asks
  BY DEF PageInv, PageShapes
<1>1. Current \in Requests /\ k \in Keys /\ k \in Nat
  BY <1>0, PageFields, EngineAssumption DEF Create
<1>2. /\ EngineTypeOK' /\ Len(record') = n + 1 /\ SameBut(k)
      /\ record'[n + 1].key = k /\ record'[n + 1].attempt = attempts[k]
      /\ record'[n + 1].request = Current
      /\ record'[n + 1].state = "pending_payment" /\ record'[n + 1].live = TRUE
      /\ record'[n + 1].intent = NoIntent
      /\ byKey' = [byKey EXCEPT ![k] = n + 1] /\ pending' = [pending EXCEPT ![k] = n + 1]
      /\ attempts' = [attempts EXCEPT ![k] = @ + 1] /\ attempts[k] < MaxAttempts
      /\ UNCHANGED <<intent, bookingOf, confirming>>
      /\ (byKey[k] # 0 => record[byKey[k]].state = "failed")
  BY <1>0, <1>1, CreateEffect
<1>3. /\ job'.stage = "create" /\ job'.kind = kind /\ job'.key = k /\ job'.booking = n + 1
      /\ job' \in JobShape /\ job' # NoJob
  <2>1. Len(record') \in Nat
    BY <1>0, <1>2, Sizes
  <2> QED
    BY <1>1, <1>2, <2>1 DEF JobShape, NoJob
<1>4. /\ n \in Nat /\ byKey \in [Keys -> 0 .. n] /\ pending \in [Keys -> 0 .. n]
      /\ attempts \in [Keys -> 0 .. MaxAttempts] /\ MaxAttempts \in Nat
      /\ bookingOf \in [PaymentKeys -> 0 .. n]
      /\ \A a \in 1 .. n :
           /\ record[a].key \in Keys /\ record[a].attempt \in 0 .. MaxAttempts
           /\ record[a].live \in BOOLEAN /\ record[a].intent \in PaymentKeys \cup {NoIntent}
           /\ PaymentKey(a) \in PaymentKeys
  BY <1>0, Sizes
<1>5. /\ page' \in PageShape /\ page.booking \in 0 .. n /\ Keeps(page') /\ Current' = Current
      /\ page.step = "payment" /\ page'.step = "payment"
  BY <1>0, PageFields DEF StaysAtPayment, Keeps, Current, RequestOf
<1>6. /\ job.stage = "none" /\ \A j \in Keys : pending[j] = 0
      /\ \A i \in PaymentKeys :
           intent[i].state \in {"succeeded", "failed"} =>
             /\ bookingOf[i] # 0
             /\ record[bookingOf[i]].state =
                  IF intent[i].state = "succeeded" THEN "confirmed" ELSE "failed"
  BY WithoutJob
<1>7. \A a \in 1 .. n : PaymentKey(a)' = PaymentKey(a)
  BY <1>2 DEF SameBut, SameOf, PaymentKey
<1>8. <<record'[n + 1].key, record'[n + 1].attempt>> = <<k, attempts[k]>>
  BY <1>2
<1> HIDE DEF k, n, PaymentKeys, NoIntent
<1>9. PageShapes'
  BY <1>2, <1>3, <1>4, <1>5 DEF PageShapes, Keeps, JobShape, PaymentKeys, PageShape, NoIntent
<1>10. ASSUME NEW a \in 1 .. n + 1 PROVE RecordIs(a)'
  <2>1. CASE a = n + 1
    BY <1>1, <1>2, <1>4, <2>1 DEF RecordIs
  <2>2. CASE a # n + 1
    <3>1. a \in 1 .. n /\ RecordIs(a)
      BY <1>0, <1>4, <2>2 DEF EngineIs, n
    <3>2. /\ record'[a].key = record[a].key /\ record'[a].attempt = record[a].attempt
          /\ record'[a].intent = record[a].intent /\ record'[a].state = record[a].state
          /\ (record'[a].live <=> (record[a].live /\ a # byKey[k]))
      BY <1>2, <3>1 DEF SameBut, SameOf, n
    <3>3. record[a].live /\ a # byKey[k] => record[a].key # k
      BY <3>1 DEF RecordIs
    <3>4. record[a].key # k => /\ byKey'[record[a].key] = byKey[record[a].key]
                               /\ attempts'[record[a].key] = attempts[record[a].key]
                               /\ pending'[record[a].key] = pending[record[a].key]
      BY <1>1, <1>2, <1>4, <3>1
    <3> QED
      BY <1>2, <1>7, <3>1, <3>2, <3>3, <3>4 DEF RecordIs
  <2> QED
    BY <2>1, <2>2
<1>11. ASSUME NEW j \in Keys PROVE KeyIs(j)'
  <2>0. KeyIs(j) /\ KeyIs(k)
    BY <1>0, <1>1 DEF EngineIs
  <2>1. CASE j = k
    <3>1. byKey'[j] = n + 1 /\ pending'[j] = n + 1 /\ attempts'[j] = attempts[k] + 1
      BY <1>1, <1>2, <1>4, <2>1
    <3>2. intent[<<k, attempts[k]>>].state = "none"
      BY <1>1, <1>4, <2>0 DEF KeyIs
    <3>3. \A a \in attempts'[j] .. MaxAttempts : intent'[<<j, a>>].state = "none"
      BY <1>1, <1>2, <1>4, <2>0, <2>1, <3>1 DEF KeyIs
    <3> QED
      BY <1>2, <1>8, <2>1, <3>1, <3>2, <3>3 DEF KeyIs, PaymentKey
  <2>2. CASE j # k
    <3>1. byKey'[j] = byKey[j] /\ pending'[j] = 0 /\ attempts'[j] = attempts[j]
      BY <1>1, <1>2, <1>4, <1>6, <2>2
    <3>2. byKey[j] # 0 => /\ byKey[j] \in 1 .. n
                          /\ record[byKey[j]].key = j /\ record[byKey[j]].live
      BY <1>4, <2>0 DEF KeyIs
    <3>3. byKey[j] # 0 => byKey[j] # byKey[k]
      BY <1>1, <2>0, <2>2, <3>2 DEF KeyIs
    <3>4. byKey[j] # 0 => record'[byKey[j]].key = j /\ record'[byKey[j]].live
      BY <1>2, <3>2, <3>3 DEF SameBut, SameOf, n
    <3> QED
      BY <1>2, <2>0, <3>1, <3>4 DEF KeyIs
  <2> QED
    BY <2>1, <2>2
<1>12. ASSUME NEW i \in PaymentKeys PROVE IntentIs(i)'
  <2>0. IntentIs(i)
    BY <1>0 DEF EngineIs
  <2>1. bookingOf[i] # 0 => bookingOf[i] \in 1 .. n
    BY <1>4
  <2>2. bookingOf[i] # 0 =>
          /\ record'[bookingOf[i]].intent = record[bookingOf[i]].intent
          /\ record'[bookingOf[i]].state = record[bookingOf[i]].state
          /\ (record'[bookingOf[i]].live <=> (record[bookingOf[i]].live /\ bookingOf[i] # byKey[k]))
    BY <1>2, <2>1 DEF SameBut, n
  <2> QED
    BY <1>2, <1>3, <1>6, <2>0, <2>1, <2>2 DEF IntentIs
<1>13. EngineIs'
  BY <1>2, <1>10, <1>11, <1>12 DEF EngineIs, PaymentKeys
<1>14. WizardIs'
  BY <1>0, <1>3, <1>5 DEF WizardIs, Keeps, StaysAtPayment
<1>15. KeyIsPages'
  <2>1. \A j \in Keys : j > k => byKey'[j] = 0
    BY <1>0, <1>1, <1>2, <1>4 DEF KeyIsPages, k
  <2>2. \A j \in Keys : pending'[j] # 0 => j = k
    BY <1>1, <1>2, <1>4, <1>6
  <2>3. byKey'[k] = n + 1 /\ page'.key = k
    BY <1>1, <1>2, <1>4, <1>5 DEF Keeps, k
  <2> QED
    BY <1>2, <1>3, <1>5, <2>1, <2>2, <2>3 DEF KeyIsPages
<1>16. BookingIsPages'
  <2>1. \A j \in Keys : pending'[j] \in {0, n + 1}
    BY <1>1, <1>2, <1>4, <1>6
  <2>2. page.booking # 0 => /\ page.booking \in 1 .. n
                            /\ record'[page.booking].request = record[page.booking].request
                            /\ record'[page.booking].intent = record[page.booking].intent
                            /\ record'[page.booking].state = record[page.booking].state
    BY <1>2, <1>5 DEF SameBut, SameOf, n
  <2> QED
    BY <1>0, <1>3, <1>4, <1>5, <2>1, <2>2 DEF BookingIsPages, Keeps
<1>17. CreatesForPage'
  <2>1. pending'[k] = n + 1 /\ page'.key = k
    BY <1>1, <1>2, <1>4, <1>5 DEF Keeps, k
  <2>2. n + 1 \in 1 .. n + 1
    BY <1>4
  <2> QED
    BY <1>2, <1>3, <1>5, <2>1, <2>2 DEF CreatesForPage
<1>18. PaysForPage' /\ Asks'
  BY <1>0, <1>2, <1>3, <1>6 DEF PaysForPage, Asks
<1> QED
  BY <1>9, <1>13, <1>14, <1>15, <1>16, <1>17, <1>18 DEF PageInv

\* A refused creation leaves its key without a booking, and the page without one.
LEMMA CreationRefused ==
  ASSUME PageInv, job = NoJob, job' = NoJob, page.step = "payment", NEW r,
         CreateRefused(page.key, r),
         page' \in PageShape, page'.key = page.key, page'.booking = 0,
         page'.selection = page.selection, page'.status = "idle",
         page'.step \in {"slot", "configure", "service"},
         page'.step = "configure" => ServiceOf[page.selection] \in Configurable
  PROVE  PageInv'
<1> DEFINE n == Len(record)
           k == page.key
<1>0. /\ PageShapes /\ EngineTypeOK /\ EngineIs /\ WizardIs /\ KeyIsPages
      /\ Asks
  BY DEF PageInv, PageShapes
<1>1. k \in Keys /\ k \in Nat
  BY <1>0, PageFields
<1>2. /\ EngineTypeOK' /\ Len(record') = n /\ SameBut(k)
      /\ byKey' = [byKey EXCEPT ![k] = 0] /\ attempts' = [attempts EXCEPT ![k] = @ + 1]
      /\ UNCHANGED <<pending, intent, bookingOf, confirming>>
      /\ (byKey[k] # 0 => record[byKey[k]].state = "failed")
  BY <1>0, <1>1, RefusedEffect
<1>4. /\ n \in Nat /\ byKey \in [Keys -> 0 .. n] /\ pending \in [Keys -> 0 .. n]
      /\ attempts \in [Keys -> 0 .. MaxAttempts] /\ MaxAttempts \in Nat
      /\ bookingOf \in [PaymentKeys -> 0 .. n]
      /\ \A a \in 1 .. n : record[a].key \in Keys
  BY <1>0, Sizes
<1>6. /\ job.stage = "none" /\ \A j \in Keys : pending[j] = 0
      /\ \A i \in PaymentKeys :
           intent[i].state \in {"succeeded", "failed"} =>
             /\ bookingOf[i] # 0
             /\ record[bookingOf[i]].state =
                  IF intent[i].state = "succeeded" THEN "confirmed" ELSE "failed"
  BY WithoutJob
<1>7. \A a \in 1 .. n : PaymentKey(a)' = PaymentKey(a)
  BY <1>2 DEF SameBut, SameOf, PaymentKey
<1> HIDE DEF k, n, PaymentKeys, NoIntent
<1>9. PageShapes'
  <2>1. Len(record') \in Nat
    BY <1>2, <1>4 DEF n
  <2> QED
    BY <1>2, <2>1 DEF PageShapes, JobShape, PaymentKeys, PageShape, NoIntent
<1>10. ASSUME NEW a \in 1 .. n PROVE RecordIs(a)'
  <3>1. RecordIs(a)
    BY <1>0 DEF EngineIs, n
  <3>2. /\ record'[a].key = record[a].key /\ record'[a].attempt = record[a].attempt
        /\ record'[a].intent = record[a].intent /\ record'[a].state = record[a].state
        /\ (record'[a].live <=> (record[a].live /\ a # byKey[k]))
    BY <1>2 DEF SameBut, SameOf, n
  <3>3. record[a].live /\ a # byKey[k] => record[a].key # k
    BY <3>1 DEF RecordIs
  <3>4. record[a].key # k => /\ byKey'[record[a].key] = byKey[record[a].key]
                             /\ attempts'[record[a].key] = attempts[record[a].key]
    BY <1>1, <1>2, <1>4
  <3> QED
    BY <1>2, <1>7, <3>1, <3>2, <3>3, <3>4 DEF RecordIs
<1>11. ASSUME NEW j \in Keys PROVE KeyIs(j)'
  <2>0. KeyIs(j) /\ KeyIs(k)
    BY <1>0, <1>1 DEF EngineIs
  <2>1. CASE j = k
    <3>1. byKey'[j] = 0 /\ pending'[j] = 0 /\ attempts'[j] = attempts[k] + 1
      BY <1>1, <1>2, <1>4, <1>6, <2>1
    <3>3. \A a \in attempts'[j] .. MaxAttempts : intent'[<<j, a>>].state = "none"
      BY <1>1, <1>2, <1>4, <2>0, <2>1, <3>1 DEF KeyIs
    <3> QED
      BY <3>1, <3>3 DEF KeyIs
  <2>2. CASE j # k
    <3>1. byKey'[j] = byKey[j] /\ pending'[j] = 0 /\ attempts'[j] = attempts[j]
      BY <1>1, <1>2, <1>4, <1>6, <2>2
    <3>2. byKey[j] # 0 => /\ byKey[j] \in 1 .. n
                          /\ record[byKey[j]].key = j /\ record[byKey[j]].live
      BY <1>4, <2>0 DEF KeyIs
    <3>3. byKey[j] # 0 => byKey[j] # byKey[k]
      BY <1>1, <2>0, <2>2, <3>2 DEF KeyIs
    <3>4. byKey[j] # 0 => record'[byKey[j]].key = j /\ record'[byKey[j]].live
      BY <1>2, <3>2, <3>3 DEF SameBut, SameOf, n
    <3> QED
      BY <1>2, <2>0, <3>1, <3>4 DEF KeyIs
  <2> QED
    BY <2>1, <2>2
<1>12. ASSUME NEW i \in PaymentKeys PROVE IntentIs(i)'
  <2>0. IntentIs(i)
    BY <1>0 DEF EngineIs
  <2>1. bookingOf[i] # 0 => bookingOf[i] \in 1 .. n
    BY <1>4
  <2>2. bookingOf[i] # 0 =>
          /\ record'[bookingOf[i]].intent = record[bookingOf[i]].intent
          /\ record'[bookingOf[i]].state = record[bookingOf[i]].state
          /\ (record'[bookingOf[i]].live <=> (record[bookingOf[i]].live /\ bookingOf[i] # byKey[k]))
    BY <1>2, <2>1 DEF SameBut, n
  <2> QED
    BY <1>2, <1>6, <2>0, <2>1, <2>2 DEF IntentIs
<1>13. EngineIs'
  BY <1>2, <1>10, <1>11, <1>12 DEF EngineIs, PaymentKeys, n
<1>14. WizardIs'
  BY <1>0 DEF WizardIs, MayRotate
<1>15. KeyIsPages'
  <2>1. \A j \in Keys : j > k => byKey'[j] = 0
    BY <1>0, <1>1, <1>2, <1>4 DEF KeyIsPages, k
  <2>2. byKey'[page'.key] = 0
    BY <1>1, <1>2, <1>4 DEF k
  <2> QED
    BY <1>2, <1>6, <2>1, <2>2 DEF KeyIsPages, k
<1>16. BookingIsPages'
  BY DEF BookingIsPages
<1>18. CreatesForPage' /\ PaysForPage' /\ Asks'
  BY <1>0, <1>2, <1>6 DEF CreatesForPage, PaysForPage, Asks
<1> QED
  BY <1>9, <1>13, <1>14, <1>15, <1>16, <1>18 DEF PageInv

\* The page takes up the booking of its key, which is for what it asks.
LEMMA JoinsItsOwn ==
  ASSUME PageInv, job = NoJob, StaysAtPayment, NEW kind \in JobKinds, Joins(page.key),
         UNCHANGED engine,
         job' = [stage |-> "create", kind |-> kind, key |-> page.key,
                 booking |-> Joined(page.key)]
  PROVE  PageInv'
<1> DEFINE n == Len(record)
           k == page.key
           b == byKey[k]
<1>0. /\ PageShapes /\ EngineIs /\ WizardIs /\ KeyIsPages /\ BookingIsPages /\ Asks
  BY DEF PageInv
<1>1. k \in Keys /\ k \in Nat /\ page.booking \in 0 .. n
  BY <1>0, PageFields
<1>2. job.stage = "none" /\ \A j \in Keys : pending[j] = 0
  BY WithoutJob
<1>3. b # 0 /\ Joined(k) = b
  BY <1>1, <1>2 DEF Joins, Joined
<1>4. n \in Nat /\ b \in 1 .. n
  BY <1>0, <1>1, <1>3, Sizes
<1>5. record[b].key = k /\ record[b].live /\ record[b].request = Current
  BY <1>0, <1>1, <1>3 DEF EngineIs, KeyIs, KeyIsPages
<1>6. /\ job'.stage = "create" /\ job'.kind = kind /\ job'.key = k /\ job'.booking = b
      /\ job' \in JobShape /\ job' # NoJob
  BY <1>1, <1>3, <1>4 DEF JobShape, NoJob
<1>7. /\ UNCHANGED <<record, byKey, pending, attempts, intent, bookingOf, offered, confirming>>
      /\ Keeps(page') /\ Current' = Current /\ page' \in PageShape
      /\ page.step = "payment" /\ page'.step = "payment"
  BY DEF engine, StaysAtPayment, Keeps, Current, RequestOf
<1> HIDE DEF b, n, k
<1>8. PageShapes'
  BY <1>0, <1>6, <1>7 DEF PageShapes, Keeps, EngineTypeOK, JobShape, PaymentKeys, PageShape, IntentState, Call,
        Recorded
<1>9. \A a : PaymentKey(a)' = PaymentKey(a)
  BY <1>7 DEF PaymentKey
<1>10. EngineIs'
  <2>1. ASSUME NEW i \in PaymentKeys PROVE IntentIs(i)'
    BY <1>0, <1>2, <1>7 DEF EngineIs, IntentIs
  <2>2. ASSUME NEW j \in Keys PROVE KeyIs(j)'
    BY <1>0, <1>7, <1>9 DEF EngineIs, KeyIs
  <2>3. ASSUME NEW a \in 1 .. Len(record) PROVE RecordIs(a)'
    BY <1>0, <1>7, <1>9 DEF EngineIs, RecordIs
  <2> QED
    BY <1>7, <2>1, <2>2, <2>3 DEF EngineIs, PaymentKeys
<1>11. WizardIs'
  BY <1>0, <1>6, <1>7 DEF WizardIs, Keeps, StaysAtPayment
<1>12. KeyIsPages'
  BY <1>0, <1>2, <1>6, <1>7 DEF KeyIsPages, Keeps
<1>13. BookingIsPages'
  BY <1>0, <1>6, <1>7 DEF BookingIsPages, Keeps
<1>14. CreatesForPage'
  BY <1>1, <1>2, <1>4, <1>5, <1>6, <1>7 DEF CreatesForPage, Keeps, n, k
<1>15. PaysForPage' /\ Asks'
  BY <1>0, <1>2, <1>6, <1>7 DEF PaysForPage, Asks
<1> QED
  BY <1>8, <1>10, <1>11, <1>12, <1>13, <1>14, <1>15 DEF PageInv

\* A booking that can still be paid for is charged under its own intent.
LEMMA PaysItsOwn ==
  ASSUME PageInv, job = NoJob, page.step = "payment", ~ mounting, Usable,
         NEW kind \in {"succeeded", "failed"}, UNCHANGED <<engine, page, mounting>>,
         job' = [stage |-> "charge", kind |-> kind, booking |-> page.booking,
                 intent |-> page.intent]
  PROVE  PageInv'
<1>0. /\ PageShapes /\ EngineIs /\ WizardIs /\ KeyIsPages /\ BookingIsPages /\ Asks
  BY DEF PageInv
<1>1. /\ page.booking \in 0 .. Len(record) /\ Len(record) \in Nat
      /\ page.intent \in PaymentKeys \cup {NoIntent}
  BY <1>0, PageFields, Sizes
<1>2. /\ job.stage = "none" /\ \A j \in Keys : pending[j] = 0
      /\ \A i \in PaymentKeys :
           intent[i].state \in {"succeeded", "failed"} =>
             /\ bookingOf[i] # 0
             /\ record[bookingOf[i]].state =
                  IF intent[i].state = "succeeded" THEN "confirmed" ELSE "failed"
  BY WithoutJob
<1>3. /\ page.booking # 0 /\ record[page.booking].state = "pending_payment"
      /\ page.intent \in PaymentKeys /\ page.intent # NoIntent
      /\ intent[page.intent].state \notin {"none", "failed"}
  BY <1>1 DEF Usable
<1> HIDE DEF PaymentKeys, NoIntent
<1>4. bookingOf[page.intent] = page.booking
  BY <1>0, <1>2, <1>3 DEF BookingIsPages
<1>5. intent[page.intent].state = "requires_payment"
  BY <1>0, <1>2, <1>3, <1>4 DEF EngineIs, IntentIs
<1>6. /\ job'.stage = "charge" /\ job'.kind = kind /\ job'.booking = page.booking
      /\ job'.intent = page.intent /\ job' \in JobShape /\ job' # NoJob
  BY <1>1, <1>3 DEF JobShape, NoJob
<1>7. UNCHANGED <<record, byKey, pending, attempts, intent, bookingOf, offered, confirming>>
      /\ Current' = Current
  BY DEF engine, Current, RequestOf
<1>8. PageShapes'
  BY <1>0, <1>6, <1>7 DEF PageShapes, EngineTypeOK, JobShape, PaymentKeys, PageShape, IntentState, Call,
        Recorded, NoIntent
<1>9. \A a : PaymentKey(a)' = PaymentKey(a)
  BY <1>7 DEF PaymentKey
<1>10. EngineIs'
  <2>1. ASSUME NEW i \in PaymentKeys PROVE IntentIs(i)'
    BY <1>0, <1>2, <1>7 DEF EngineIs, IntentIs
  <2>2. ASSUME NEW j \in Keys PROVE KeyIs(j)'
    BY <1>0, <1>7, <1>9 DEF EngineIs, KeyIs
  <2>3. ASSUME NEW a \in 1 .. Len(record) PROVE RecordIs(a)'
    BY <1>0, <1>7, <1>9 DEF EngineIs, RecordIs
  <2> QED
    BY <1>7, <2>1, <2>2, <2>3 DEF EngineIs, PaymentKeys
<1>11. WizardIs'
  BY <1>0 DEF WizardIs, MayRotate, NextKey
<1>12. KeyIsPages' /\ BookingIsPages'
  BY <1>0, <1>2, <1>6, <1>7 DEF KeyIsPages, BookingIsPages
<1>13. CreatesForPage' /\ PaysForPage' /\ Asks'
  BY <1>0, <1>2, <1>3, <1>4, <1>5, <1>6, <1>7 DEF CreatesForPage, PaysForPage, Asks
<1> QED
  BY <1>8, <1>10, <1>11, <1>12, <1>13 DEF PageInv

\* A creation joins, creates or is refused.
LEMMA CreateBookingKeeps ==
  ASSUME PageInv, job = NoJob, page.step = "payment", NEW kind \in JobKinds, NEW from \in PageShape,
         Keeps(from), from.step = "payment", from.status # "succeeded",
         CreateBooking(kind, from)
  PROVE  PageInv'
<1>1. CASE /\ Joins(page.key) /\ page' = from /\ mounting' = FALSE /\ UNCHANGED engine
           /\ job' = [stage |-> "create", kind |-> kind, key |-> page.key,
                      booking |-> Joined(page.key)]
  BY <1>1, JoinsItsOwn DEF StaysAtPayment
<1>2. CASE /\ Create(page.key, Current) /\ page' = from /\ mounting' = FALSE
           /\ job' = [stage |-> "create", kind |-> kind, key |-> page.key,
                      booking |-> Len(record')]
  BY <1>2, CreatesAnew DEF StaysAtPayment
<1>3. CASE /\ CreateRefused(page.key, Current) /\ job' = NoJob
           /\ \/ page' = ReturnTo("slot", TRUE)
              \/ page' = ReturnTo("configure", FALSE) /\ ServiceOf[page.selection] \in Configurable
              \/ page' = ReturnTo("service", FALSE)
  <2>1. PICK to \in {"slot", "configure", "service"}, clear \in BOOLEAN :
          /\ page' = ReturnTo(to, clear)
          /\ to = "configure" => ServiceOf[page.selection] \in Configurable
    BY <1>3
  <2> DEFINE s == IF clear THEN None ELSE page.slot
             p == [page EXCEPT !.step = to, !.slot = s, !.booking = 0, !.intent = NoIntent,
                               !.status = "idle", !.slotPending = (to = "slot")]
  <2>2. page' = p
    BY <2>1 DEF ReturnTo
  <2>3. s \in Slots \cup {None} /\ (to = "slot") \in BOOLEAN
    BY PageFields DEF PageInv
  <2>4. to \in {Steps[m] : m \in DOMAIN Steps}
    BY <2>1, StepNames
  <2> HIDE DEF s
  <2>5. /\ p \in PageShape /\ p.step = to /\ p.key = page.key /\ p.booking = 0
        /\ p.selection = page.selection /\ p.status = "idle"
    BY <2>3, <2>4 DEF PageInv, PageShapes, PageShape
  <2> HIDE DEF p
  <2> QED
    BY <1>3, <2>1, <2>2, <2>5, CreationRefused
<1> QED
  BY <1>1, <1>2, <1>3 DEF CreateBooking, Enter

\* The setup of the Payment step keeps the invariant.
LEMMA SetupKeeps ==
  ASSUME PageInv, Setup
  PROVE  PageInv'
<1> DEFINE from == [page EXCEPT !.status = "working"]
<1>1. /\ page.step = "payment" /\ job = NoJob /\ CreateBooking("setup", from)
  BY DEF Setup
<1>2. /\ from \in PageShape /\ from.step = page.step /\ from.key = page.key
      /\ from.booking = page.booking /\ from.intent = page.intent
      /\ from.selection = page.selection /\ from.slot = page.slot
      /\ from.customer = page.customer /\ from.status = "working"
  BY DEF PageInv, PageShapes, PageShape
<1> HIDE DEF from
<1>3. Keeps(from) /\ from.step = "payment" /\ from.status # "succeeded"
  BY <1>1, <1>2 DEF Keeps
<1> QED
  BY <1>1, <1>2, <1>3, CreateBookingKeeps DEF JobKinds

\* A payment charges the page's booking, or creates another first.
LEMMA PayKeeps ==
  ASSUME PageInv, NEW outcome \in {"succeeded", "failed"}, Pay(outcome)
  PROVE  PageInv'
<1>1. /\ page.step = "payment" /\ ~ mounting /\ job = NoJob
  BY DEF Pay
<1>2. CASE Usable
  BY <1>1, <1>2, PaysItsOwn DEF Pay
<1>3. CASE ~ Usable
  <2>1. CreateBooking(outcome, page)
    BY <1>3 DEF Pay
  <2>2. page \in PageShape /\ Keeps(page) /\ page.status # "succeeded"
    BY <1>1 DEF PageInv, PageShapes, WizardIs, Keeps
  <2> QED
    BY <1>1, <2>1, <2>2, CreateBookingKeeps DEF JobKinds
<1> QED
  BY <1>2, <1>3

\* The effect of the mounted step runs once.
LEMMA MountedKeeps ==
  ASSUME PageInv, Mounted
  PROVE  PageInv'
<1>1. CASE Setup
  BY <1>1, SetupKeeps
<1>2. CASE mounting' = FALSE /\ UNCHANGED <<engine, page, shown, job, reloads>>
  <2>1. mounting
    BY DEF Mounted
  <2>2. job = NoJob
    BY <2>1 DEF PageInv, WizardIs
  <2> QED
    BY <1>2, <2>2, IdleKeeps DEF engine
<1> QED
  BY <1>1, <1>2 DEF Mounted

-----------------------------------------------------------------------------
\* The job goes on.
LEMMA BookingCreatedKeeps ==
  ASSUME PageInv, BookingCreated
  PROVE  PageInv'
<1> DEFINE n == Len(record)
           b == job.booking
           made == [page EXCEPT !.booking = b]
           ready == [made EXCEPT !.intent = record[b].intent]
<1>0. /\ PageShapes /\ EngineIs /\ WizardIs /\ KeyIsPages /\ BookingIsPages /\ Asks
      /\ CreatesForPage /\ page \in PageShape
  BY DEF PageInv, PageShapes
<1>1. /\ job.stage = "create" /\ pending[job.key] = 0
      /\ UNCHANGED <<engine, shown, mounting, reloads>>
  BY DEF BookingCreated
<1>2. /\ job.key = page.key /\ b \in 1 .. n /\ record[b].live /\ record[b].key = page.key
      /\ record[b].request = Current /\ n \in Nat /\ page.key \in Keys
      /\ record[b].intent \in PaymentKeys \cup {NoIntent} /\ job.kind \in JobKinds
      /\ page.step = "payment" /\ page.status # "succeeded" /\ ~ mounting /\ PaymentKey(b) # NoIntent
      /\ page.booking \in Nat
  BY <1>0, <1>1, Sizes, PageFields, JobFields DEF CreatesForPage, WizardIs, NoJob
<1>3. \A k \in Keys : pending[k] = 0
  BY <1>0, <1>1 DEF KeyIsPages
<1>4. RecordIs(b) /\ byKey[page.key] = b
  BY <1>0, <1>2 DEF EngineIs, RecordIs
<1>5. record[b].state \in {"pending_payment", "failed"}
  BY <1>0, <1>2, <1>4 DEF RecordIs, KeyIsPages
<1>6. /\ record[b].state # "failed" =>
           /\ record[b].intent # NoIntent /\ bookingOf[record[b].intent] = b
           /\ intent[record[b].intent].state # "none" /\ record[b].intent \in PaymentKeys
  BY <1>2, <1>3, <1>4 DEF RecordIs
<1> HIDE DEF b, n
<1>7. /\ made \in PageShape /\ made.step = page.step /\ made.key = page.key
      /\ made.booking = b /\ made.intent = page.intent /\ made.status = page.status
      /\ made.selection = page.selection /\ made.slot = page.slot /\ made.customer = page.customer
  BY <1>0, <1>2 DEF PageShape
<1> HIDE DEF made
<1>8. /\ ready \in PageShape /\ ready.step = page.step /\ ready.key = page.key
      /\ ready.booking = b /\ ready.intent = record[b].intent /\ ready.status = page.status
      /\ ready.selection = page.selection /\ ready.slot = page.slot
      /\ ready.customer = page.customer
  BY <1>2, <1>7 DEF PageShape
<1> HIDE DEF ready
<1> DEFINE Fails == /\ record[b].state = "failed" /\ page' = [made EXCEPT !.status = "failed"]
                    /\ job' = NoJob
           Idles == /\ record[b].state # "failed" /\ page' = [ready EXCEPT !.status = "idle"]
                    /\ job' = NoJob
           Pays == /\ record[b].state # "failed" /\ page' = ready /\ job.kind # "setup"
                   /\ job' = [stage |-> "charge", kind |-> job.kind, booking |-> b,
                              intent |-> record[b].intent]
<1>9. Fails \/ Idles \/ Pays
  BY <1>5, <1>6 DEF BookingCreated, b, made, ready
<1>10. /\ page' \in PageShape /\ page'.step = "payment" /\ page'.key = page.key
       /\ page'.booking = b /\ page'.status # "succeeded"
       /\ page'.selection = page.selection /\ page'.slot = page.slot
       /\ page'.customer = page.customer
       /\ record[b].state # "failed" => page'.intent = record[b].intent
  <2>1. CASE Fails
    <3>1. LET p == [made EXCEPT !.status = "failed"]
          IN /\ p \in PageShape /\ p.step = made.step /\ p.key = made.key
             /\ p.booking = made.booking /\ p.status = "failed"
             /\ p.selection = made.selection /\ p.slot = made.slot
             /\ p.customer = made.customer
      BY <1>7 DEF PageShape
    <3> QED
      BY <1>2, <1>7, <2>1, <3>1
  <2>2. CASE Idles
    <3>1. LET p == [ready EXCEPT !.status = "idle"]
          IN /\ p \in PageShape /\ p.step = ready.step /\ p.key = ready.key
             /\ p.booking = ready.booking /\ p.status = "idle" /\ p.intent = ready.intent
             /\ p.selection = ready.selection /\ p.slot = ready.slot
             /\ p.customer = ready.customer
      BY <1>8 DEF PageShape
    <3> QED
      BY <1>2, <1>8, <2>2, <3>1
  <2>3. CASE Pays
    BY <1>2, <1>8, <2>3
  <2> QED
    BY <1>9, <2>1, <2>2, <2>3
<1>11. Current' = Current
  BY <1>10 DEF Current, RequestOf
<1>12. /\ job' \in JobShape /\ job'.stage \in {"none", "charge"}
       /\ job'.stage = "charge" => /\ record[b].state # "failed"
                                   /\ job'.booking = b /\ job'.intent = record[b].intent
       /\ (job' # NoJob => job'.stage = "charge")
  <2>1. CASE job' = NoJob
    BY <2>1 DEF JobShape, NoJob
  <2>2. CASE Pays
    <3>1. job.kind \in {"succeeded", "failed"} /\ b \in Nat /\ record[b].intent \in PaymentKeys
      BY <1>2, <1>6, <2>2 DEF JobKinds
    <3> QED
      BY <2>2, <3>1 DEF JobShape
  <2> QED
    BY <1>9, <2>1, <2>2
<1>13. UNCHANGED <<record, byKey, pending, attempts, intent, bookingOf, offered, confirming>>
  BY <1>1 DEF engine
<1> HIDE DEF Fails, Idles, Pays, PaymentKeys, NoIntent
<1>14. PageShapes'
  <2>1. b <= Len(record)
    BY <1>2 DEF n
  <2> QED
    BY <1>0, <1>10, <1>12, <1>13, <2>1 DEF PageShapes, EngineTypeOK, JobShape, PaymentKeys, PageShape, IntentState,
          Call, Recorded, NoIntent
<1>15. \A a : PaymentKey(a)' = PaymentKey(a)
  BY <1>13 DEF PaymentKey
<1>16. EngineIs'
  <2>1. ASSUME NEW i \in PaymentKeys PROVE IntentIs(i)'
    BY <1>0, <1>1, <1>13 DEF EngineIs, IntentIs
  <2>2. ASSUME NEW j \in Keys PROVE KeyIs(j)'
    BY <1>0, <1>13, <1>15 DEF EngineIs, KeyIs
  <2>3. ASSUME NEW a \in 1 .. Len(record) PROVE RecordIs(a)'
    BY <1>0, <1>13, <1>15 DEF EngineIs, RecordIs
  <2> QED
    BY <1>13, <2>1, <2>2, <2>3 DEF EngineIs, PaymentKeys
<1>17. WizardIs'
  BY <1>0, <1>1, <1>2, <1>10 DEF WizardIs
<1>18. KeyIsPages'
  BY <1>0, <1>2, <1>3, <1>4, <1>5, <1>10, <1>11, <1>13 DEF KeyIsPages
<1>19. BookingIsPages'
  BY <1>2, <1>3, <1>6, <1>10, <1>11, <1>13 DEF BookingIsPages
<1>20. CreatesForPage' /\ Asks'
  BY <1>0, <1>1, <1>12, <1>13 DEF CreatesForPage, Asks
<1>21. PaysForPage'
  <2>1. record[b].state # "failed" => intent[record[b].intent].state = "requires_payment"
    <3> SUFFICES ASSUME record[b].state # "failed"
                 PROVE  intent[record[b].intent].state = "requires_payment"
      OBVIOUS
    <3> DEFINE i == record[b].intent
    <3>1. IntentIs(i) /\ bookingOf[i] = b /\ intent[i].state # "none"
      BY <1>0, <1>6 DEF EngineIs
    <3> HIDE DEF i
    <3>2. intent[i].state = "requires_payment"
      BY <1>1, <1>5, <3>1 DEF IntentIs
    <3> QED
      BY <3>2 DEF i
  <2> QED
    BY <1>2, <1>5, <1>6, <1>10, <1>12, <1>13, <2>1 DEF PaysForPage
<1> QED
  BY <1>14, <1>16, <1>17, <1>18, <1>19, <1>20, <1>21 DEF PageInv

\* The customer's money moves for the intent of the page's booking.
LEMMA ChargeKeeps ==
  ASSUME PageInv, Charge
  PROVE  PageInv'
<1> DEFINE i == job.intent
           b == job.booking
<1>0. /\ PageShapes /\ EngineTypeOK /\ EngineIs /\ WizardIs /\ KeyIsPages /\ BookingIsPages
      /\ PaysForPage /\ Asks /\ page \in PageShape
  BY DEF PageInv, PageShapes
<1>1. /\ job.stage = "charge" /\ job' = [job EXCEPT !.stage = "ask"]
      /\ UNCHANGED <<page, mounting>>
  BY DEF Charge
<1>2. /\ b = page.booking /\ b # 0 /\ i = page.intent /\ bookingOf[i] = b
      /\ record[b].state = "pending_payment" /\ intent[i].state = "requires_payment"
  BY <1>0, <1>1 DEF PaysForPage
<1>3. /\ job.kind \in {"succeeded", "failed"} /\ i \in PaymentKeys /\ job.booking \in Nat
      /\ job \in [stage : {"charge", "ask", "confirm"}, kind : {"succeeded", "failed"},
                  booking : Nat, intent : PaymentKeys]
  BY <1>0, <1>1, JobFields
<1>4. /\ intent' = [intent EXCEPT ![i].state = job.kind]
      /\ UNCHANGED <<record, byKey, pending, attempts, bookingOf, offered, confirming>>
  BY <1>2 DEF Charge, CompletePayment
<1>5. /\ EngineTypeOK'
      /\ \A j \in PaymentKeys : intent'[j].state = IF j = i THEN job.kind ELSE intent[j].state
  <2>1. job.kind \in IntentState
    BY <1>3 DEF IntentState
  <2> QED
    BY <1>0, <1>3, <1>4, <2>1, ProviderEffect
<1>6. \A k \in Keys : pending[k] = 0
  BY <1>0, <1>1 DEF KeyIsPages
<1> HIDE DEF PaymentKeys, NoIntent
<1>7. /\ job'.stage = "ask" /\ job'.kind = job.kind /\ job'.booking = b /\ job'.intent = i
      /\ job' \in JobShape /\ job' # NoJob
  <2>1. /\ job'.stage = "ask" /\ job'.kind = job.kind /\ job'.booking = b /\ job'.intent = i
        /\ job' \in [stage : {"charge", "ask", "confirm"}, kind : {"succeeded", "failed"},
                     booking : Nat, intent : PaymentKeys]
    BY <1>1, <1>3
  <2> QED
    BY <2>1 DEF JobShape, NoJob
<1> HIDE DEF i, b
<1>8. Current' = Current
  BY <1>1 DEF Current, RequestOf
<1>9. PageShapes'
  BY <1>0, <1>1, <1>4, <1>5, <1>7 DEF PageShapes, JobShape, PaymentKeys, PageShape, NoIntent
<1>10. \A a : PaymentKey(a)' = PaymentKey(a)
  BY <1>4 DEF PaymentKey
<1>11. ASSUME NEW a \in 1 .. Len(record) PROVE RecordIs(a)'
  <2>1. RecordIs(a) /\ record[a].intent \in PaymentKeys \cup {NoIntent}
    BY <1>0, Sizes DEF EngineIs
  <2>2. record[a].intent # NoIntent => intent'[record[a].intent].state =
          IF record[a].intent = i THEN job.kind ELSE intent[record[a].intent].state
    BY <1>5, <2>1
  <2> QED
    BY <1>3, <1>4, <1>10, <2>1, <2>2 DEF RecordIs
<1>12. ASSUME NEW k \in Keys PROVE KeyIs(k)'
  <2>1. KeyIs(k) /\ attempts[k] \in 0 .. MaxAttempts /\ MaxAttempts \in Nat
    BY <1>0, Sizes DEF EngineIs
  <2>2. ASSUME NEW a \in attempts[k] .. MaxAttempts PROVE intent'[<<k, a>>].state = "none"
    <3>1. <<k, a>> \in PaymentKeys /\ intent[<<k, a>>].state = "none"
      BY <2>1 DEF KeyIs, PaymentKeys
    <3> QED
      BY <1>2, <1>5, <3>1
  <2> QED
    BY <1>4, <1>6, <2>1, <2>2 DEF KeyIs
<1>13. ASSUME NEW j \in PaymentKeys PROVE IntentIs(j)'
  <2>1. IntentIs(j)
    BY <1>0 DEF EngineIs
  <2>2. CASE j = i
    BY <1>1, <1>3, <1>4, <1>5, <1>7, <2>1, <2>2 DEF IntentIs
  <2>3. CASE j # i
    BY <1>1, <1>4, <1>5, <1>7, <2>1, <2>3 DEF IntentIs
  <2> QED
    BY <2>2, <2>3
<1>14. EngineIs'
  BY <1>4, <1>11, <1>12, <1>13 DEF EngineIs, PaymentKeys
<1>15. WizardIs'
  BY <1>0, <1>1, <1>7 DEF WizardIs, MayRotate, NextKey, NoJob
<1>16. KeyIsPages' /\ BookingIsPages'
  BY <1>0, <1>1, <1>2, <1>4, <1>6, <1>7, <1>8 DEF KeyIsPages, BookingIsPages
<1>17. CreatesForPage' /\ Asks' /\ PaysForPage'
  BY <1>0, <1>1, <1>2, <1>3, <1>4, <1>5, <1>7 DEF CreatesForPage, Asks, PaysForPage
<1> QED
  BY <1>9, <1>14, <1>15, <1>16, <1>17 DEF PageInv

\* The engine is asked about that booking, and sees what was settled.
LEMMA AskEngineKeeps ==
  ASSUME PageInv, AskEngine
  PROVE  PageInv'
<1> DEFINE i == job.intent
           b == job.booking
           e == [step |-> "verify", booking |-> b, intent |-> i, saw |-> job.kind]
<1>0. /\ PageShapes /\ EngineTypeOK /\ EngineIs /\ WizardIs /\ KeyIsPages /\ BookingIsPages
      /\ PaysForPage /\ Asks /\ page \in PageShape
  BY DEF PageInv, PageShapes
<1>1. /\ job.stage = "ask" /\ job' = [job EXCEPT !.stage = "confirm"]
      /\ UNCHANGED <<page, mounting>>
  BY DEF AskEngine
<1>2. /\ b = page.booking /\ b # 0 /\ i = page.intent /\ bookingOf[i] = b
      /\ record[b].state = "pending_payment" /\ intent[i].state = job.kind
  BY <1>0, <1>1 DEF PaysForPage
<1>3. /\ job.kind \in {"succeeded", "failed"} /\ i \in PaymentKeys /\ job.booking \in Nat
      /\ job \in [stage : {"charge", "ask", "confirm"}, kind : {"succeeded", "failed"},
                  booking : Nat, intent : PaymentKeys]
  BY <1>0, <1>1, JobFields
<1>4. /\ confirming' = [confirming EXCEPT ![Page] = e]
      /\ UNCHANGED <<record, byKey, pending, attempts, intent, bookingOf, offered>>
  BY <1>2 DEF AskEngine, ConfirmStart
<1>5. e \in Call
  <2>1. b \in Ids
    <3>1. /\ page.booking \in 0 .. Len(record) /\ Len(record) <= MaxRecords /\ Len(record) \in Nat
          /\ MaxRecords \in Nat
      BY <1>0, PageFields, RecordTyped, EngineAssumption DEF EngineTypeOK
    <3> QED
      BY <1>2, <3>1 DEF Ids
  <2>2. job.kind \in IntentState
    BY <1>3 DEF IntentState
  <2> QED
    BY <1>3, <2>1, <2>2 DEF Call
<1> HIDE DEF PaymentKeys, NoIntent
<1>6. confirming' \in [Callers -> Call] /\ confirming'[Page] = e
  <2> HIDE DEF e
  <2> QED
    BY <1>0, <1>4, <1>5, PageAssumption DEF EngineTypeOK
<1>7. /\ job'.stage = "confirm" /\ job'.kind = job.kind /\ job'.booking = b /\ job'.intent = i
      /\ job' \in JobShape /\ job' # NoJob
  <2>1. /\ job'.stage = "confirm" /\ job'.kind = job.kind /\ job'.booking = b /\ job'.intent = i
        /\ job' \in [stage : {"charge", "ask", "confirm"}, kind : {"succeeded", "failed"},
                     booking : Nat, intent : PaymentKeys]
    BY <1>1, <1>3
  <2> QED
    BY <2>1 DEF JobShape, NoJob
<1>8. Current' = Current
  BY <1>1 DEF Current, RequestOf
<1>9. EngineTypeOK'
  BY <1>0, <1>4, <1>6 DEF EngineTypeOK, IntentState, PaymentKeys, Call, Recorded
<1>10. PageShapes'
  BY <1>0, <1>1, <1>4, <1>7, <1>9 DEF PageShapes, JobShape, PaymentKeys, PageShape, NoIntent
<1>11. \A a : PaymentKey(a)' = PaymentKey(a)
  BY <1>4 DEF PaymentKey
<1>12. EngineIs'
  <2>1. ASSUME NEW j \in PaymentKeys PROVE IntentIs(j)'
    BY <1>0, <1>1, <1>4, <1>7 DEF EngineIs, IntentIs
  <2>2. ASSUME NEW j \in Keys PROVE KeyIs(j)'
    BY <1>0, <1>4, <1>11 DEF EngineIs, KeyIs
  <2>3. ASSUME NEW a \in 1 .. Len(record) PROVE RecordIs(a)'
    BY <1>0, <1>4, <1>11 DEF EngineIs, RecordIs
  <2> QED
    BY <1>4, <2>1, <2>2, <2>3 DEF EngineIs, PaymentKeys
<1>13. WizardIs'
  BY <1>0, <1>1, <1>7 DEF WizardIs, MayRotate, NextKey, NoJob
<1>14. KeyIsPages' /\ BookingIsPages'
  BY <1>0, <1>1, <1>2, <1>4, <1>7, <1>8 DEF KeyIsPages, BookingIsPages
<1>15. CreatesForPage' /\ PaysForPage'
  BY <1>0, <1>1, <1>2, <1>4, <1>7 DEF CreatesForPage, PaysForPage
<1>16. Asks'
  BY <1>6, <1>7 DEF Asks
<1> QED
  BY <1>10, <1>12, <1>13, <1>14, <1>15, <1>16 DEF PageInv

\* The answer moves the page and the booking together.
LEMMA AnsweredKeeps ==
  ASSUME PageInv, Answered
  PROVE  PageInv'
<1> DEFINE n == Len(record)
           i == job.intent
           b == job.booking
           sold == job.kind = "succeeded"
           to == IF sold THEN "confirmed" ELSE "failed"
           step == IF sold THEN "confirmation" ELSE page.step
           status == IF sold THEN "succeeded" ELSE "failed"
<1>0. /\ PageShapes /\ EngineTypeOK /\ EngineIs /\ WizardIs /\ KeyIsPages /\ BookingIsPages
      /\ PaysForPage /\ Asks /\ page \in PageShape
  BY DEF PageInv, PageShapes
<1>1. /\ job.stage = "confirm" /\ ConfirmFinish(Page) /\ job' = NoJob /\ UNCHANGED mounting
  BY DEF Answered
<1>2. /\ b = page.booking /\ b # 0 /\ i = page.intent /\ bookingOf[i] = b
      /\ record[b].state = "pending_payment" /\ intent[i].state = job.kind
  BY <1>0, <1>1 DEF PaysForPage
<1>3. /\ job.kind \in {"succeeded", "failed"} /\ i \in PaymentKeys /\ b \in Nat
      /\ b \in 1 .. n /\ n \in Nat /\ page.step = "payment" /\ page.selection # None
      /\ ~ mounting /\ page.key \in Keys
  <2>1. job.kind \in {"succeeded", "failed"} /\ i \in PaymentKeys /\ b \in Nat
    BY <1>0, <1>1, JobFields
  <2>2. page.booking \in 0 .. n /\ n \in Nat /\ page.key \in Keys
    BY <1>0, PageFields, Sizes
  <2>3. page.step = "payment" /\ ~ mounting /\ page.selection # None
    BY <1>0, <1>1 DEF WizardIs, NoJob
  <2> QED
    BY <1>2, <2>1, <2>2, <2>3
<1>4. confirming[Page] = [step |-> "verify", booking |-> b, intent |-> i, saw |-> job.kind]
  BY <1>0, <1>1 DEF Asks
<1>5. /\ confirming[Page].booking = b /\ confirming[Page].saw = job.kind
  BY <1>4
<1>6. sold => Verdict(Page) = "confirmed"
  BY <1>2, <1>5 DEF Verdict
<1>7. /\ Move(b, to) /\ confirming' = [confirming EXCEPT ![Page] = NoCall]
      /\ UNCHANGED <<byKey, pending, attempts, intent, bookingOf, offered>>
  <2>1. CASE sold
    BY <1>1, <1>2, <1>5, <1>6, <2>1 DEF ConfirmFinish
  <2>2. CASE ~ sold
    BY <1>1, <1>2, <1>3, <1>5, <2>2 DEF ConfirmFinish
  <2> QED
    BY <2>1, <2>2
<1>8. page' = [page EXCEPT !.booking = b, !.status = status, !.step = step]
  <2>1. CASE sold
    BY <1>6, <2>1 DEF Answered
  <2>2. CASE ~ sold
    BY <1>3, <2>2 DEF Answered
  <2> QED
    BY <2>1, <2>2
<1>9. confirming' \in [Callers -> Call] /\ confirming'[Page] = NoCall
  <2>1. NoCall \in Call
    BY DEF Call
  <2> HIDE DEF NoCall
  <2> QED
    BY <1>0, <1>7, <2>1, PageAssumption DEF EngineTypeOK
<1>10. /\ EngineTypeOK' /\ Len(record') = n
       /\ \A a \in 1 .. n :
            /\ SameOf(a) /\ record'[a].intent = record[a].intent
            /\ record'[a].live = record[a].live
            /\ record'[a].state = IF a = b THEN to ELSE record[a].state
  <2>1. to \in BookingState
    BY DEF BookingState
  <2>2. pending' \in [Keys -> 0 .. n]
    BY <1>0, <1>7 DEF EngineTypeOK
  <2> HIDE DEF to
  <2> QED
    BY <1>0, <1>3, <1>7, <1>9, <2>1, <2>2, MoveEffect
<1>11. \A k \in Keys : pending[k] = 0
  BY <1>0, <1>1 DEF KeyIsPages
<1>12. /\ page' \in PageShape /\ page'.booking = b /\ page'.status = status
       /\ page'.step = step /\ page'.key = page.key /\ page'.selection = page.selection
       /\ page'.slot = page.slot /\ page'.customer = page.customer
  <2>1. /\ step \in {Steps[m] : m \in DOMAIN Steps}
        /\ status \in {"idle", "working", "failed", "succeeded"}
    BY <1>3, StepNames
  <2> HIDE DEF step, status
  <2> QED
    BY <1>0, <1>3, <1>8, <2>1 DEF PageShape
<1>13. Current' = Current
  BY <1>12 DEF Current, RequestOf
<1>14. job'.stage = "none"
  BY <1>1 DEF NoJob
<1> HIDE DEF n, b, i, PaymentKeys, NoIntent
<1>15. PageShapes'
  <2>1. b <= Len(record')
    BY <1>3, <1>10
  <2> QED
    BY <1>1, <1>10, <1>12, <2>1 DEF PageShapes, JobShape, PaymentKeys, PageShape, NoIntent
<1>16. \A a \in 1 .. n : PaymentKey(a)' = PaymentKey(a)
  BY <1>10 DEF SameOf, PaymentKey
<1>17. record[b].intent = i /\ i # NoIntent /\ record[b].live
  <2>1. IntentIs(i) /\ PaymentKey(b) # NoIntent /\ RecordIs(b) /\ record[b].live \in BOOLEAN
    BY <1>0, <1>3, Sizes DEF EngineIs, n
  <2>2. record[b].intent = i
    BY <1>2, <2>1 DEF IntentIs
  <2>3. record[b].live
    BY <1>2, <2>1 DEF IntentIs
  <2>4. i # NoIntent
    <3>1. record[b].key \in Keys
      BY <1>0, <1>3, Sizes DEF n
    <3> QED
      BY <1>2, <1>3, <1>11, <2>1, <2>2, <2>3, <3>1 DEF RecordIs
  <2> QED
    BY <2>2, <2>3, <2>4
<1>18. ASSUME NEW a \in 1 .. n PROVE RecordIs(a)'
  <2>1. RecordIs(a)
    BY <1>0 DEF EngineIs, n
  <2>2. CASE a = b
    BY <1>7, <1>10, <1>16, <1>17, <2>1, <2>2 DEF RecordIs, SameOf
  <2>3. CASE a # b
    BY <1>7, <1>10, <1>16, <2>1, <2>3 DEF RecordIs, SameOf
  <2> QED
    BY <2>2, <2>3
<1>19. ASSUME NEW k \in Keys PROVE KeyIs(k)'
  <2>1. KeyIs(k) /\ byKey[k] \in 0 .. n
    BY <1>0, Sizes DEF EngineIs, n
  <2>2. byKey[k] # 0 => byKey[k] \in 1 .. n
    BY <1>3, <2>1
  <2> QED
    BY <1>7, <1>10, <1>11, <2>1, <2>2 DEF KeyIs, SameOf
<1>20. ASSUME NEW j \in PaymentKeys PROVE IntentIs(j)'
  <2>1. IntentIs(j) /\ bookingOf[j] \in 0 .. n
    BY <1>0, Sizes DEF EngineIs, n
  <2>2. bookingOf[j] # 0 => bookingOf[j] \in 1 .. n
    BY <1>3, <2>1
  <2>3. CASE j = i
    BY <1>2, <1>3, <1>7, <1>10, <1>17, <2>1, <2>3 DEF IntentIs
  <2>4. CASE j # i
    <3>1. bookingOf[j] # b
      BY <1>2, <1>3, <1>17, <2>1, <2>4 DEF IntentIs
    <3>2. intent[j].state \in {"succeeded", "failed"} =>
            /\ bookingOf[j] # 0
            /\ record[bookingOf[j]].state =
                 IF intent[j].state = "succeeded" THEN "confirmed" ELSE "failed"
      BY <2>1, <2>4 DEF IntentIs, i
    <3> QED
      BY <1>7, <1>10, <2>1, <2>2, <3>1, <3>2 DEF IntentIs
  <2> QED
    BY <2>3, <2>4
<1>21. EngineIs'
  BY <1>10, <1>18, <1>19, <1>20 DEF EngineIs, PaymentKeys, n
<1>22. WizardIs'
  <2>1. (page'.step = "confirmation" <=> page'.status = "succeeded")
    BY <1>3, <1>12
  <2>2. page'.step \in {"payment", "confirmation"}
    BY <1>3, <1>12
  <2> QED
    BY <1>1, <1>3, <1>12, <2>1, <2>2 DEF WizardIs
<1>23. KeyIsPages'
  <2>1. byKey[page.key] # 0 => byKey[page.key] \in 1 .. n
    BY <1>0, <1>3, Sizes DEF n
  <2>2. page'.step # "confirmation" => to = "failed"
    BY <1>12
  <2>3. byKey[page.key] # 0 =>
          /\ record'[byKey[page.key]].request = Current
          /\ page'.step # "confirmation" => record'[byKey[page.key]].state # "confirmed"
    BY <1>0, <1>3, <1>10, <2>1, <2>2 DEF KeyIsPages, SameOf
  <2> QED
    BY <1>0, <1>2, <1>7, <1>11, <1>12, <1>13, <2>3 DEF KeyIsPages
<1>24. BookingIsPages'
  <2>1. record'[b].state = to /\ record'[b].request = record[b].request
    BY <1>3, <1>10 DEF SameOf
  <2>2. to # "pending_payment" /\ (page'.step = "confirmation" => to = "confirmed")
    BY <1>3, <1>12
  <2> HIDE DEF to
  <2> QED
    BY <1>0, <1>2, <1>7, <1>11, <1>12, <1>13, <1>14, <2>1, <2>2 DEF BookingIsPages
<1>25. CreatesForPage' /\ PaysForPage' /\ Asks'
  BY <1>9, <1>14 DEF CreatesForPage, PaysForPage, Asks
<1> QED
  BY <1>15, <1>21, <1>22, <1>23, <1>24, <1>25 DEF PageInv

-----------------------------------------------------------------------------
\* The engine goes on with the creation in flight, which is the page's.
LEMMA IntentsArePairs == \A i \in PaymentKeys : i # NoIntent
<1> SUFFICES ASSUME NEW i \in PaymentKeys PROVE i # NoIntent
  OBVIOUS
<1>1. Len(i) = 2 /\ Len(NoIntent) = 0
  BY DEF PaymentKeys, NoIntent
<1> QED
  BY <1>1

\* What is known of the creation in flight.
LEMMA InFlight ==
  ASSUME PageInv, NEW k \in Keys, pending[k] # 0
  PROVE  LET b == pending[k]
         IN  /\ b \in 1 .. Len(record) /\ PaymentKey(b) \in PaymentKeys
             /\ job.stage = "create" /\ job.key = k /\ job.booking = b /\ page.key = k
             /\ byKey[k] = b /\ record[b].key = k /\ record[b].live
             /\ record[b].intent = NoIntent /\ record[b].state = "pending_payment"
             /\ record[b].attempt < attempts[k] /\ page.booking # b
             /\ intent[PaymentKey(b)].state \in {"none", "requires_payment"}
             /\ \A j \in Keys : j # k => pending[j] = 0
             /\ \A a \in 1 .. Len(record) : a # b /\ record[a].live => record[a].key # k
             /\ \A i \in PaymentKeys : bookingOf[i] # b
             /\ \A i \in PaymentKeys :
                  intent[i].state \in {"succeeded", "failed"} =>
                    /\ bookingOf[i] # 0
                    /\ record[bookingOf[i]].state =
                         IF intent[i].state = "succeeded" THEN "confirmed" ELSE "failed"
<1> DEFINE b == pending[k]
<1>0. /\ PageShapes /\ EngineIs /\ KeyIsPages /\ BookingIsPages /\ CreatesForPage
      /\ page.booking \in 0 .. Len(record)
  BY PageFields DEF PageInv
<1>1. b \in 1 .. Len(record) /\ PaymentKey(b) \in PaymentKeys
  BY <1>0, Sizes
<1>2. job.stage = "create" /\ job.key = k /\ page.key = k /\ job.booking = b
  BY <1>0 DEF KeyIsPages, CreatesForPage
<1>3. KeyIs(k) /\ RecordIs(b)
  BY <1>0, <1>1 DEF EngineIs
<1>4. /\ byKey[k] = b /\ record[b].key = k /\ record[b].live
      /\ record[b].intent = NoIntent /\ record[b].state = "pending_payment"
      /\ record[b].attempt < attempts[k]
      /\ intent[PaymentKey(b)].state \in {"none", "requires_payment"}
  BY <1>1, <1>3 DEF KeyIs, RecordIs
<1>5. page.booking # b
  BY <1>0, <1>1 DEF BookingIsPages
<1>6. \A j \in Keys : j # k => pending[j] = 0
  BY <1>0, <1>2 DEF KeyIsPages
<1>7. ASSUME NEW a \in 1 .. Len(record), a # b, record[a].live PROVE record[a].key # k
  BY <1>0, <1>4, <1>7 DEF EngineIs, RecordIs
<1>8. ASSUME NEW i \in PaymentKeys
      PROVE  /\ bookingOf[i] # b
             /\ intent[i].state \in {"succeeded", "failed"} =>
                  /\ bookingOf[i] # 0
                  /\ record[bookingOf[i]].state =
                       IF intent[i].state = "succeeded" THEN "confirmed" ELSE "failed"
  <2>1. IntentIs(i) /\ i # NoIntent
    BY <1>0, IntentsArePairs DEF EngineIs
  <2> HIDE DEF b, NoIntent, PaymentKeys
  <2>2. bookingOf[i] # b
    BY <1>1, <1>4, <2>1 DEF IntentIs
  <2> QED
    BY <1>2, <2>1, <2>2 DEF IntentIs
<1> QED
  BY <1>1, <1>2, <1>4, <1>5, <1>6, <1>7, <1>8

\* Its intent is created under a payment key of its own.
LEMMA ProviderCreatesForPage ==
  ASSUME PageInv, NEW k \in Keys, ProviderCreates(k), UNCHANGED <<page, job, mounting>>
  PROVE  PageInv'
<1> DEFINE b == pending[k]
           i == PaymentKey(b)
<1>0. /\ PageShapes /\ EngineTypeOK /\ EngineIs /\ WizardIs /\ KeyIsPages /\ BookingIsPages
      /\ CreatesForPage /\ Asks
  BY DEF PageInv, PageShapes
<1>1. /\ b # 0 /\ intent' = [intent EXCEPT ![i].state = "requires_payment"]
      /\ UNCHANGED <<record, byKey, pending, attempts, bookingOf, offered, confirming>>
  BY DEF ProviderCreates
<1>2. /\ b \in 1 .. Len(record) /\ i \in PaymentKeys /\ job.stage = "create"
      /\ record[b].key = k /\ record[b].attempt < attempts[k]
      /\ \A j \in PaymentKeys :
           intent[j].state \in {"succeeded", "failed"} =>
             /\ bookingOf[j] # 0
             /\ record[bookingOf[j]].state =
                  IF intent[j].state = "succeeded" THEN "confirmed" ELSE "failed"
  BY <1>1, InFlight
<1>3. i = <<k, record[b].attempt>>
  BY <1>2 DEF PaymentKey
<1> HIDE DEF i, b
<1>4. /\ EngineTypeOK'
      /\ \A j \in PaymentKeys : intent'[j].state = IF j = i THEN "requires_payment"
                                                            ELSE intent[j].state
  <2>1. "requires_payment" \in IntentState
    BY DEF IntentState
  <2> QED
    BY <1>0, <1>1, <1>2, <2>1, ProviderEffect
<1> HIDE DEF PaymentKeys, NoIntent
<1>5. Current' = Current
  BY DEF Current, RequestOf
<1>6. PageShapes'
  BY <1>0, <1>1, <1>4 DEF PageShapes, JobShape, PaymentKeys, PageShape, NoIntent
<1>7. \A a : PaymentKey(a)' = PaymentKey(a)
  BY <1>1 DEF PaymentKey
<1>8. ASSUME NEW a \in 1 .. Len(record) PROVE RecordIs(a)'
  <2>1. RecordIs(a) /\ record[a].intent \in PaymentKeys \cup {NoIntent}
    BY <1>0, Sizes DEF EngineIs
  <2>2. record[a].intent # NoIntent => intent'[record[a].intent].state =
          IF record[a].intent = i THEN "requires_payment" ELSE intent[record[a].intent].state
    BY <1>4, <2>1
  <2> QED
    BY <1>1, <1>7, <2>1, <2>2 DEF RecordIs
<1>9. ASSUME NEW j \in Keys PROVE KeyIs(j)'
  <2>1. /\ KeyIs(j) /\ attempts[j] \in 0 .. MaxAttempts /\ MaxAttempts \in Nat
        /\ record[b].attempt \in 0 .. MaxAttempts
        /\ pending[j] # 0 => PaymentKey(pending[j]) \in PaymentKeys
    <3>1. pending[j] \in 0 .. Len(record) /\ Len(record) \in Nat
      BY <1>0, Sizes
    <3>2. pending[j] # 0 => pending[j] \in 1 .. Len(record)
      BY <3>1
    <3> QED
      BY <1>0, <1>2, <3>2, Sizes DEF EngineIs
  <2>2. ASSUME NEW a \in attempts[j] .. MaxAttempts PROVE intent'[<<j, a>>].state = "none"
    <3>1. <<j, a>> \in PaymentKeys /\ intent[<<j, a>>].state = "none"
      BY <2>1 DEF KeyIs, PaymentKeys
    <3>2. <<j, a>> # i
      BY <1>2, <1>3, <2>1
    <3> QED
      BY <1>4, <3>1, <3>2
  <2>3. pending[j] # 0 =>
          intent'[PaymentKey(pending[j])].state \in {"none", "requires_payment"}
    BY <1>4, <2>1 DEF KeyIs
  <2> QED
    BY <1>1, <1>7, <2>1, <2>2, <2>3 DEF KeyIs
<1>10. ASSUME NEW j \in PaymentKeys PROVE IntentIs(j)'
  <2>1. IntentIs(j)
    BY <1>0 DEF EngineIs
  <2>2. CASE j = i
    BY <1>1, <1>2, <1>4, <2>1, <2>2 DEF IntentIs
  <2>3. CASE j # i
    BY <1>1, <1>2, <1>4, <2>1, <2>3 DEF IntentIs
  <2> QED
    BY <2>2, <2>3
<1>11. EngineIs'
  BY <1>1, <1>8, <1>9, <1>10 DEF EngineIs, PaymentKeys
<1>12. WizardIs'
  BY <1>0 DEF WizardIs, MayRotate, NextKey
<1>13. KeyIsPages' /\ BookingIsPages'
  BY <1>0, <1>1, <1>2, <1>5 DEF KeyIsPages, BookingIsPages
<1>14. CreatesForPage' /\ PaysForPage' /\ Asks'
  BY <1>0, <1>1, <1>2, <1>5 DEF CreatesForPage, PaysForPage, Asks
<1> QED
  BY <1>6, <1>11, <1>12, <1>13, <1>14 DEF PageInv

\* It becomes the intent of the page's booking.
LEMMA IntentReadyForPage ==
  ASSUME PageInv, NEW k \in Keys, IntentReady(k), UNCHANGED <<page, job, mounting>>
  PROVE  PageInv'
<1> DEFINE n == Len(record)
           b == pending[k]
           i == PaymentKey(b)
<1>0. /\ PageShapes /\ EngineTypeOK /\ EngineIs /\ WizardIs /\ KeyIsPages /\ BookingIsPages
      /\ CreatesForPage /\ Asks /\ page.booking \in 0 .. n /\ n \in Nat
  BY PageFields, Sizes DEF PageInv, PageShapes
<1>1. b # 0
  BY DEF IntentReady
<1>2. /\ b \in 1 .. n /\ job.stage = "create" /\ job.key = k /\ job.booking = b /\ page.key = k
      /\ byKey[k] = b /\ record[b].key = k /\ record[b].live /\ record[b].intent = NoIntent
      /\ record[b].state = "pending_payment"
      /\ page.booking # b /\ record[b].attempt < attempts[k]
      /\ intent[i].state \in {"none", "requires_payment"}
      /\ \A j \in Keys : j # k => pending[j] = 0
      /\ \A a \in 1 .. n : a # b /\ record[a].live => record[a].key # k
      /\ \A j \in PaymentKeys : bookingOf[j] # b
      /\ \A j \in PaymentKeys :
           intent[j].state \in {"succeeded", "failed"} =>
             /\ bookingOf[j] # 0
             /\ record[bookingOf[j]].state =
                  IF intent[j].state = "succeeded" THEN "confirmed" ELSE "failed"
  BY <1>1, InFlight
<1>3. /\ EngineTypeOK' /\ Len(record') = n /\ i \in PaymentKeys /\ i # NoIntent
      /\ intent[i].state # "none"
      /\ \A a \in 1 .. n :
           /\ SameOf(a) /\ record'[a].state = record[a].state
           /\ record'[a].live = record[a].live
           /\ record'[a].intent = IF a = b THEN i ELSE record[a].intent
      /\ bookingOf' = [bookingOf EXCEPT ![i] = b] /\ pending' = [pending EXCEPT ![k] = 0]
      /\ UNCHANGED <<byKey, attempts, intent, confirming>>
  BY <1>0, ReadyEffect
<1>4. /\ bookingOf \in [PaymentKeys -> 0 .. n] /\ pending \in [Keys -> 0 .. n]
      /\ byKey \in [Keys -> 0 .. n]
      /\ \A a \in 1 .. n : record[a].key \in Keys
      /\ \A a \in 1 .. n : record[a].intent \in PaymentKeys \cup {NoIntent}
  BY <1>0, Sizes
<1>5. i = <<record[b].key, record[b].attempt>>
  BY DEF PaymentKey
<1>6. \A a \in 1 .. n : PaymentKey(a)' = PaymentKey(a)
  BY <1>3 DEF SameOf, PaymentKey
<1>7. \A j \in Keys : pending'[j] = 0
  BY <1>2, <1>3, <1>4
<1> HIDE DEF n, b, i, PaymentKeys, NoIntent
<1>8. Current' = Current
  BY DEF Current, RequestOf
<1>9. PageShapes'
  BY <1>0, <1>3 DEF PageShapes, JobShape, PaymentKeys, PageShape, NoIntent, n
<1>10. ASSUME NEW a \in 1 .. n PROVE RecordIs(a)'
  <2>1. RecordIs(a)
    BY <1>0 DEF EngineIs, n
  <2>2. CASE a = b
    <3>1. bookingOf'[i] = b
      BY <1>3, <1>4
    <3> QED
      BY <1>2, <1>3, <1>6, <2>1, <2>2, <3>1 DEF RecordIs, SameOf, i
  <2>3. CASE a # b
    <3>1. record[a].live => record[a].key # k
      BY <1>2, <2>3
    <3>2. record[a].live => pending'[record[a].key] = pending[record[a].key]
      BY <1>3, <1>4, <3>1
    <3>3. record[a].live /\ record[a].intent # NoIntent => record[a].intent # i
      <4>1. PaymentKey(a) = <<record[a].key, record[a].attempt>>
        BY DEF PaymentKey
      <4>2. record[a].live => PaymentKey(a) # i
        BY <1>2, <1>5, <3>1, <4>1
      <4> QED
        BY <2>1, <4>2 DEF RecordIs
    <3>4. record[a].live /\ record[a].intent # NoIntent =>
            bookingOf'[record[a].intent] = bookingOf[record[a].intent]
      BY <1>3, <1>4, <3>3
    <3> QED
      BY <1>3, <1>6, <2>1, <2>3, <3>2, <3>4 DEF RecordIs, SameOf
  <2> QED
    BY <2>2, <2>3
<1>11. ASSUME NEW j \in Keys PROVE KeyIs(j)'
  <2>1. KeyIs(j) /\ (byKey[j] # 0 => byKey[j] \in 1 .. n)
    BY <1>0, <1>4 DEF EngineIs
  <2> QED
    BY <1>3, <1>7, <2>1 DEF KeyIs, SameOf
<1>12. ASSUME NEW j \in PaymentKeys PROVE IntentIs(j)'
  <2>1. IntentIs(j) /\ (bookingOf[j] # 0 => bookingOf[j] \in 1 .. n)
    BY <1>0, <1>4 DEF EngineIs
  <2>2. CASE j = i
    <3>1. bookingOf'[i] = b
      BY <1>3, <1>4
    <3> QED
      BY <1>2, <1>3, <2>1, <2>2, <3>1 DEF IntentIs
  <2>3. CASE j # i
    <3>1. bookingOf'[j] = bookingOf[j] /\ bookingOf[j] # b
      BY <1>2, <1>3, <1>4, <2>3
    <3> QED
      BY <1>2, <1>3, <2>1, <2>3, <3>1 DEF IntentIs
  <2> QED
    BY <2>2, <2>3
<1>13. EngineIs'
  BY <1>3, <1>10, <1>11, <1>12 DEF EngineIs, PaymentKeys, n
<1>14. WizardIs'
  BY <1>0 DEF WizardIs, MayRotate, NextKey
<1>15. KeyIsPages'
  BY <1>0, <1>2, <1>3, <1>7, <1>8 DEF KeyIsPages, SameOf
<1>16. BookingIsPages'
  <2>1. page.booking # 0 =>
          /\ record'[page.booking].request = record[page.booking].request
          /\ record'[page.booking].state = record[page.booking].state
          /\ record'[page.booking].intent = record[page.booking].intent
    BY <1>0, <1>2, <1>3 DEF SameOf
  <2> QED
    BY <1>0, <1>2, <1>7, <1>8, <2>1 DEF BookingIsPages
<1>17. CreatesForPage'
  BY <1>0, <1>2, <1>3, <1>7, <1>8 DEF CreatesForPage, SameOf, n
<1>18. PaysForPage' /\ Asks'
  BY <1>0, <1>2, <1>3 DEF PaysForPage, Asks
<1> QED
  BY <1>9, <1>13, <1>14, <1>15, <1>16, <1>17, <1>18 DEF PageInv

\* Without an intent the booking fails, and was not the page's before.
LEMMA IntentRefusedForPage ==
  ASSUME PageInv, NEW k \in Keys, IntentRefused(k), UNCHANGED <<page, job, mounting>>
  PROVE  PageInv'
<1> DEFINE n == Len(record)
           b == pending[k]
<1>0. /\ PageShapes /\ EngineTypeOK /\ EngineIs /\ WizardIs /\ KeyIsPages /\ BookingIsPages
      /\ CreatesForPage /\ Asks /\ page.booking \in 0 .. n /\ n \in Nat
  BY PageFields, Sizes DEF PageInv, PageShapes
<1>1. b # 0
  BY DEF IntentRefused
<1>2. /\ b \in 1 .. n /\ job.stage = "create" /\ job.key = k /\ job.booking = b /\ page.key = k
      /\ byKey[k] = b /\ record[b].key = k /\ record[b].live /\ record[b].intent = NoIntent
      /\ record[b].state = "pending_payment"
      /\ page.booking # b /\ record[b].attempt < attempts[k]
      /\ \A j \in Keys : j # k => pending[j] = 0
      /\ \A a \in 1 .. n : a # b /\ record[a].live => record[a].key # k
      /\ \A j \in PaymentKeys : bookingOf[j] # b
      /\ \A j \in PaymentKeys :
           intent[j].state \in {"succeeded", "failed"} =>
             /\ bookingOf[j] # 0
             /\ record[bookingOf[j]].state =
                  IF intent[j].state = "succeeded" THEN "confirmed" ELSE "failed"
  BY <1>1, InFlight
<1>3. /\ Move(b, "failed") /\ pending' = [pending EXCEPT ![k] = 0]
      /\ UNCHANGED <<byKey, attempts, intent, bookingOf, offered, confirming>>
  <2>1. CanMove(b, "failed")
    BY <1>2 DEF CanMove, Transitions
  <2> QED
    BY <2>1 DEF IntentRefused
<1>4. /\ bookingOf \in [PaymentKeys -> 0 .. n] /\ pending \in [Keys -> 0 .. n]
      /\ byKey \in [Keys -> 0 .. n] /\ confirming \in [Callers -> Call]
      /\ \A a \in 1 .. n : record[a].key \in Keys
  BY <1>0, Sizes
<1>5. /\ EngineTypeOK' /\ Len(record') = n
      /\ \A a \in 1 .. n :
           /\ SameOf(a) /\ record'[a].intent = record[a].intent
           /\ record'[a].live = record[a].live
           /\ record'[a].state = IF a = b THEN "failed" ELSE record[a].state
  <2>1. pending' \in [Keys -> 0 .. n] /\ "failed" \in BookingState
    BY <1>0, <1>3, <1>4 DEF BookingState
  <2> QED
    BY <1>0, <1>2, <1>3, <1>4, <2>1, MoveEffect
<1>6. \A a \in 1 .. n : PaymentKey(a)' = PaymentKey(a)
  BY <1>5 DEF SameOf, PaymentKey
<1>7. \A j \in Keys : pending'[j] = 0
  BY <1>2, <1>3, <1>4
<1> HIDE DEF n, b, PaymentKeys, NoIntent
<1>8. Current' = Current
  BY DEF Current, RequestOf
<1>9. PageShapes'
  BY <1>0, <1>5 DEF PageShapes, JobShape, PaymentKeys, PageShape, NoIntent, n
<1>10. ASSUME NEW a \in 1 .. n PROVE RecordIs(a)'
  <2>1. RecordIs(a)
    BY <1>0 DEF EngineIs, n
  <2>2. CASE a = b
    BY <1>2, <1>3, <1>5, <1>6, <2>1, <2>2 DEF RecordIs, SameOf
  <2>3. CASE a # b
    <3>1. record[a].live => record[a].key # k
      BY <1>2, <2>3
    <3>2. record[a].live => pending'[record[a].key] = pending[record[a].key]
      BY <1>3, <1>4, <3>1
    <3> QED
      BY <1>3, <1>5, <1>6, <2>1, <2>3, <3>2 DEF RecordIs, SameOf
  <2> QED
    BY <2>2, <2>3
<1>11. ASSUME NEW j \in Keys PROVE KeyIs(j)'
  <2>1. KeyIs(j) /\ (byKey[j] # 0 => byKey[j] \in 1 .. n)
    BY <1>0, <1>4 DEF EngineIs
  <2> QED
    BY <1>3, <1>5, <1>7, <2>1 DEF KeyIs, SameOf
<1>12. ASSUME NEW j \in PaymentKeys PROVE IntentIs(j)'
  <2>1. IntentIs(j) /\ bookingOf[j] # b /\ (bookingOf[j] # 0 => bookingOf[j] \in 1 .. n)
    BY <1>0, <1>2, <1>4 DEF EngineIs
  <2> QED
    BY <1>2, <1>3, <1>5, <2>1 DEF IntentIs
<1>13. EngineIs'
  BY <1>5, <1>10, <1>11, <1>12 DEF EngineIs, PaymentKeys, n
<1>14. WizardIs'
  BY <1>0 DEF WizardIs, MayRotate, NextKey
<1>15. KeyIsPages'
  BY <1>0, <1>2, <1>3, <1>5, <1>7, <1>8 DEF KeyIsPages, SameOf
<1>16. BookingIsPages'
  <2>1. page.booking # 0 =>
          /\ record'[page.booking].request = record[page.booking].request
          /\ record'[page.booking].state = record[page.booking].state
          /\ record'[page.booking].intent = record[page.booking].intent
    BY <1>0, <1>2, <1>5 DEF SameOf
  <2> QED
    BY <1>0, <1>2, <1>7, <1>8, <2>1 DEF BookingIsPages
<1>17. CreatesForPage'
  BY <1>0, <1>2, <1>5, <1>7, <1>8 DEF CreatesForPage, SameOf, n
<1>18. PaysForPage' /\ Asks'
  BY <1>0, <1>2, <1>3 DEF PaysForPage, Asks
<1> QED
  BY <1>9, <1>13, <1>14, <1>15, <1>16, <1>17, <1>18 DEF PageInv

-----------------------------------------------------------------------------
\* A reload empties the engine and the provider; what the page kept is a copy.
LEMMA ReloadKeeps ==
  ASSUME PageInv, Reload
  PROVE  PageInv'
<1> DEFINE n == Len(record)
           lost(b) == [record[b] EXCEPT !.live = FALSE]
           status == IF page.status = "succeeded" THEN page.status ELSE "idle"
           waits == page.step = "slot"
<1>0. /\ PageShapes /\ EngineTypeOK /\ EngineIs /\ WizardIs /\ KeyIsPages /\ BookingIsPages
      /\ page \in PageShape /\ n \in Nat /\ DOMAIN record = 1 .. n
      /\ page.booking \in 0 .. n /\ page.intent \in PaymentKeys \cup {NoIntent}
      /\ page.key \in Keys /\ page.status \in {"idle", "working", "failed", "succeeded"}
      /\ page.slot \in Slots \cup {None} /\ MaxAttempts \in Nat
  BY Sizes, PageFields DEF PageInv, PageShapes
<1>1. /\ record' = [b \in 1 .. n |-> lost(b)]
      /\ byKey' = [k \in Keys |-> 0] /\ pending' = [k \in Keys |-> 0]
      /\ attempts' = [k \in Keys |-> 0]
      /\ intent' = [i \in PaymentKeys |-> [state |-> "none", refunded |-> 0]]
      /\ bookingOf' = [i \in PaymentKeys |-> 0]
      /\ confirming' = [c \in Callers |-> NoCall]
      /\ page' = [page EXCEPT !.slotPending = waits, !.status = status]
      /\ job' = NoJob /\ mounting' = (page.step = "payment") /\ UNCHANGED offered
  BY <1>0 DEF Reload
<1>2. ASSUME NEW b \in 1 .. n
      PROVE  /\ lost(b) \in Recorded /\ lost(b).key = record[b].key
             /\ lost(b).attempt = record[b].attempt /\ lost(b).request = record[b].request
             /\ lost(b).state = record[b].state /\ lost(b).intent = record[b].intent
             /\ lost(b).live = FALSE
  BY <1>0, RecordTyped DEF Recorded
<1> HIDE DEF lost
<1>3. /\ record' \in Seq(Recorded) /\ Len(record') = n
      /\ \A b \in 1 .. n : /\ record'[b].request = record[b].request
                           /\ record'[b].state = record[b].state
                           /\ record'[b].intent = record[b].intent
                           /\ record'[b].live = FALSE /\ PaymentKey(b)' = PaymentKey(b)
  <2>1. record' \in [1 .. n -> Recorded]
    BY <1>1, <1>2
  <2>2. record' \in Seq(Recorded) /\ Len(record') = n
    BY <1>0, <2>1, LenProperties, SeqDef
  <2> QED
    BY <1>1, <1>2, <2>2 DEF PaymentKey
<1> HIDE DEF n
<1>4. EngineTypeOK'
  <2>1. [state |-> "none", refunded |-> 0] \in [state : IntentState, refunded : 0 .. Price]
    BY EngineAssumption DEF IntentState
  <2>2. intent' \in [PaymentKeys -> [state : IntentState, refunded : 0 .. Price]]
    BY <1>1, <2>1
  <2>3. confirming' \in [Callers -> Call]
    BY <1>1 DEF Call
  <2>4. /\ byKey' \in [Keys -> 0 .. n] /\ pending' \in [Keys -> 0 .. n]
        /\ attempts' \in [Keys -> 0 .. MaxAttempts] /\ bookingOf' \in [PaymentKeys -> 0 .. n]
    BY <1>0, <1>1
  <2>5. n <= MaxRecords
    BY <1>0 DEF EngineTypeOK, n
  <2> QED
    BY <1>0, <1>1, <1>3, <2>2, <2>3, <2>4, <2>5
    DEF EngineTypeOK, IntentState, PaymentKeys, Call, Recorded
<1>5. /\ page' \in PageShape /\ page'.step = page.step /\ page'.status = status
      /\ page'.key = page.key /\ page'.booking = page.booking /\ page'.intent = page.intent
      /\ page'.selection = page.selection /\ page'.slot = page.slot
      /\ page'.customer = page.customer
  <2>1. waits \in BOOLEAN /\ status \in {"idle", "working", "failed", "succeeded"}
    BY <1>0
  <2> HIDE DEF waits, status
  <2> QED
    BY <1>0, <1>1, <2>1 DEF PageShape
<1>6. Current' = Current
  BY <1>5 DEF Current, RequestOf
<1>7. job'.stage = "none" /\ job' = NoJob
  BY <1>1 DEF NoJob
<1> HIDE DEF PaymentKeys, NoIntent
<1>8. PageShapes'
  BY <1>0, <1>3, <1>4, <1>5, <1>7 DEF PageShapes, JobShape, PaymentKeys, PageShape, NoIntent, n
<1>9. ASSUME NEW b \in 1 .. n PROVE RecordIs(b)'
  <2>1. record[b].intent \in {NoIntent, PaymentKey(b)}
    BY <1>0 DEF EngineIs, RecordIs, n
  <2> QED
    BY <1>3, <2>1 DEF RecordIs
<1>10. ASSUME NEW k \in Keys PROVE KeyIs(k)'
  <2>1. ASSUME NEW a \in attempts'[k] .. MaxAttempts PROVE intent'[<<k, a>>].state = "none"
    <3>1. a \in 0 .. MaxAttempts
      BY <1>1, <2>1
    <3>2. <<k, a>> \in PaymentKeys
      BY <3>1 DEF PaymentKeys
    <3> QED
      BY <1>1, <3>2
  <2>2. byKey'[k] = 0 /\ pending'[k] = 0
    BY <1>1
  <2> QED
    BY <2>1, <2>2 DEF KeyIs
<1>11. ASSUME NEW i \in PaymentKeys PROVE IntentIs(i)'
  BY <1>1 DEF IntentIs
<1>12. EngineIs'
  BY <1>3, <1>9, <1>10, <1>11 DEF EngineIs, PaymentKeys
<1>13. WizardIs'
  BY <1>0, <1>5, <1>7 DEF WizardIs, MayRotate, NextKey
<1>14. KeyIsPages'
  BY <1>0, <1>1, <1>5 DEF KeyIsPages
<1>15. BookingIsPages'
  <2>1. page.booking # 0 => page.booking \in 1 .. n
    BY <1>0
  <2>2. \A k \in Keys : pending'[k] = 0
    BY <1>1
  <2>3. page.intent # NoIntent => intent'[page.intent].state = "none"
    BY <1>0, <1>1
  <2> QED
    BY <1>0, <1>3, <1>5, <1>6, <2>1, <2>2, <2>3 DEF BookingIsPages
<1>16. CreatesForPage' /\ PaysForPage' /\ Asks'
  BY <1>1, <1>7, PageAssumption DEF CreatesForPage, PaysForPage, Asks
<1> QED
  BY <1>8, <1>12, <1>13, <1>14, <1>15, <1>16 DEF PageInv

-----------------------------------------------------------------------------
\* Every step of the page keeps the invariant.
LEMMA PageKeeps == PageInv /\ [PageNext]_vars => PageInv'
<1> SUFFICES ASSUME PageInv, [PageNext]_vars PROVE PageInv'
  OBVIOUS
<1>1. CASE UNCHANGED vars
  BY <1>1, IdleKeeps DEF vars, engine
<1>2. CASE \E sv \in Services : ChooseService(sv)
  BY <1>2, RequestsKeep
<1>3. CASE \E sel \in Selections : Configure(sel)
  BY <1>3, RequestsKeep
<1>4. CASE Continue \/ Back \/ BackFromPayment
  BY <1>4, StepsKeep
<1>5. CASE SlotsArrive
  BY <1>5, RequestsKeep
<1>6. CASE StartOver
  BY <1>6, StartOverKeeps
<1>7. CASE Reload
  BY <1>7, ReloadKeeps
<1>8. CASE \E c \in Customers : ContinueAsCustomer(c)
  BY <1>8, CustomerKeeps
<1>9. CASE \E s \in Slots \cup {None} : PickSlot(s)
  BY <1>9, RequestsKeep
<1>10. CASE Mounted
  BY <1>10, MountedKeeps
<1>11. CASE RetrySetup
  BY <1>11, SetupKeeps DEF RetrySetup
<1>12. CASE BookingCreated
  BY <1>12, BookingCreatedKeeps
<1>13. CASE Charge
  BY <1>13, ChargeKeeps
<1>14. CASE AskEngine
  BY <1>14, AskEngineKeeps
<1>15. CASE Answered
  BY <1>15, AnsweredKeeps
<1>16. CASE \E outcome \in {"succeeded", "failed"} : Pay(outcome)
  BY <1>16, PayKeeps
<1>17. CASE EngineGoesOn
  BY <1>17, ProviderCreatesForPage, IntentReadyForPage, IntentRefusedForPage DEF EngineGoesOn
<1>18. CASE ClockMoves
  BY <1>18, IdleKeeps DEF ClockMoves, SlotCloses
<1> QED
  BY <1>1, <1>2, <1>3, <1>4, <1>5, <1>6, <1>7, <1>8, <1>9, <1>10, <1>11, <1>12, <1>13, <1>14,
     <1>15, <1>16, <1>17, <1>18 DEF PageNext

\* The invariant is what the page shows and says.
LEMMA PageInvIsTrue == PageInv => PageIsTrue
<1> SUFFICES ASSUME PageInv PROVE PageIsTrue
  OBVIOUS
<1>0. /\ PageShapes /\ EngineIs /\ WizardIs /\ KeyIsPages /\ BookingIsPages
      /\ page.key \in Keys /\ page.step \in {"service", "configure", "summary", "slot",
                                            "customer", "payment", "confirmation"}
  BY PageFields DEF PageInv
<1>1. BookingIsForRequest
  BY <1>0 DEF BookingIsPages, BookingIsForRequest
<1>2. IntentIsOfBooking
  BY <1>0 DEF BookingIsPages, IntentIsOfBooking
<1>3. page.status = "succeeded" => record[page.booking].state = "confirmed"
  BY <1>0 DEF WizardIs, BookingIsPages
<1>4. ASSUME page.status = "failed", job = NoJob,
             NEW i \in PaymentKeys, i[1] = page.key, Captured(i)
      PROVE  FALSE
  <2> DEFINE b == bookingOf[i]
  <2>1. intent[i].state = "succeeded"
    BY <1>0, <1>4 DEF EngineIs, IntentIs, Captured
  <2>2. b # 0 /\ record[b].state = "confirmed"
    BY <1>4, <2>1, WithoutJob
  <2>3. b \in 1 .. Len(record)
    BY <1>0, <2>2, Sizes
  <2>4. IntentIs(i) /\ RecordIs(b) /\ i # NoIntent
    BY <1>0, <2>3, IntentsArePairs DEF EngineIs
  <2>5. record[b].intent = i /\ record[b].live
    <3>1. record[b].live \in BOOLEAN
      BY <1>0, <2>3, Sizes
    <3> QED
      BY <2>2, <2>4, <3>1 DEF IntentIs
  <2>6. i = <<record[b].key, record[b].attempt>>
    BY <2>4, <2>5 DEF RecordIs, PaymentKey
  <2>7. record[b].key = page.key
    BY <1>4, <2>6
  <2>8. byKey[page.key] = b
    BY <2>4, <2>5, <2>7 DEF RecordIs
  <2>9. page.step # "confirmation"
    BY <1>0, <1>4 DEF WizardIs
  <2> QED
    BY <1>0, <2>2, <2>8, <2>9 DEF KeyIsPages
<1>5. PageTellsTruth
  BY <1>3, <1>4 DEF PageTellsTruth
<1> QED
  BY <1>1, <1>2, <1>5 DEF PageIsTrue

\* What a checkout page shows and says is true: its booking is for the request
\* on the page, its intent is the booking's own, success stands for a confirmed
\* booking, and a failure for a key under which nothing was captured; however
\* often the customer goes back, pays again or reloads.
THEOREM PageHolds == PageSpec => []PageIsTrue
<1>1. PageInit => PageInv
  BY PageStarts
<1>2. PageInv /\ [PageNext]_vars => PageInv'
  BY PageKeeps
<1>3. PageInv => PageIsTrue
  BY PageInvIsTrue
<1> QED
  BY <1>1, <1>2, <1>3, PTL DEF PageSpec
=============================================================================
