--------------------------- MODULE UiBatcherProofs ---------------------------
(***************************************************************************)
(* What flush() and push() do to the UI's stream and to the coalescing     *)
(* index, for every set of events and keys and every size of the batch.    *)
(* EventBusProofs builds on these facts: only the bus calls the batcher.   *)
(***************************************************************************)
EXTENDS UiBatcher, TLAPS

\* A stream without empty entries.
Whole(entries) ==
  /\ entries \in Seq(Entries)
  /\ \A i \in DOMAIN entries : entries[i] # <<>>

\* The types, and no entry is empty: a coalesced entry keeps its first event.
BatcherInv ==
  /\ slotOf \in [Keys -> Nat]
  /\ timerSet \in BOOLEAN
  /\ Whole(openBatch) /\ Whole(shown)

\* An entry of one event.
LEMMA EntryOfOne ==
  ASSUME NEW e \in Events
  PROVE  /\ <<e>> \in Entries /\ <<e>> # <<>> /\ Head(<<e>>) = e
         /\ Range(<<e>>) = {e}
BY DEF Entries, Range

\* What is in an entry after an event was added at its end.
LEMMA EntryAppended ==
  ASSUME NEW entry \in Entries, NEW e \in Events
  PROVE  /\ Append(entry, e) \in Entries /\ Append(entry, e) # <<>>
         /\ Range(Append(entry, e)) = Range(entry) \cup {e}
         /\ entry # <<>> => Head(Append(entry, e)) = Head(entry)
<1>1. /\ entry \in Seq(Events) /\ Len(entry) \in Nat
      /\ DOMAIN entry = 1..Len(entry)
      /\ Append(entry, e) \in Seq(Events)
      /\ Len(Append(entry, e)) = Len(entry) + 1
      /\ DOMAIN Append(entry, e) = 1..(Len(entry) + 1)
      /\ \A i \in 1..Len(entry) : Append(entry, e)[i] = entry[i]
      /\ Append(entry, e)[Len(entry) + 1] = e
  BY DEF Entries
<1>2. Range(Append(entry, e)) \subseteq Range(entry) \cup {e}
  <2> SUFFICES ASSUME NEW i \in 1..(Len(entry) + 1)
               PROVE  \/ Append(entry, e)[i] = e
                      \/ \E j \in 1..Len(entry) : Append(entry, e)[i] = entry[j]
    BY <1>1 DEF Range
  <2>1. i \in 1..Len(entry) \/ i = Len(entry) + 1
    BY <1>1
  <2> QED
    BY <1>1, <2>1
<1>3. Range(entry) \subseteq Range(Append(entry, e))
  <2> SUFFICES ASSUME NEW i \in 1..Len(entry)
               PROVE  \E j \in 1..(Len(entry) + 1) : Append(entry, e)[j] = entry[i]
    BY <1>1 DEF Range
  <2>1. i \in 1..(Len(entry) + 1)
    BY <1>1
  <2> QED
    BY <1>1, <2>1
<1>4. e \in Range(Append(entry, e))
  <2>1. Len(entry) + 1 \in DOMAIN Append(entry, e)
    BY <1>1
  <2> QED
    BY <1>1, <2>1 DEF Range
<1>5. entry # <<>> => Head(Append(entry, e)) = Head(entry)
  BY <1>1
<1>6. Append(entry, e) # <<>>
  BY <1>4 DEF Range
<1> QED
  BY <1>1, <1>2, <1>3, <1>4, <1>5, <1>6 DEF Entries

LEMMA WholeAppended ==
  ASSUME NEW entries, Whole(entries), NEW e \in Events
  PROVE  Whole(Append(entries, <<e>>))
<1>1. <<e>> \in Entries /\ <<e>> # <<>>
  BY EntryOfOne
<1>2. /\ entries \in Seq(Entries) /\ Len(entries) \in Nat
      /\ DOMAIN entries = 1..Len(entries)
      /\ Append(entries, <<e>>) \in Seq(Entries)
      /\ DOMAIN Append(entries, <<e>>) = 1..(Len(entries) + 1)
      /\ \A i \in 1..Len(entries) : Append(entries, <<e>>)[i] = entries[i]
      /\ Append(entries, <<e>>)[Len(entries) + 1] = <<e>>
  BY <1>1 DEF Whole
<1>3. ASSUME NEW i \in 1..(Len(entries) + 1)
      PROVE  Append(entries, <<e>>)[i] # <<>>
  <2>1. CASE i \in 1..Len(entries)
    BY <1>2, <2>1 DEF Whole
  <2>2. CASE i = Len(entries) + 1
    BY <1>1, <1>2, <2>2
  <2> QED
    BY <1>2, <2>1, <2>2
<1> QED
  BY <1>2, <1>3 DEF Whole

LEMMA WholeConcat ==
  ASSUME NEW first, NEW second, Whole(first), Whole(second)
  PROVE  Whole(first \o second)
<1>1. /\ first \in Seq(Entries) /\ second \in Seq(Entries)
      /\ first \o second \in Seq(Entries)
      /\ Len(first) \in Nat /\ Len(second) \in Nat
      /\ DOMAIN second = 1..Len(second) /\ DOMAIN first = 1..Len(first)
      /\ DOMAIN (first \o second) = 1..(Len(first) + Len(second))
  BY DEF Whole
<1>2. ASSUME NEW i \in 1..(Len(first) + Len(second))
      PROVE  (first \o second)[i] # <<>>
  <2>1. CASE i \in 1..Len(first)
    BY <1>1, <2>1 DEF Whole
  <2>2. CASE i \in (Len(first) + 1)..(Len(first) + Len(second))
    <3>1. i - Len(first) \in DOMAIN second
      BY <1>1, <2>2
    <3>2. (first \o second)[i] = second[i - Len(first)]
      BY <1>1, <2>2
    <3> QED
      BY <3>1, <3>2 DEF Whole
  <2> QED
    BY <1>1, <2>1, <2>2
<1> QED
  BY <1>1, <1>2 DEF Whole
-----------------------------------------------------------------------------
(* The stream and the index *)

\* What is emitted is added to what was shown, and the index is empty.
LEMMA EmitKeeps ==
  ASSUME BatcherInv, NEW entries, Whole(entries), Emit(entries)
  PROVE  /\ BatcherInv' /\ CoalesceIndexSound'
         /\ UiStream' = shown \o entries
<1>1. /\ shown' = shown \o entries /\ openBatch' = <<>>
      /\ slotOf' = [k \in Keys |-> 0] /\ timerSet' = FALSE
  BY DEF Emit
<1>2. Whole(shown') /\ Whole(openBatch')
  <2>1. Whole(shown \o entries)
    BY WholeConcat DEF BatcherInv
  <2>2. Whole(<<>>)
    BY DEF Whole
  <2> QED
    BY <1>1, <2>1, <2>2
<1>3. slotOf' \in [Keys -> Nat]
  BY <1>1
<1>4. BatcherInv'
  BY <1>1, <1>2, <1>3 DEF BatcherInv, Whole
<1>5. CoalesceIndexSound'
  BY <1>1 DEF CoalesceIndexSound
<1>6. UiStream' = shown \o entries
  <2>1. shown \o entries \in Seq(Entries)
    BY DEF BatcherInv, Whole
  <2> QED
    BY <1>1, <2>1 DEF UiStream
<1> QED
  BY <1>4, <1>5, <1>6

\* A flush shows what waited: the stream stays what it was.
LEMMA FlushKeeps ==
  ASSUME BatcherInv, Flush
  PROVE  /\ BatcherInv'
         /\ UiStream' = UiStream
         /\ CoalesceIndexSound => CoalesceIndexSound'
<1>1. CASE openBatch = <<>>
  <2>1. UNCHANGED <<openBatch, slotOf, shown>> /\ timerSet' = FALSE
    BY <1>1 DEF Flush
  <2>2. BatcherInv'
    BY <2>1 DEF BatcherInv, Whole
  <2>3. UiStream' = UiStream
    BY <2>1 DEF UiStream
  <2>4. CoalesceIndexSound => CoalesceIndexSound'
    BY <2>1 DEF CoalesceIndexSound
  <2> QED
    BY <2>2, <2>3, <2>4
<1>2. CASE openBatch # <<>>
  <2>1. Emit(openBatch) /\ Whole(openBatch)
    BY <1>2 DEF Flush, BatcherInv
  <2>2. /\ BatcherInv' /\ CoalesceIndexSound'
        /\ UiStream' = shown \o openBatch
    BY <2>1, EmitKeeps
  <2> QED
    BY <2>2 DEF UiStream
<1> QED
  BY <1>1, <1>2

\* What push(e) may do to the stream: a new entry at its end starts with e, an
\* entry that was there keeps its first event unless it holds coalesced ones,
\* and e is the only event that was not in the stream before.
StreamTakes(e) ==
  /\ UiStream' \in Seq(Entries)
  /\ Len(UiStream) <= Len(UiStream')
  /\ \A i \in DOMAIN UiStream' : \A x \in Range(UiStream'[i]) :
       x = e \/ \E j \in DOMAIN UiStream : x \in Range(UiStream[j])
  /\ \A i \in DOMAIN UiStream' :
       IF i \in DOMAIN UiStream
         THEN \/ Head(UiStream'[i]) = Head(UiStream[i])
              \/ KeyOf[Head(UiStream'[i])] # NoKey
         ELSE Head(UiStream'[i]) = e

LEMMA StreamAppended ==
  ASSUME NEW e \in Events, UiStream \in Seq(Entries),
         UiStream' = Append(UiStream, <<e>>)
  PROVE  StreamTakes(e)
<1>1. <<e>> \in Entries /\ Head(<<e>>) = e /\ Range(<<e>>) = {e}
  BY EntryOfOne
<1>2. /\ Len(UiStream) \in Nat /\ DOMAIN UiStream = 1..Len(UiStream)
      /\ UiStream' \in Seq(Entries) /\ Len(UiStream') = Len(UiStream) + 1
      /\ DOMAIN UiStream' = 1..(Len(UiStream) + 1)
      /\ \A i \in 1..Len(UiStream) : UiStream'[i] = UiStream[i]
      /\ UiStream'[Len(UiStream) + 1] = <<e>>
  BY <1>1
<1>3. ASSUME NEW i \in DOMAIN UiStream'
      PROVE  \/ i \in DOMAIN UiStream /\ UiStream'[i] = UiStream[i]
             \/ i \notin DOMAIN UiStream /\ UiStream'[i] = <<e>>
  BY <1>2
<1>4. \A i \in DOMAIN UiStream' : \A x \in Range(UiStream'[i]) :
        x = e \/ \E j \in DOMAIN UiStream : x \in Range(UiStream[j])
  BY <1>1, <1>3
<1>5. \A i \in DOMAIN UiStream' :
        IF i \in DOMAIN UiStream
          THEN \/ Head(UiStream'[i]) = Head(UiStream[i])
               \/ KeyOf[Head(UiStream'[i])] # NoKey
          ELSE Head(UiStream'[i]) = e
  BY <1>1, <1>3
<1> QED
  BY <1>2, <1>4, <1>5 DEF StreamTakes

-----------------------------------------------------------------------------
(* push() *)

LEMMA StreamIsWhole ==
  ASSUME BatcherInv
  PROVE  /\ Whole(UiStream) /\ Whole(openBatch) /\ Whole(shown)
         /\ UiStream \in Seq(Entries)
BY WholeConcat DEF BatcherInv, UiStream, Whole

\* The open batch, one entry longer, is emitted.
LEMMA EmitWithKeeps ==
  ASSUME BatcherInv, NEW e \in Events, Emit(Append(openBatch, <<e>>))
  PROVE  BatcherInv' /\ CoalesceIndexSound' /\ StreamTakes(e)
<1>1. Whole(Append(openBatch, <<e>>))
  BY WholeAppended DEF BatcherInv
<1>2. /\ BatcherInv' /\ CoalesceIndexSound'
      /\ UiStream' = shown \o Append(openBatch, <<e>>)
  BY <1>1, EmitKeeps
<1>3. UiStream' = Append(UiStream, <<e>>)
  <2>1. shown \in Seq(Entries) /\ openBatch \in Seq(Entries) /\ <<e>> \in Entries
    BY EntryOfOne DEF BatcherInv, Whole
  <2> QED
    BY <1>2, <2>1 DEF UiStream
<1> QED
  BY <1>2, <1>3, StreamIsWhole, StreamAppended

LEMMA PushImmediateKeeps ==
  ASSUME BatcherInv, CoalesceIndexSound, NEW e \in Events, PushImmediate(e)
  PROVE  BatcherInv' /\ CoalesceIndexSound' /\ StreamTakes(e)
<1>1. CASE openBatch = <<>>
  <2>1. shown' = Append(shown, <<e>>) /\ UNCHANGED <<openBatch, slotOf, timerSet>>
    BY <1>1 DEF PushImmediate
  <2>2. Whole(Append(shown, <<e>>)) /\ shown \in Seq(Entries) /\ <<e>> \in Entries
    BY WholeAppended, EntryOfOne DEF BatcherInv, Whole
  <2>3. BatcherInv'
    BY <2>1, <2>2 DEF BatcherInv, Whole
  <2>4. CoalesceIndexSound'
    BY <2>1 DEF CoalesceIndexSound
  <2>5. UiStream = shown /\ UiStream' = Append(shown, <<e>>)
    BY <1>1, <2>1, <2>2 DEF UiStream
  <2> QED
    BY <2>3, <2>4, <2>5, StreamIsWhole, StreamAppended
<1>2. CASE openBatch # <<>>
  BY <1>2, EmitWithKeeps DEF PushImmediate
<1> QED
  BY <1>1, <1>2

\* An event whose key has no entry gets one, and the index names it.
LEMMA AddEntryKeeps ==
  ASSUME BatcherAssumption, BatcherInv, CoalesceIndexSound, NEW e \in Events,
         ~Coalesces(e), AddEntry(e)
  PROVE  BatcherInv' /\ CoalesceIndexSound' /\ StreamTakes(e)
<1> DEFINE batch == Append(openBatch, <<e>>)
<1>1. CASE Len(batch) >= MaxBatch
  BY <1>1, EmitWithKeeps DEF AddEntry
<1>2. CASE ~(Len(batch) >= MaxBatch)
  <2>1. /\ openBatch' = batch /\ timerSet' = TRUE /\ shown' = shown
        /\ slotOf' = [k \in Keys |-> IF k = KeyOf[e] THEN Len(batch) ELSE slotOf[k]]
    BY <1>2 DEF AddEntry
  <2>2. /\ Whole(batch) /\ openBatch \in Seq(Entries) /\ <<e>> \in Entries
        /\ shown \in Seq(Entries) /\ Range(<<e>>) = {e}
    BY WholeAppended, EntryOfOne DEF BatcherInv, Whole
  <2>3. /\ Len(openBatch) \in Nat /\ DOMAIN openBatch = 1..Len(openBatch)
        /\ Len(batch) = Len(openBatch) + 1
        /\ DOMAIN batch = 1..(Len(openBatch) + 1)
        /\ \A i \in 1..Len(openBatch) : batch[i] = openBatch[i]
        /\ batch[Len(openBatch) + 1] = <<e>>
    BY <2>2
  <2>4. slotOf \in [Keys -> Nat] /\ slotOf' \in [Keys -> Nat]
    BY <2>1, <2>3 DEF BatcherInv
  <2>5. BatcherInv'
    BY <2>1, <2>2, <2>4 DEF BatcherInv, Whole
  <2>6. StreamTakes(e)
    <3>1. UiStream' = Append(UiStream, <<e>>)
      BY <2>1, <2>2 DEF UiStream
    <3> QED
      BY <3>1, StreamIsWhole, StreamAppended
  <2>7. CoalesceIndexSound'
    <3> SUFFICES ASSUME NEW k \in Keys
                 PROVE  IF slotOf'[k] = 0
                          THEN \A i \in DOMAIN batch : \A x \in Range(batch[i]) : KeyOf[x] # k
                          ELSE /\ slotOf'[k] \in DOMAIN batch
                               /\ \A i \in DOMAIN batch : \A x \in Range(batch[i]) :
                                    KeyOf[x] = k <=> i = slotOf'[k]
      BY <2>1 DEF CoalesceIndexSound
    <3>1. CASE k = KeyOf[e]
      <4>1. slotOf'[k] = Len(openBatch) + 1
        BY <2>1, <2>3, <3>1
      <4>2. slotOf[k] = 0
        <5>1. KeyOf[e] # NoKey /\ slotOf[k] \notin DOMAIN openBatch
          BY <3>1 DEF BatcherAssumption, Coalesces
        <5> QED
          BY <5>1 DEF CoalesceIndexSound
      <4>3. \A i \in DOMAIN openBatch : \A x \in Range(openBatch[i]) : KeyOf[x] # k
        BY <4>2 DEF CoalesceIndexSound
      <4>4. ASSUME NEW i \in DOMAIN batch, NEW x \in Range(batch[i])
            PROVE  KeyOf[x] = k <=> i = slotOf'[k]
        <5>1. CASE i \in DOMAIN openBatch
          BY <2>3, <4>1, <4>3, <5>1
        <5>2. CASE i = Len(openBatch) + 1
          BY <2>2, <2>3, <3>1, <4>1, <5>2
        <5> QED
          BY <2>3, <5>1, <5>2
      <4> QED
        BY <2>3, <4>1, <4>4
    <3>2. CASE k # KeyOf[e]
      <4>1. slotOf'[k] = slotOf[k]
        BY <2>1, <3>2
      <4>2. ASSUME NEW i \in DOMAIN batch, NEW x \in Range(batch[i])
            PROVE  \/ i \in DOMAIN openBatch /\ x \in Range(openBatch[i])
                   \/ i \notin DOMAIN openBatch /\ KeyOf[x] # k
        <5>1. i \in DOMAIN openBatch \/ i = Len(openBatch) + 1
          BY <2>3
        <5> QED
          BY <2>2, <2>3, <3>2, <5>1
      <4>3. DOMAIN openBatch \subseteq DOMAIN batch
        BY <2>3
      <4>4. CASE slotOf[k] = 0
        BY <4>1, <4>2, <4>4 DEF CoalesceIndexSound
      <4>5. CASE slotOf[k] # 0
        BY <4>1, <4>2, <4>3, <4>5 DEF CoalesceIndexSound
      <4> QED
        BY <4>4, <4>5
    <3> QED
      BY <3>1, <3>2
  <2> QED
    BY <2>5, <2>6, <2>7
<1> QED
  BY <1>1, <1>2

\* An event whose key has an entry joins or replaces what that entry holds.
LEMMA CoalesceKeeps ==
  ASSUME BatcherAssumption, BatcherInv, CoalesceIndexSound, NEW e \in Events,
         Coalesces(e), Coalesce(e)
  PROVE  BatcherInv' /\ CoalesceIndexSound' /\ StreamTakes(e)
<1> DEFINE at == slotOf[KeyOf[e]]
           new == IF e \in Progress THEN <<e>> ELSE Append(openBatch[at], e)
<1>1. /\ KeyOf[e] # NoKey /\ KeyOf[e] \in Keys
      /\ at \in DOMAIN openBatch /\ at \in Nat /\ at # 0
      /\ openBatch \in Seq(Entries) /\ shown \in Seq(Entries)
      /\ DOMAIN openBatch = 1..Len(openBatch) /\ Len(openBatch) \in Nat
  BY DEF Coalesces, BatcherAssumption, BatcherInv, Whole
<1>2. /\ openBatch' = [openBatch EXCEPT ![at] = new]
      /\ UNCHANGED <<slotOf, timerSet, shown>>
  BY DEF Coalesce
<1>3. openBatch[at] \in Entries /\ openBatch[at] # <<>>
  BY <1>1 DEF BatcherInv, Whole
<1>4. /\ new \in Entries /\ new # <<>>
      /\ \A x \in Range(new) : x = e \/ x \in Range(openBatch[at])
      /\ e \in Range(new)
      /\ Head(new) = Head(openBatch[at]) \/ Head(new) = e
  <2>1. CASE e \in Progress
    BY <2>1, EntryOfOne
  <2>2. CASE e \notin Progress
    BY <1>3, <2>2, EntryAppended
  <2> QED
    BY <2>1, <2>2
<1> HIDE DEF new
<1>5. /\ openBatch' \in Seq(Entries) /\ Len(openBatch') = Len(openBatch)
      /\ DOMAIN openBatch' = DOMAIN openBatch
      /\ openBatch'[at] = new
      /\ \A i \in DOMAIN openBatch : i # at => openBatch'[i] = openBatch[i]
  BY <1>1, <1>2, <1>4
<1>6. BatcherInv'
  <2>1. \A i \in DOMAIN openBatch' : openBatch'[i] # <<>>
    BY <1>4, <1>5 DEF BatcherInv, Whole
  <2> QED
    BY <1>2, <1>5, <2>1 DEF BatcherInv, Whole
<1>7. CoalesceIndexSound'
  <2>1. \A x \in Range(openBatch[at]) : KeyOf[x] = KeyOf[e]
    BY <1>1 DEF CoalesceIndexSound
  <2>2. \A x \in Range(new) : KeyOf[x] = KeyOf[e]
    BY <1>4, <2>1
  <2> SUFFICES ASSUME NEW k \in Keys
               PROVE  IF slotOf[k] = 0
                        THEN \A i \in DOMAIN openBatch : \A x \in Range(openBatch'[i]) : KeyOf[x] # k
                        ELSE /\ slotOf[k] \in DOMAIN openBatch
                             /\ \A i \in DOMAIN openBatch : \A x \in Range(openBatch'[i]) :
                                  KeyOf[x] = k <=> i = slotOf[k]
    BY <1>2, <1>5 DEF CoalesceIndexSound
  <2>3. CASE k = KeyOf[e]
    <3>1. ASSUME NEW i \in DOMAIN openBatch, NEW x \in Range(openBatch'[i])
          PROVE  KeyOf[x] = k <=> i = at
      <4>1. CASE i = at
        BY <1>5, <2>2, <2>3, <4>1
      <4>2. CASE i # at
        <5>1. x \in Range(openBatch[i])
          BY <1>5, <4>2
        <5> QED
          BY <1>1, <2>3, <4>2, <5>1 DEF CoalesceIndexSound
      <4> QED
        BY <4>1, <4>2
    <3> QED
      BY <1>1, <2>3, <3>1
  <2>4. CASE k # KeyOf[e]
    <3>1. slotOf[k] # at
      <4> SUFFICES ASSUME slotOf[k] = at
                   PROVE  FALSE
        OBVIOUS
      <4>1. PICK x \in Range(openBatch[at]) : TRUE
        <5>1. 1 \in DOMAIN openBatch[at]
          BY <1>3 DEF Entries
        <5>2. openBatch[at][1] \in Range(openBatch[at])
          BY <5>1 DEF Range
        <5> QED
          BY <5>2
      <4>2. KeyOf[x] = k
        BY <1>1, <4>1 DEF CoalesceIndexSound
      <4> QED
        BY <2>1, <2>4, <4>1, <4>2
    <3>2. \A x \in Range(openBatch'[at]) : KeyOf[x] # k
      BY <1>5, <2>2, <2>4
    <3>3. CASE slotOf[k] = 0
      BY <1>5, <3>2, <3>3 DEF CoalesceIndexSound
    <3>4. CASE slotOf[k] # 0
      BY <1>5, <3>1, <3>2, <3>4 DEF CoalesceIndexSound
    <3> QED
      BY <3>3, <3>4
  <2> QED
    BY <2>3, <2>4
<1>8. StreamTakes(e)
  <2>1. /\ UiStream \in Seq(Entries) /\ UiStream' \in Seq(Entries)
        /\ Len(UiStream') = Len(UiStream)
        /\ Len(shown) \in Nat
        /\ DOMAIN UiStream = 1..(Len(shown) + Len(openBatch))
        /\ DOMAIN UiStream' = 1..(Len(shown) + Len(openBatch))
    BY <1>1, <1>2, <1>5 DEF UiStream
  <2>2. ASSUME NEW i \in 1..(Len(shown) + Len(openBatch))
        PROVE  \/ UiStream'[i] = UiStream[i]
               \/ UiStream'[i] = new /\ UiStream[i] = openBatch[at]
    <3>1. CASE i \in 1..Len(shown)
      BY <1>1, <1>2, <1>5, <2>1, <3>1 DEF UiStream
    <3>2. CASE i \in (Len(shown) + 1)..(Len(shown) + Len(openBatch))
      <4>1. /\ UiStream[i] = openBatch[i - Len(shown)]
            /\ UiStream'[i] = openBatch'[i - Len(shown)]
            /\ i - Len(shown) \in DOMAIN openBatch
        BY <1>1, <1>2, <1>5, <2>1, <3>2 DEF UiStream
      <4> QED
        BY <1>5, <4>1
    <3> QED
      BY <2>1, <3>1, <3>2, <1>1
  <2>3. \A i \in DOMAIN UiStream' : \A x \in Range(UiStream'[i]) :
          x = e \/ \E j \in DOMAIN UiStream : x \in Range(UiStream[j])
    <3> SUFFICES ASSUME NEW i \in DOMAIN UiStream, NEW x \in Range(UiStream'[i])
                 PROVE  x = e \/ x \in Range(UiStream[i])
      BY <2>1
    <3> QED
      BY <1>4, <2>1, <2>2
  <2>4. ASSUME NEW i \in DOMAIN UiStream'
        PROVE  /\ i \in DOMAIN UiStream
               /\ \/ Head(UiStream'[i]) = Head(UiStream[i])
                  \/ KeyOf[Head(UiStream'[i])] # NoKey
    <3>1. \/ Head(UiStream'[i]) = Head(UiStream[i])
          \/ Head(UiStream'[i]) = e
      BY <1>4, <2>1, <2>2
    <3> QED
      BY <1>1, <2>1, <3>1
  <2> QED
    BY <2>1, <2>3, <2>4 DEF StreamTakes
<1> QED
  BY <1>6, <1>7, <1>8

\* Whatever push() does with the event.
LEMMA PushKeeps ==
  ASSUME BatcherAssumption, BatcherInv, CoalesceIndexSound, NEW e \in Events, Push(e)
  PROVE  BatcherInv' /\ CoalesceIndexSound' /\ StreamTakes(e)
<1>1. CASE e \in Immediate
  BY <1>1, PushImmediateKeeps DEF Push
<1>2. CASE e \notin Immediate /\ Coalesces(e)
  BY <1>2, CoalesceKeeps DEF Push
<1>3. CASE e \notin Immediate /\ ~Coalesces(e)
  BY <1>3, AddEntryKeeps DEF Push
<1> QED
  BY <1>1, <1>2, <1>3

\* A push whose consumer throws has done what a push does, or what a flush does.
LEMMA ThrowingPush ==
  ASSUME NEW e, PushThrows(e)
  PROVE  Push(e) \/ Flush
BY DEF PushThrows, Push, Flush
-----------------------------------------------------------------------------
(* What waits for the UI, and what it was shown *)

LEMMA NothingInNoEntries == EventsIn(<<>>) = {}
BY DEF EventsIn

LEMMA EventsConcat ==
  ASSUME NEW first \in Seq(Entries), NEW second \in Seq(Entries)
  PROVE  EventsIn(first \o second) = EventsIn(first) \cup EventsIn(second)
<1> DEFINE both == first \o second
<1>1. /\ Len(first) \in Nat /\ Len(second) \in Nat
      /\ DOMAIN first = 1..Len(first) /\ DOMAIN second = 1..Len(second)
      /\ DOMAIN both = 1..(Len(first) + Len(second))
      /\ \A i \in 1..Len(first) : both[i] = first[i]
      /\ \A i \in 1..Len(second) : both[Len(first) + i] = second[i]
  OBVIOUS
<1>2. ASSUME NEW i \in DOMAIN both
      PROVE  \/ \E j \in DOMAIN first : both[i] = first[j]
             \/ \E j \in DOMAIN second : both[i] = second[j]
  <2>1. CASE i \in 1..Len(first)
    BY <1>1, <2>1
  <2>2. CASE i \notin 1..Len(first)
    <3>1. i - Len(first) \in 1..Len(second) /\ Len(first) + (i - Len(first)) = i
      BY <1>1, <2>2
    <3>2. both[i] = second[i - Len(first)]
      BY <1>1, <3>1
    <3> QED
      BY <1>1, <3>1, <3>2
  <2> QED
    BY <2>1, <2>2
<1>3. ASSUME NEW j \in DOMAIN first
      PROVE  \E i \in DOMAIN both : both[i] = first[j]
  <2>1. j \in DOMAIN both
    BY <1>1
  <2> QED
    BY <1>1, <2>1
<1>4. ASSUME NEW j \in DOMAIN second
      PROVE  \E i \in DOMAIN both : both[i] = second[j]
  <2>1. Len(first) + j \in DOMAIN both
    BY <1>1
  <2> QED
    BY <1>1, <2>1
<1> HIDE DEF both
<1>5. \A e : (\E i \in DOMAIN both : e \in Range(both[i])) <=>
             \/ \E j \in DOMAIN first : e \in Range(first[j])
             \/ \E j \in DOMAIN second : e \in Range(second[j])
  BY <1>2, <1>3, <1>4
<1>6. EventsIn(both) = EventsIn(first) \cup EventsIn(second)
  BY <1>5 DEF EventsIn
<1> QED
  BY <1>6 DEF both

LEMMA EventsAppended ==
  ASSUME NEW entries \in Seq(Entries), NEW e \in Events
  PROVE  EventsIn(Append(entries, <<e>>)) = EventsIn(entries) \cup {e}
<1>1. <<e>> \in Entries /\ Range(<<e>>) = {e}
  BY EntryOfOne
<1>2. << <<e>> >> \in Seq(Entries) /\ Append(entries, <<e>>) = entries \o << <<e>> >>
  BY <1>1
<1>3. EventsIn(<< <<e>> >>) = {e}
  BY <1>1 DEF EventsIn
<1> QED
  BY <1>2, <1>3, EventsConcat

\* A flush shows everything that waits.
ShowsAll ==
  /\ EventsIn(openBatch') = {}
  /\ EventsIn(shown') = EventsIn(shown) \cup EventsIn(openBatch)

LEMMA FlushShows ==
  ASSUME BatcherInv, Flush
  PROVE  ShowsAll
<1>1. CASE openBatch = <<>>
  <2>1. UNCHANGED <<openBatch, shown>>
    BY <1>1 DEF Flush
  <2> QED
    BY <1>1, <2>1, NothingInNoEntries DEF ShowsAll
<1>2. CASE openBatch # <<>>
  <2>1. openBatch' = <<>> /\ shown' = shown \o openBatch
    BY <1>2 DEF Flush, Emit
  <2> QED
    BY <2>1, NothingInNoEntries, EventsConcat DEF ShowsAll, BatcherInv, Whole
<1> QED
  BY <1>1, <1>2

\* A push adds the event to what waits, less the events whose place it takes;
\* then they wait on or all are shown.
Takes(e, gone) ==
  LET now == (EventsIn(openBatch) \ gone) \cup {e} IN
  \/ EventsIn(openBatch') = now /\ EventsIn(shown') = EventsIn(shown)
  \/ EventsIn(openBatch') = {} /\ EventsIn(shown') = EventsIn(shown) \cup now

\* Nothing is pushed out: e is one more.
LEMMA AddedTakes ==
  ASSUME BatcherInv, NEW e \in Events,
         \/ Emit(Append(openBatch, <<e>>))
         \/ openBatch' = Append(openBatch, <<e>>) /\ shown' = shown
         \/ openBatch = <<>> /\ openBatch' = <<>> /\ shown' = Append(shown, <<e>>)
  PROVE  Takes(e, {})
<1>1. /\ openBatch \in Seq(Entries) /\ shown \in Seq(Entries)
      /\ Append(openBatch, <<e>>) \in Seq(Entries)
  BY EntryOfOne DEF BatcherInv, Whole
<1>2. EventsIn(Append(openBatch, <<e>>)) = EventsIn(openBatch) \cup {e}
  BY <1>1, EventsAppended
<1>3. CASE Emit(Append(openBatch, <<e>>))
  <2>1. openBatch' = <<>> /\ shown' = shown \o Append(openBatch, <<e>>)
    BY <1>3 DEF Emit
  <2>2. EventsIn(shown') = EventsIn(shown) \cup EventsIn(Append(openBatch, <<e>>))
    BY <1>1, <2>1, EventsConcat
  <2> QED
    BY <1>2, <2>1, <2>2, NothingInNoEntries DEF Takes
<1>4. CASE openBatch' = Append(openBatch, <<e>>) /\ shown' = shown
  BY <1>2, <1>4 DEF Takes
<1>5. CASE openBatch = <<>> /\ openBatch' = <<>> /\ shown' = Append(shown, <<e>>)
  <2>1. EventsIn(shown') = EventsIn(shown) \cup {e}
    BY <1>1, <1>5, EventsAppended
  <2> QED
    BY <1>5, <2>1, NothingInNoEntries DEF Takes
<1> QED
  BY <1>3, <1>4, <1>5

\* Only progress takes the place of anything, and only under its own key.
LEMMA CoalesceTakes ==
  ASSUME BatcherAssumption, BatcherInv, CoalesceIndexSound, NEW e \in Events,
         Coalesces(e), Coalesce(e)
  PROVE  \E gone \in SUBSET (EventsIn(openBatch) \cap TakesPlaceOf(e)) : Takes(e, gone)
<1> DEFINE at == slotOf[KeyOf[e]]
           new == IF e \in Progress THEN <<e>> ELSE Append(openBatch[at], e)
           gone == EventsIn(openBatch) \ EventsIn(openBatch')
<1>1. /\ KeyOf[e] # NoKey /\ KeyOf[e] \in Keys
      /\ at \in DOMAIN openBatch /\ at # 0
      /\ openBatch \in Seq(Entries)
      /\ openBatch[at] \in Entries
      /\ openBatch' = [openBatch EXCEPT ![at] = new] /\ shown' = shown
  BY DEF Coalesces, BatcherAssumption, BatcherInv, Whole, Coalesce
<1>2. \A x \in Range(openBatch[at]) : KeyOf[x] = KeyOf[e]
  BY <1>1 DEF CoalesceIndexSound
<1>3. /\ Range(<<e>>) = {e}
      /\ Range(Append(openBatch[at], e)) = Range(openBatch[at]) \cup {e}
  BY <1>1, EntryOfOne, EntryAppended
<1>4. IF e \in Progress THEN Range(new) = {e}
                        ELSE Range(new) = Range(openBatch[at]) \cup {e}
  BY <1>3
<1> HIDE DEF new
<1>5. /\ DOMAIN openBatch' = DOMAIN openBatch /\ openBatch'[at] = new
      /\ \A i \in DOMAIN openBatch : i # at => openBatch'[i] = openBatch[i]
  BY <1>1
<1>6. EventsIn(openBatch') \subseteq EventsIn(openBatch) \cup {e}
  BY <1>1, <1>4, <1>5 DEF EventsIn
<1>7. e \in EventsIn(openBatch')
  BY <1>1, <1>4, <1>5 DEF EventsIn
<1>8. ASSUME NEW x \in gone
      PROVE  x \in TakesPlaceOf(e)
  <2>1. /\ x \in Events
        /\ \A i \in DOMAIN openBatch : x \notin Range(openBatch'[i])
    BY <1>5, <1>8 DEF EventsIn
  <2>2. PICK i \in DOMAIN openBatch : x \in Range(openBatch[i])
    BY <1>8 DEF EventsIn
  <2>3. i = at
    BY <1>5, <2>1, <2>2
  <2>4. e \in Progress
    BY <1>1, <1>4, <1>5, <2>1, <2>2, <2>3
  <2> QED
    BY <1>1, <1>2, <2>1, <2>2, <2>3, <2>4 DEF TakesPlaceOf
<1>9. EventsIn(openBatch') = (EventsIn(openBatch) \ gone) \cup {e}
  BY <1>6, <1>7
<1>10. Takes(e, gone)
  BY <1>1, <1>9 DEF Takes
<1>11. gone \in SUBSET (EventsIn(openBatch) \cap TakesPlaceOf(e))
  BY <1>8
<1> QED
  BY <1>10, <1>11

\* Whatever push() does, nothing that waits for the UI is lost but progress that
\* newer progress of the same key replaces.
LEMMA PushTakes ==
  ASSUME BatcherAssumption, BatcherInv, CoalesceIndexSound, NEW e \in Events, Push(e)
  PROVE  \E gone \in SUBSET (EventsIn(openBatch) \cap TakesPlaceOf(e)) : Takes(e, gone)
<1>1. CASE e \notin Immediate /\ Coalesces(e)
  BY <1>1, CoalesceTakes DEF Push
<1>2. CASE e \in Immediate
  BY <1>2, AddedTakes DEF Push, PushImmediate
<1>3. CASE e \notin Immediate /\ ~Coalesces(e)
  BY <1>3, AddedTakes DEF Push, AddEntry
<1> QED
  BY <1>1, <1>2, <1>3
=============================================================================
