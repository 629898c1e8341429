---------------------------- MODULE Grant_proof ----------------------------
(***************************************************************************)
(* Proofs about GrantSession, for any number of cells, objects, entries    *)
(* and generations: bytes leave the adapter only under current authority,  *)
(* and from the object the cell meant (IInv); a conversion keeps the       *)
(* request, and a message under authority is not refused (AInv, on IInv).  *)
(* And about GrantVulkan, for any number of workgroups and width of a      *)
(* word: the receipt is true, and there is no failure but the device's     *)
(* (VInv, by the remainders of the words modulo 64).                       *)
(***************************************************************************)
EXTENDS GrantSession, GrantVulkan, SequenceTheorems, FiniteSetTheorems, TLAPS

Caps ==
    [slot : {Slot}, generation : Nat, holder_cell : CellIds,
     object_type : {VF_OBJECT_GRANT}, rights : {t.rights : t \in Terms},
     state : {0, VF_CAP_LIVE}, object_id : Objects,
     valid_from : {t.valid_from : t \in Terms},
     expires_at : {t.expires_at : t \in Terms}]
Entries ==
    [cap : Caps, bytes : {ObjectBytes}, owner_cell : CellIds,
     state : {0, VF_GRANT_LIVE}]

\* Every generation in the table has been given out.
GivenOut(t, g) ==
    \A i \in 1..Len(t) : t[i].cap.generation \in 1..g[t[i].cap.holder_cell]

\* One generation of one cell's slot is one capability.
Unshared(t) ==
    \A i, j \in 1..Len(t) :
        /\ t[i].cap.holder_cell = t[j].cap.holder_cell
        /\ t[i].cap.generation = t[j].cap.generation
        => t[i].cap.object_id = t[j].cap.object_id

\* A message made from a capability names a generation that was given out, and
\* means the object of that generation.
Meant(t, g, m) ==
    m.object # NoObject =>
        /\ m.cell \in CellIds
        /\ \E k \in 1..g[m.cell] :
              /\ m.header.payload_grant = Handle(k, Slot)
              /\ \A i \in 1..Len(t) :
                    /\ t[i].cap.holder_cell = m.cell
                    /\ t[i].cap.generation = k
                    => t[i].cap.object_id = m.object

\* A message's window is two numbers.
Sized(m) == m.header.payload_offset \in Nat /\ m.header.payload_bytes \in Nat

RootInv ==
    /\ table \in Seq(Entries)
    /\ generation \in [CellIds -> Nat]
    /\ clock \in Nat
    /\ GivenOut(table, generation)
    /\ Unshared(table)
    /\ Meant(table, generation, message)
    /\ Sized(message)

\* Under the lock the snapshots are of the table as it is, and the message
\* stays.
Snapped ==
    Locked =>
        /\ message # NoMessage
        /\ call.now \in Nat
        /\ Len(call.snapshots) = Len(table)
        /\ \A i \in 1..Len(table) :
              /\ call.snapshots[i].entry = table[i]
              /\ call.snapshots[i].snapshot_offset \in Nat

\* What is delivered was authorized by what the call was given.
Authorized ==
    call.phase \in {"submitted", "converted"} =>
        CallError = "ok" /\ Delivered = CallPayload

CallShape ==
    /\ DOMAIN call = {"phase", "session", "snapshots", "now", "err",
                      "payload", "frame"}
    /\ call.phase \in {"idle", "called", "returned", "submitted", "converted"}

CallInv == CallShape /\ Snapped /\ Authorized

IInv == RootInv /\ CallInv

-----------------------------------------------------------------------------
(* What authorize accepts.                                                 *)

LEMMA AuthorizedMessage ==
    ASSUME NEW session, NEW h, NEW snapshots, NEW caller, NEW now,
           AuthorizeError(session, h, snapshots, caller, now) = "ok",
           h.payload_bytes # 0
    PROVE  /\ h.opcode = VF_SGPU_SUBMIT_COMMAND_LIST
           /\ caller = session.caller_cell
           /\ h.object = session.endpoint_handle
           /\ PayloadGrantError(h, snapshots, caller, {"read"}, now) = "ok"
           /\ WindowError(h, Granted(h, snapshots, caller)) = "ok"
<1>1. GrantHeaderError(h) = "ok"
    BY DEF AuthorizeError
<1>2. h.opcode = VF_SGPU_SUBMIT_COMMAND_LIST
    BY <1>1 DEF AuthorizeError
<1>3. caller = session.caller_cell /\ h.object = session.endpoint_handle
    BY <1>1, <1>2 DEF AuthorizeError
<1>4. PayloadGrantError(h, snapshots, caller, {"read"}, now) = "ok"
    BY <1>1, <1>2, <1>3 DEF AuthorizeError
<1>5. QED
    BY <1>1, <1>2, <1>3, <1>4 DEF AuthorizeError

LEMMA OneMatch ==
    ASSUME NEW h, NEW snapshots, NEW caller, NEW now,
           PayloadGrantError(h, snapshots, caller, {"read"}, now) = "ok",
           h.payload_bytes # 0
    PROVE  \E i \in 1..Len(snapshots) :
              /\ Matches(h, snapshots, caller) = {i}
              /\ Granted(h, snapshots, caller) = snapshots[i]
              /\ EntryError(h, snapshots[i].entry, {"read"}, now) = "ok"
<1> DEFINE found == Matches(h, snapshots, caller)
<1>1. GrantHeaderError(h) = "ok"
    BY DEF PayloadGrantError
<1>2. \A i, j \in found : i = j
    BY <1>1 DEF PayloadGrantError
<1>3. found # {}
    BY <1>1, <1>2 DEF PayloadGrantError
<1>4. PICK i \in found : TRUE
    BY <1>3
<1>5. found = {i}
    BY <1>2, <1>4
<1>6. (CHOOSE j \in found : TRUE) = i
    BY <1>5
<1>7. EntryError(h, snapshots[i].entry, {"read"}, now) = "ok"
    BY <1>1, <1>2, <1>3, <1>6 DEF PayloadGrantError
<1>8. i \in 1..Len(snapshots)
    BY <1>4 DEF Matches
<1>9. QED
    BY <1>5, <1>6, <1>7, <1>8 DEF Granted

LEMMA EntryInForce ==
    ASSUME NEW h, NEW entry, NEW now,
           EntryError(h, entry, {"read"}, now) = "ok"
    PROVE  /\ Handle(entry.cap.generation, entry.cap.slot) = h.payload_grant
           /\ entry.cap.state = VF_CAP_LIVE
           /\ entry.state = VF_GRANT_LIVE
           /\ "read" \in entry.cap.rights
           /\ entry.cap.rights \subseteq AllRights
           /\ ~(now < entry.cap.valid_from)
           /\ ~(now >= entry.cap.expires_at)
<1>1. /\ Handle(entry.cap.generation, entry.cap.slot) = h.payload_grant
      /\ entry.cap.state = VF_CAP_LIVE
      /\ ~(now < entry.cap.valid_from)
      /\ ~(now >= entry.cap.expires_at)
    BY DEF EntryError
<1>2. "read" \in entry.cap.rights /\ entry.cap.rights \subseteq AllRights
    BY DEF EntryError
<1>3. entry.state = VF_GRANT_LIVE
    BY <1>2 DEF EntryError
<1>4. QED
    BY <1>1, <1>2, <1>3

-----------------------------------------------------------------------------
(* The root's table.                                                       *)

LEMMA EntryTyped ==
    ASSUME NEW t \in Seq(Entries), NEW i \in 1..Len(t)
    PROVE  t[i] \in Entries /\ t[i].cap \in Caps
<1>1. t[i] \in Entries
    BY ElementOfSeq
<1>2. QED
    BY <1>1 DEF Entries

\* One slot: handles are equal only for equal generations.
LEMMA HandleInjective ==
    ASSUME NEW j \in Nat, NEW k \in Nat, Handle(j, Slot) = Handle(k, Slot)
    PROVE  j = k
<1>1. SlotSpan \in Nat /\ SlotSpan > 0
    BY PolicyAssumption
<1>2. j * SlotSpan = k * SlotSpan
    BY <1>1 DEF Handle, Slot
<1>3. CASE j < k
    <2>1. j + 1 <= k
        BY <1>3
    <2>2. (j + 1) * SlotSpan <= k * SlotSpan
        BY <2>1, <1>1
    <2>3. QED
        BY <2>2, <1>1, <1>2
<1>4. CASE k < j
    <2>1. k + 1 <= j
        BY <1>4
    <2>2. (k + 1) * SlotSpan <= j * SlotSpan
        BY <2>1, <1>1
    <2>3. QED
        BY <2>2, <1>1, <1>2
<1>5. QED
    BY <1>3, <1>4

\* The same capability, whatever its state.
SameCap(a, b) ==
    /\ a.cap.holder_cell = b.cap.holder_cell
    /\ a.cap.generation = b.cap.generation
    /\ a.cap.object_id = b.cap.object_id

\* A table that holds only capabilities of another keeps the other's promises.
LEMMA Subtable ==
    ASSUME NEW t, NEW u, NEW g, NEW m,
           \A i \in 1..Len(u) : \E j \in 1..Len(t) : SameCap(u[i], t[j]),
           GivenOut(t, g), Unshared(t), Meant(t, g, m)
    PROVE  GivenOut(u, g) /\ Unshared(u) /\ Meant(u, g, m)
<1>1. GivenOut(u, g)
    BY DEF GivenOut, SameCap
<1>2. Unshared(u)
    <2>1. SUFFICES ASSUME NEW i \in 1..Len(u), NEW j \in 1..Len(u),
                          u[i].cap.holder_cell = u[j].cap.holder_cell,
                          u[i].cap.generation = u[j].cap.generation
                   PROVE  u[i].cap.object_id = u[j].cap.object_id
        BY DEF Unshared
    <2>2. PICK a \in 1..Len(t) : SameCap(u[i], t[a])
        OBVIOUS
    <2>3. PICK b \in 1..Len(t) : SameCap(u[j], t[b])
        OBVIOUS
    <2>4. t[a].cap.object_id = t[b].cap.object_id
        BY <2>1, <2>2, <2>3 DEF SameCap, Unshared
    <2>5. QED
        BY <2>2, <2>3, <2>4 DEF SameCap
<1>3. Meant(u, g, m)
    <2>1. SUFFICES ASSUME m.object # NoObject PROVE Meant(u, g, m)
        BY DEF Meant
    <2>2. PICK k \in 1..g[m.cell] :
              /\ m.header.payload_grant = Handle(k, Slot)
              /\ \A i \in 1..Len(t) :
                    /\ t[i].cap.holder_cell = m.cell
                    /\ t[i].cap.generation = k
                    => t[i].cap.object_id = m.object
        BY <2>1 DEF Meant
    <2>3. ASSUME NEW i \in 1..Len(u),
                 u[i].cap.holder_cell = m.cell, u[i].cap.generation = k
          PROVE  u[i].cap.object_id = m.object
        <3>1. PICK j \in 1..Len(t) : SameCap(u[i], t[j])
            OBVIOUS
        <3>2. QED
            BY <2>2, <2>3, <3>1 DEF SameCap
    <2>4. QED
        BY <2>1, <2>2, <2>3 DEF Meant
<1>4. QED
    BY <1>1, <1>2, <1>3

-----------------------------------------------------------------------------
(* What the root does to its table.                                        *)

LEMMA GrantStep ==
    ASSUME RootInv, NEW holder \in CellIds, NEW object \in Objects,
           NEW terms \in Terms, RootGrant(holder, object, terms)
    PROVE  RootInv'
<1> DEFINE e == Entry(holder, object, terms)
           n == Len(table)
<1>1. n \in Nat /\ generation[holder] \in Nat /\ holder \in CellIds
    BY DEF RootInv
<1>2. e.cap \in Caps
    BY <1>1 DEF Entry, Caps
<1>3. e \in Entries
    BY <1>2 DEF Entry, Entries
<1>4. /\ table' = Append(table, e)
      /\ generation' = [generation EXCEPT ![holder] = @ + 1]
      /\ clock' = clock /\ message' = message
    BY DEF RootGrant
<1>5. /\ table' \in Seq(Entries)
      /\ Len(table') = n + 1
      /\ \A i \in 1..n : table'[i] = table[i]
      /\ table'[n + 1] = e
    BY <1>3, <1>4, AppendProperties DEF RootInv
<1>6. /\ generation' \in [CellIds -> Nat]
      /\ \A c \in CellIds :
            generation'[c] = IF c = holder THEN generation[c] + 1
                             ELSE generation[c]
    BY <1>1, <1>4 DEF RootInv
<1>7. e.cap.holder_cell = holder /\ e.cap.generation = generation[holder] + 1
    BY DEF Entry
<1>8. \A i \in 1..n : /\ table[i].cap.holder_cell \in CellIds
                      /\ table[i].cap.generation \in Nat
                      /\ table[i].cap.generation
                            \in 1..generation[table[i].cap.holder_cell]
    <2>1. \A i \in 1..n : table[i].cap \in Caps
        BY EntryTyped DEF RootInv
    <2>2. QED
        BY <2>1 DEF Caps, RootInv, GivenOut
<1>9. GivenOut(table', generation')
    <2>1. SUFFICES ASSUME NEW i \in 1..(n + 1)
                   PROVE  table'[i].cap.generation
                             \in 1..generation'[table'[i].cap.holder_cell]
        BY <1>5 DEF GivenOut
    <2>2. CASE i = n + 1
        BY <2>2, <1>1, <1>5, <1>6, <1>7
    <2>3. CASE i # n + 1
        <3>1. i \in 1..n /\ table'[i] = table[i]
            BY <2>3, <1>1, <1>5
        <3>2. generation[table[i].cap.holder_cell] \in Nat
            BY <3>1, <1>8 DEF RootInv
        <3>3. QED
            BY <3>1, <3>2, <1>6, <1>8
    <2>4. QED
        BY <2>2, <2>3
<1>10. \A i \in 1..n :
          table[i].cap.holder_cell = holder => table[i].cap.generation # e.cap.generation
    BY <1>1, <1>7, <1>8
<1>11. Unshared(table')
    <2>1. SUFFICES ASSUME NEW i \in 1..(n + 1), NEW j \in 1..(n + 1),
                          table'[i].cap.holder_cell = table'[j].cap.holder_cell,
                          table'[i].cap.generation = table'[j].cap.generation
                   PROVE  table'[i].cap.object_id = table'[j].cap.object_id
        BY <1>5 DEF Unshared
    <2>2. \A k \in 1..(n + 1) : k = n + 1 \/ k \in 1..n
        BY <1>1
    <2>3. CASE i = n + 1 \/ j = n + 1
        BY <2>1, <2>2, <2>3, <1>5, <1>7, <1>10
    <2>4. CASE i \in 1..n /\ j \in 1..n
        BY <2>1, <2>4, <1>5 DEF RootInv, Unshared
    <2>5. QED
        BY <2>2, <2>3, <2>4
<1>12. Meant(table', generation', message')
    <2>1. SUFFICES ASSUME message.object # NoObject
                   PROVE  Meant(table', generation', message)
        BY <1>4 DEF Meant
    <2>2. message.cell \in CellIds
        BY <2>1 DEF RootInv, Meant
    <2>3. PICK k \in 1..generation[message.cell] :
              /\ message.header.payload_grant = Handle(k, Slot)
              /\ \A i \in 1..n :
                    /\ table[i].cap.holder_cell = message.cell
                    /\ table[i].cap.generation = k
                    => table[i].cap.object_id = message.object
        BY <2>1 DEF RootInv, Meant
    <2>4. generation[message.cell] \in Nat
        BY <2>2 DEF RootInv
    <2>5. k \in 1..generation'[message.cell]
        BY <2>2, <2>4, <1>6
    <2>6. ASSUME NEW i \in 1..(n + 1),
                 table'[i].cap.holder_cell = message.cell,
                 table'[i].cap.generation = k
          PROVE  table'[i].cap.object_id = message.object
        <3>1. i # n + 1
            BY <2>4, <2>6, <1>1, <1>5, <1>7
        <3>2. QED
            BY <3>1, <2>3, <2>6, <1>1, <1>5
    <2>7. QED
        BY <2>2, <2>3, <2>5, <2>6, <1>5 DEF Meant
<1>13. QED
    BY <1>4, <1>5, <1>6, <1>9, <1>11, <1>12 DEF RootInv

\* The other changes of the table leave only capabilities it had.
LEMMA TableStep ==
    ASSUME RootInv,
           table' \in Seq(Entries),
           \A i \in 1..Len(table') : \E j \in 1..Len(table) :
              SameCap(table'[i], table[j]),
           UNCHANGED <<generation, clock, message>>
    PROVE  RootInv'
<1>1. /\ GivenOut(table', generation) /\ Unshared(table')
      /\ Meant(table', generation, message)
    <2>1. /\ GivenOut(table, generation) /\ Unshared(table)
          /\ Meant(table, generation, message)
        BY DEF RootInv
    <2>2. QED
        BY <2>1, Subtable
<1>2. QED
    BY <1>1 DEF RootInv

LEMMA RevokeCapStep ==
    ASSUME RootInv, NEW i \in 1..Len(table), RootRevokeCap(i)
    PROVE  RootInv'
<1> DEFINE dead == [table[i].cap EXCEPT !.state = 0]
           e == [table[i] EXCEPT !.cap = dead]
<1>1. table \in Seq(Entries)
    BY DEF RootInv
<1>2. table[i] \in Entries /\ table[i].cap \in Caps
    BY <1>1, EntryTyped
<1>3. dead \in Caps /\ SameCap([cap |-> dead], table[i])
    BY <1>2 DEF Caps, SameCap
<1>4. e \in Entries /\ SameCap(e, table[i])
    BY <1>2, <1>3 DEF Entries, SameCap
<1>5. table' = [table EXCEPT ![i] = e]
    BY DEF RootRevokeCap
<1>6. /\ table' \in Seq(Entries)
      /\ Len(table') = Len(table)
      /\ \A j \in 1..Len(table) : table'[j] = IF j = i THEN e ELSE table[j]
    BY <1>1, <1>4, <1>5, ExceptSeq
<1>7. \A j \in 1..Len(table') : \E k \in 1..Len(table) :
          SameCap(table'[j], table[k])
    BY <1>4, <1>6 DEF SameCap
<1>8. UNCHANGED <<generation, clock, message>>
    BY DEF RootRevokeCap
<1>9. QED
    BY <1>6, <1>7, <1>8, TableStep

LEMMA RevokeGrantStep ==
    ASSUME RootInv, NEW object \in Objects, RootRevokeGrant(object)
    PROVE  RootInv'
<1> DEFINE after(i) == IF table[i].cap.object_id = object
                       THEN [table[i] EXCEPT !.state = 0] ELSE table[i]
<1>1. table \in Seq(Entries) /\ Len(table) \in Nat
    BY DEF RootInv
<1>2. \A i \in 1..Len(table) : table[i] \in Entries
    BY <1>1, EntryTyped
<1>3. \A i \in 1..Len(table) : after(i) \in Entries /\ SameCap(after(i), table[i])
    BY <1>2 DEF Entries, SameCap
<1>4. table' = [i \in 1..Len(table) |-> after(i)]
    BY DEF RootRevokeGrant
<1> HIDE DEF after
<1>5. /\ table' \in Seq(Entries)
      /\ Len(table') = Len(table)
      /\ \A i \in 1..Len(table) : table'[i] = after(i)
    BY <1>1, <1>3, <1>4
<1>6. \A j \in 1..Len(table') : \E k \in 1..Len(table) :
          SameCap(table'[j], table[k])
    BY <1>3, <1>5
<1>7. UNCHANGED <<generation, clock, message>>
    BY DEF RootRevokeGrant
<1>8. QED
    BY <1>5, <1>6, <1>7, TableStep

LEMMA ReapStep ==
    ASSUME RootInv, NEW i \in 1..Len(table), RootReap(i)
    PROVE  RootInv'
<1> DEFINE n == Len(table)
           low == SubSeq(table, 1, i - 1)
           high == SubSeq(table, i + 1, n)
<1>1. table \in Seq(Entries) /\ n \in Nat /\ i \in 1..n
    BY DEF RootInv
<1>2. \A j \in 1..n : table[j] \in Entries
    BY <1>1, EntryTyped
<1>3. /\ low \in Seq(Entries)
      /\ Len(low) = i - 1
      /\ \A j \in 1..(i - 1) : low[j] = table[j]
    <2>1. i - 1 \in Int /\ \A j \in 1..(i - 1) : table[j] \in Entries
        BY <1>1, <1>2
    <2>2. /\ low \in Seq(Entries)
          /\ Len(low) = IF 1 <= i - 1 THEN i - 1 - 1 + 1 ELSE 0
          /\ \A j \in 1..(i - 1 - 1 + 1) : low[j] = table[1 + j - 1]
        BY <2>1, SubSeqProperties
    <2>3. QED
        BY <2>2, <1>1
<1>4. /\ high \in Seq(Entries)
      /\ Len(high) = n - i
      /\ \A j \in 1..(n - i) : high[j] = table[i + j]
    <2>1. /\ i + 1 \in Int /\ n \in Int
          /\ \A j \in (i + 1)..n : table[j] \in Entries
        BY <1>1, <1>2
    <2>2. /\ high \in Seq(Entries)
          /\ Len(high) = IF i + 1 <= n THEN n - (i + 1) + 1 ELSE 0
          /\ \A j \in 1..(n - (i + 1) + 1) : high[j] = table[i + 1 + j - 1]
        BY <2>1, SubSeqProperties
    <2>3. QED
        BY <2>2, <1>1
<1>5. table' = low \o high
    BY DEF RootReap
<1> HIDE DEF low, high
<1>6. /\ table' \in Seq(Entries)
      /\ Len(table') = Len(low) + Len(high)
      /\ \A j \in 1..(Len(low) + Len(high)) :
            table'[j] = IF j <= Len(low) THEN low[j] ELSE high[j - Len(low)]
    BY <1>3, <1>4, <1>5, ConcatProperties
<1>7. \A j \in 1..Len(table') : \E k \in 1..n : table'[j] = table[k]
    <2>1. SUFFICES ASSUME NEW j \in 1..(n - 1)
                   PROVE  \E k \in 1..n : table'[j] = table[k]
        BY <1>1, <1>3, <1>4, <1>6
    <2> DEFINE d == j - (i - 1)
    <2>2. Len(low) = i - 1 /\ j \in 1..(Len(low) + Len(high))
        BY <1>1, <1>3, <1>4
    <2>3. table'[j] = IF j <= i - 1 THEN low[j] ELSE high[d]
        BY <2>2, <1>6
    <2>4. CASE j <= i - 1
        <3>1. j \in 1..(i - 1) /\ j \in 1..n
            BY <2>4, <1>1
        <3>2. table'[j] = table[j]
            BY <2>3, <2>4, <3>1, <1>3
        <3>3. QED
            BY <3>1, <3>2
    <2>5. CASE ~(j <= i - 1)
        <3>1. d \in 1..(n - i) /\ i + d \in 1..n
            BY <2>5, <1>1
        <3>2. table'[j] = table[i + d]
            BY <2>3, <2>5, <3>1, <1>4
        <3>3. QED
            BY <3>1, <3>2
    <2>6. QED
        BY <2>4, <2>5
<1>8. \A j \in 1..Len(table') : \E k \in 1..n : SameCap(table'[j], table[k])
    BY <1>7 DEF SameCap
<1>9. UNCHANGED <<generation, clock, message>>
    BY DEF RootReap
<1>10. QED
    BY <1>6, <1>8, <1>9, TableStep

-----------------------------------------------------------------------------
(* What the cells send.                                                    *)

LEMMA SendStep ==
    ASSUME RootInv, NEW i \in 1..Len(table), NEW f \in InlineFrames,
           NEW offset \in Offsets, CellSend(i, f, offset)
    PROVE  RootInv'
<1> DEFINE cap == table[i].cap
<1>1. cap \in Caps
    BY EntryTyped DEF RootInv
<1>2. /\ cap.holder_cell \in CellIds /\ cap.slot = Slot
      /\ cap.generation \in 1..generation[cap.holder_cell]
    BY <1>1 DEF Caps, RootInv, GivenOut
<1>3. f.header \in VfMsgHeader
    BY RootAssumption
<1>4. GrantHeader(f, Handle(cap.generation, cap.slot), offset).payload_grant
         = Handle(cap.generation, cap.slot)
    BY <1>3 DEF GrantHeader, VfMsgHeader
<1>5. /\ message'.cell = cap.holder_cell
      /\ message'.object = cap.object_id
      /\ message'.header.payload_grant = Handle(cap.generation, Slot)
    BY <1>2, <1>4 DEF CellSend
<1>6. UNCHANGED <<table, generation, clock>>
    BY DEF CellSend
<1>7. \A j \in 1..Len(table) :
          /\ table[j].cap.holder_cell = cap.holder_cell
          /\ table[j].cap.generation = cap.generation
          => table[j].cap.object_id = cap.object_id
    BY DEF RootInv, Unshared
<1>8. Meant(table, generation, message')
    BY <1>2, <1>5, <1>7 DEF Meant
<1>9. Sized(message')
    <2>1. message'.header = GrantHeader(f, Handle(cap.generation, cap.slot), offset)
        BY DEF CellSend
    <2>2. message'.header.payload_offset = offset
        BY <2>1, <1>3 DEF GrantHeader, VfMsgHeader
    <2>3. message'.header.payload_bytes = f.header.payload_bytes
        BY <2>1, <1>3 DEF GrantHeader, VfMsgHeader
    <2>4. offset \in Nat /\ f.header.payload_bytes \in Nat
        BY <1>3, RootAssumption DEF Offsets, VfMsgHeader, U32
    <2>5. QED
        BY <2>2, <2>3, <2>4 DEF Sized
<1>10. QED
    BY <1>6, <1>8, <1>9 DEF RootInv

\* Messages nobody's capability is behind mean no object.
LEMMA OtherRootSteps ==
    ASSUME RootInv,
           \/ Tick
           \/ \E forged \in Forged : CellForge(forged)
           \/ \E o \in Objects : CellScribble(o)
           \/ Drop
           \/ \E s \in Sessions, o \in {0, Align} : RootCall(s, o)
           \/ Submit \/ ToInline \/ RootUnlock
           \/ UNCHANGED vars
    PROVE  RootInv'
<1>1. ASSUME UNCHANGED <<table, generation>>, clock' \in Nat,
             message' = message \/ message'.object = NoObject,
             Sized(message')
      PROVE  RootInv'
    <2>1. Meant(table, generation, message')
        BY <1>1 DEF Meant, RootInv
    <2>2. QED
        BY <1>1, <2>1 DEF RootInv
<1>2. clock \in Nat /\ Sized(message)
    BY DEF RootInv
<1>3. CASE Tick
    <2>1. UNCHANGED <<table, generation, message>> /\ clock' = clock + 1
        BY <1>3 DEF Tick
    <2>2. QED
        BY <2>1, <1>1, <1>2
<1>4. CASE (\E forged \in Forged : CellForge(forged)) \/ Drop
    <2>1. UNCHANGED <<table, generation, clock>>
        BY <1>4 DEF CellForge, Drop
    <2>2. NoMessage.object = NoObject /\ Sized(NoMessage)
        BY DEF NoMessage, NewHeader, Sized
    <2>3. \A c, h : LET m == [NoMessage EXCEPT !.cell = c, !.header = h] IN
                    m.object = NoObject /\ m.header = h
        BY DEF NoMessage
    <2>4. ASSUME NEW forged \in Forged, CellForge(forged)
          PROVE  message'.object = NoObject /\ Sized(message')
        <3>1. message' = [NoMessage EXCEPT !.cell = forged.cell,
                                           !.header = forged.header]
            BY <2>4 DEF CellForge
        <3>2. message'.object = NoObject /\ message'.header = forged.header
            BY ONLY <3>1, <2>3
        <3>3. forged.header \in VfMsgHeader
            BY RootAssumption
        <3>4. Sized(message')
            BY <3>2, <3>3, WidthAssumption DEF Sized, VfMsgHeader, U32, U64
        <3>5. QED
            BY <3>2, <3>4
    <2>5. Drop => message'.object = NoObject /\ Sized(message')
        BY <2>2 DEF Drop
    <2>6. QED
        BY <2>1, <2>4, <2>5, <1>1, <1>2, <1>4
<1>5. CASE \/ \E o \in Objects : CellScribble(o)
           \/ \E s \in Sessions, o \in {0, Align} : RootCall(s, o)
           \/ Submit \/ ToInline \/ RootUnlock
           \/ UNCHANGED vars
    <2>1. UNCHANGED <<table, generation, clock, message>>
        BY <1>5 DEF CellScribble, RootCall, Submit, ToInline, RootUnlock, vars
    <2>2. QED
        BY <2>1, <1>1, <1>2
<1>6. QED
    BY <1>3, <1>4, <1>5

-----------------------------------------------------------------------------
(* The adapter call.                                                       *)

\* Nothing the call was given changes while it lasts.
LEMMA QuietStep ==
    ASSUME CallInv, UNCHANGED <<table, message, call>>
    PROVE  CallInv'
BY DEF CallInv, CallShape, Snapped, Authorized, Locked, CallError,
       CallPayload, Delivered

\* Without a call there is nothing to keep.
LEMMA UnlockedStep ==
    ASSUME CallInv, ~Locked, UNCHANGED call
    PROVE  CallInv'
BY DEF CallInv, CallShape, Snapped, Authorized, Locked

\* A cell sends only when no message is under way, hence not during a call.
LEMMA SendUnlocked ==
    ASSUME CallInv, message = NoMessage
    PROVE  ~Locked
BY DEF CallInv, Snapped

LEMMA CallStep ==
    ASSUME IInv, NEW s \in Sessions, NEW offset \in {0, Align},
           RootCall(s, offset)
    PROVE  CallInv'
<1> DEFINE shots == [i \in 1..Len(table) |->
                       [entry |-> table[i],
                        snapshot_offset |-> offset,
                        data |-> SubSeq(contents[table[i].cap.object_id],
                                        offset + 1, ObjectBytes)]]
<1>1. Len(table) \in Nat
    BY DEF IInv, RootInv
<1>2. Len(shots) = Len(table)
    BY <1>1
<1>3. \A i \in 1..Len(table) : /\ shots[i].entry = table[i]
                              /\ shots[i].snapshot_offset \in Nat
    BY PolicyAssumption
<1>4. call' = [NoCall EXCEPT !.phase = "called", !.session = s,
                             !.now = clock, !.snapshots = shots]
    BY DEF RootCall
<1> HIDE DEF shots
<1>5. /\ call'.phase = "called" /\ call'.now = clock
      /\ call'.snapshots = shots
      /\ DOMAIN call' = {"phase", "session", "snapshots", "now", "err",
                         "payload", "frame"}
    BY <1>4 DEF NoCall
<1>6. clock \in Nat /\ message # NoMessage /\ UNCHANGED <<table, message>>
    BY DEF IInv, RootInv, RootCall
<1>7. QED
    BY <1>2, <1>3, <1>5, <1>6 DEF CallInv, CallShape, Snapped, Authorized,
                                  Locked

\* The answer: what is delivered is what the call's inputs authorize.
LEMMA AnswerStep ==
    ASSUME CallInv, Submit \/ ToInline
    PROVE  CallInv'
<1>1. UNCHANGED <<table, message>> /\ call.phase = "called"
    BY DEF Submit, ToInline
<1>2. /\ message # NoMessage /\ call.now \in Nat
      /\ Len(call.snapshots) = Len(table)
      /\ \A i \in 1..Len(table) :
            /\ call.snapshots[i].entry = table[i]
            /\ call.snapshots[i].snapshot_offset \in Nat
    BY <1>1 DEF CallInv, Snapped, Locked
<1>3. DOMAIN call = {"phase", "session", "snapshots", "now", "err",
                     "payload", "frame"}
    BY DEF CallInv, CallShape
<1>4. CASE Refused
    <2>1. /\ DOMAIN call' = DOMAIN call
          /\ call'.phase = "returned" /\ call'.now = call.now
          /\ call'.snapshots = call.snapshots
        BY <1>3, <1>4 DEF Refused
    <2>2. QED
        BY <2>1, <1>1, <1>2, <1>3 DEF CallInv, CallShape, Snapped, Authorized,
                                      Locked
<1>5. CASE Submit /\ ~Refused
    <2>1. PICK err \in {"ok", "Submission"} :
              /\ CallError = "ok"
              /\ call' = [call EXCEPT !.phase = "submitted", !.err = err,
                                      !.payload = CallPayload]
        BY <1>5 DEF Submit
    <2>2. /\ DOMAIN call' = DOMAIN call
          /\ call'.phase = "submitted" /\ call'.payload = CallPayload
          /\ call'.now = call.now /\ call'.snapshots = call.snapshots
          /\ call'.session = call.session
        BY <2>1, <1>3
    <2>3. CallError' = CallError /\ CallPayload' = CallPayload
        BY <2>2, <1>1 DEF CallError, CallPayload
    <2>4. Delivered' = CallPayload
        BY <2>2 DEF Delivered
    <2>5. QED
        BY <2>1, <2>2, <2>3, <2>4, <1>1, <1>2, <1>3
        DEF CallInv, CallShape, Snapped, Authorized, Locked
<1>6. CASE ToInline /\ ~Refused
    <2> DEFINE f == InlineFrame(message.header, CallPayload)
    <2>1. /\ CallError = "ok"
          /\ \/ call' = [call EXCEPT !.phase = "converted", !.err = "ok",
                                     !.frame = f]
             \/ call' = [call EXCEPT !.phase = "returned",
                                     !.err = ValidateError(f)]
        BY <1>6 DEF ToInline
    <2>2. /\ DOMAIN call' = DOMAIN call
          /\ \/ call'.phase = "converted" /\ call'.frame = f
             \/ call'.phase = "returned"
          /\ call'.now = call.now /\ call'.snapshots = call.snapshots
          /\ call'.session = call.session
        BY <2>1, <1>3
    <2>3. CallError' = CallError /\ CallPayload' = CallPayload
        BY <2>2, <1>1 DEF CallError, CallPayload
    <2>4. call'.phase = "converted" => Delivered' = CallPayload
        BY <2>2 DEF Delivered, InlineFrame
    <2>5. QED
        BY <2>1, <2>2, <2>3, <2>4, <1>1, <1>2, <1>3
        DEF CallInv, CallShape, Snapped, Authorized, Locked
<1>7. QED
    BY <1>4, <1>5, <1>6

LEMMA UnlockStep ==
    ASSUME RootUnlock
    PROVE  CallInv'
BY DEF RootUnlock, NoCall, CallInv, CallShape, Snapped, Authorized, Locked

-----------------------------------------------------------------------------
(* The invariant.                                                          *)

LEMMA InitIInv == Init => IInv
<1> SUFFICES ASSUME Init PROVE IInv
    OBVIOUS
<1>1. table \in Seq(Entries) /\ Len(table) = 0
    BY EmptySeq DEF Init
<1>2. RootInv
    BY <1>1 DEF Init, RootInv, GivenOut, Unshared, Meant, NoMessage, NewHeader, Sized
<1>3. CallInv
    BY DEF Init, NoCall, CallInv, CallShape, Snapped, Authorized, Locked
<1>4. QED
    BY <1>2, <1>3 DEF IInv

LEMMA NextIInv == IInv /\ [Next]_vars => IInv'
<1> SUFFICES ASSUME IInv, [Next]_vars PROVE IInv'
    OBVIOUS
<1>1. RootInv /\ CallInv
    BY DEF IInv
<1>2. ASSUME NEW c \in CellIds, NEW o \in Objects, NEW t \in Terms,
             RootGrant(c, o, t)
      PROVE  IInv'
    <2>1. ~Locked /\ UNCHANGED call
        BY <1>2 DEF RootGrant
    <2>2. QED
        BY <2>1, <1>1, <1>2, GrantStep, UnlockedStep DEF IInv
<1>3. ASSUME NEW i \in 1..Len(table), RootRevokeCap(i)
      PROVE  IInv'
    <2>1. ~Locked /\ UNCHANGED call
        BY <1>3 DEF RootRevokeCap
    <2>2. QED
        BY <2>1, <1>1, <1>3, RevokeCapStep, UnlockedStep DEF IInv
<1>4. ASSUME NEW i \in 1..Len(table), RootReap(i)
      PROVE  IInv'
    <2>1. ~Locked /\ UNCHANGED call
        BY <1>4 DEF RootReap
    <2>2. QED
        BY <2>1, <1>1, <1>4, ReapStep, UnlockedStep DEF IInv
<1>5. ASSUME NEW o \in Objects, RootRevokeGrant(o)
      PROVE  IInv'
    <2>1. ~Locked /\ UNCHANGED call
        BY <1>5 DEF RootRevokeGrant
    <2>2. QED
        BY <2>1, <1>1, <1>5, RevokeGrantStep, UnlockedStep DEF IInv
<1>6. ASSUME NEW i \in 1..Len(table), NEW f \in InlineFrames,
             NEW o \in Offsets, CellSend(i, f, o)
      PROVE  IInv'
    <2>1. message = NoMessage /\ UNCHANGED call
        BY <1>6 DEF CellSend
    <2>2. QED
        BY <2>1, <1>1, <1>6, SendStep, SendUnlocked, UnlockedStep DEF IInv
<1>7. CASE \E forged \in Forged : CellForge(forged)
    <2>1. message = NoMessage /\ UNCHANGED call
        BY <1>7 DEF CellForge
    <2>2. QED
        BY <2>1, <1>1, <1>7, OtherRootSteps, SendUnlocked, UnlockedStep DEF IInv
<1>8. CASE Drop
    <2>1. ~Locked /\ UNCHANGED call
        BY <1>8 DEF Drop
    <2>2. QED
        BY <2>1, <1>1, <1>8, OtherRootSteps, UnlockedStep DEF IInv
<1>9. CASE Tick \/ (\E o \in Objects : CellScribble(o)) \/ UNCHANGED vars
    <2>1. UNCHANGED <<table, message, call>>
        BY <1>9 DEF Tick, CellScribble, vars
    <2>2. QED
        BY <2>1, <1>1, <1>9, OtherRootSteps, QuietStep DEF IInv
<1>10. CASE \E s \in Sessions, o \in {0, Align} : RootCall(s, o)
    BY <1>1, <1>10, OtherRootSteps, CallStep DEF IInv
<1>11. CASE Submit \/ ToInline
    BY <1>1, <1>11, OtherRootSteps, AnswerStep DEF IInv
<1>12. CASE RootUnlock
    BY <1>1, <1>12, OtherRootSteps, UnlockStep DEF IInv
<1>13. QED
    BY <1>2, <1>3, <1>4, <1>5, <1>6, <1>7, <1>8, <1>9, <1>10, <1>11, <1>12
    DEF Next

-----------------------------------------------------------------------------
(* What follows from it.                                                   *)

LEMMA NamedIsMatched ==
    ASSUME Snapped, Locked
    PROVE  Named = Matches(message.header, call.snapshots, message.cell)
<1>1. /\ Len(call.snapshots) = Len(table)
      /\ \A i \in 1..Len(table) : call.snapshots[i].entry = table[i]
    BY DEF Snapped
<1>2. QED
    BY <1>1 DEF Named, Matches

LEMMA DeliveredInForce ==
    ASSUME IInv, Delivered # <<>>
    PROVE  /\ message.header.opcode = VF_SGPU_SUBMIT_COMMAND_LIST
           /\ message.cell = call.session.caller_cell
           /\ message.header.object = call.session.endpoint_handle
           /\ \E i \in 1..Len(table) :
                 /\ Named = {i}
                 /\ EntryError(message.header, table[i], {"read"}, call.now)
                       = "ok"
                 /\ WindowError(message.header, call.snapshots[i]) = "ok"
                 /\ Delivered = Window(message.header, call.snapshots[i])
<1> DEFINE h == message.header
<1>1. call.phase \in {"submitted", "converted"}
    BY DEF Delivered
<1>2. CallError = "ok" /\ CallPayload # <<>>
    BY <1>1 DEF IInv, CallInv, Authorized
<1>3. /\ h.payload_bytes # 0
      /\ Delivered = Window(h, Granted(h, call.snapshots, message.cell))
    BY <1>1, <1>2 DEF CallPayload, AuthorizedPayload, IInv, CallInv, Authorized
<1>4. AuthorizeError(call.session, h, call.snapshots, message.cell, call.now)
         = "ok"
    BY <1>2 DEF CallError
<1>5. /\ h.opcode = VF_SGPU_SUBMIT_COMMAND_LIST
      /\ message.cell = call.session.caller_cell
      /\ h.object = call.session.endpoint_handle
      /\ PayloadGrantError(h, call.snapshots, message.cell, {"read"}, call.now)
            = "ok"
      /\ WindowError(h, Granted(h, call.snapshots, message.cell)) = "ok"
    BY <1>3, <1>4, AuthorizedMessage
<1>6. PICK i \in 1..Len(call.snapshots) :
          /\ Matches(h, call.snapshots, message.cell) = {i}
          /\ Granted(h, call.snapshots, message.cell) = call.snapshots[i]
          /\ EntryError(h, call.snapshots[i].entry, {"read"}, call.now) = "ok"
    BY <1>3, <1>5, OneMatch
<1>7. Locked /\ Snapped
    BY <1>1 DEF Locked, IInv, CallInv
<1>8. Named = {i}
    BY <1>6, <1>7, NamedIsMatched
<1>9. i \in 1..Len(table) /\ call.snapshots[i].entry = table[i]
    BY <1>7 DEF Snapped
<1>10. QED
    BY <1>3, <1>5, <1>6, <1>8, <1>9

LEMMA InvAuthority == IInv => OnlyCurrentAuthority
<1> SUFFICES ASSUME IInv, Delivered # <<>> PROVE OnlyCurrentAuthority
    BY DEF OnlyCurrentAuthority
<1>1. /\ message.header.opcode = VF_SGPU_SUBMIT_COMMAND_LIST
      /\ message.cell = call.session.caller_cell
      /\ message.header.object = call.session.endpoint_handle
    BY DeliveredInForce
<1>2. PICK i \in 1..Len(table) :
          /\ Named = {i}
          /\ EntryError(message.header, table[i], {"read"}, call.now) = "ok"
    BY DeliveredInForce
<1>3. Cardinality(Named) = 1
    BY <1>2, FS_Singleton
<1>4. /\ Handle(table[i].cap.generation, table[i].cap.slot)
            = message.header.payload_grant
      /\ table[i].cap.state = VF_CAP_LIVE /\ table[i].state = VF_GRANT_LIVE
      /\ "read" \in table[i].cap.rights
      /\ table[i].cap.rights \subseteq AllRights
      /\ ~(call.now < table[i].cap.valid_from)
      /\ ~(call.now >= table[i].cap.expires_at)
    BY <1>2, EntryInForce
<1>5. table[i].cap.valid_from \in Nat /\ table[i].cap.expires_at \in Nat
    <2>1. table[i].cap \in Caps
        BY EntryTyped DEF IInv, RootInv
    <2>2. QED
        BY <2>1, RootAssumption DEF Caps
<1>6. call.now \in Nat
    <2>1. Locked
        BY DEF Delivered, Locked
    <2>2. QED
        BY <2>1 DEF IInv, CallInv, Snapped
<1>7. call.now \in table[i].cap.valid_from..(table[i].cap.expires_at - 1)
    BY <1>4, <1>5, <1>6
<1>8. QED
    BY <1>1, <1>2, <1>3, <1>4, <1>7 DEF OnlyCurrentAuthority

LEMMA InvFresh == IInv => NoStaleHandle
<1> SUFFICES ASSUME IInv, Delivered # <<>>, message.object # NoObject,
                    NEW j \in Named
             PROVE  table[j].cap.object_id = message.object
    BY DEF NoStaleHandle
<1>1. PICK i \in 1..Len(table) :
          /\ Named = {i}
          /\ EntryError(message.header, table[i], {"read"}, call.now) = "ok"
    BY DeliveredInForce
<1>2. j = i /\ table[j].cap.holder_cell = message.cell
    BY <1>1 DEF Named
<1>3. Handle(table[i].cap.generation, table[i].cap.slot)
         = message.header.payload_grant
    BY <1>1, EntryInForce
<1>4. table[i].cap.slot = Slot /\ table[i].cap.generation \in Nat
    <2>1. table[i].cap \in Caps
        BY EntryTyped DEF IInv, RootInv
    <2>2. QED
        BY <2>1 DEF Caps
<1>5. PICK k \in 1..generation[message.cell] :
          /\ message.header.payload_grant = Handle(k, Slot)
          /\ \A m \in 1..Len(table) :
                /\ table[m].cap.holder_cell = message.cell
                /\ table[m].cap.generation = k
                => table[m].cap.object_id = message.object
    BY DEF IInv, RootInv, Meant
<1>6. k \in Nat
    BY DEF IInv, RootInv, Meant
<1>7. table[i].cap.generation = k
    BY <1>3, <1>4, <1>5, <1>6, HandleInjective
<1>8. QED
    BY <1>2, <1>5, <1>7

\* The window of a message is as long as declared and lies where it says.
LEMMA WindowExact ==
    ASSUME NEW h, NEW snapshot,
           h.payload_offset \in Nat, h.payload_bytes \in Nat,
           snapshot.snapshot_offset \in Nat,
           WindowError(h, snapshot) = "ok"
    PROVE  /\ Len(Window(h, snapshot)) = h.payload_bytes
           /\ \A k \in 1..h.payload_bytes :
                 Window(h, snapshot)[k] =
                    snapshot.data[h.payload_offset + k
                                  - snapshot.snapshot_offset]
<1> DEFINE m == WindowStart(h, snapshot) + 1
           n == WindowEnd(h, snapshot)
           S == {snapshot.data[i] : i \in m..n}
<1>1. ~(h.payload_offset < snapshot.snapshot_offset)
    BY DEF WindowError
<1>2. /\ m = h.payload_offset - snapshot.snapshot_offset + 1
      /\ n = h.payload_offset - snapshot.snapshot_offset + h.payload_bytes
      /\ m \in Int /\ n \in Int
    BY DEF WindowStart, WindowEnd
<1>3. \A i \in m..n : snapshot.data[i] \in S
    OBVIOUS
<1>4. Window(h, snapshot) = SubSeq(snapshot.data, m, n)
    BY DEF Window
<1> HIDE DEF m, n, S
<1>5. /\ Len(SubSeq(snapshot.data, m, n)) = IF m <= n THEN n - m + 1 ELSE 0
      /\ \A i \in 1..(n - m + 1) :
            SubSeq(snapshot.data, m, n)[i] = snapshot.data[m + i - 1]
    <2>1. m \in Int /\ n \in Int
        BY <1>2
    <2>2. QED
        BY ONLY <2>1, <1>3, SubSeqProperties
<1>6. n - m + 1 = h.payload_bytes
    BY <1>2
<1>7. Len(Window(h, snapshot)) = h.payload_bytes
    <2>1. (IF m <= n THEN n - m + 1 ELSE 0) = h.payload_bytes
        BY <1>2, <1>6
    <2>2. Len(SubSeq(snapshot.data, m, n)) = h.payload_bytes
        BY ONLY <2>1, <1>5
    <2>3. QED
        BY ONLY <2>2, <1>4
<1>8. ASSUME NEW k \in 1..h.payload_bytes
      PROVE  Window(h, snapshot)[k] =
                snapshot.data[h.payload_offset + k - snapshot.snapshot_offset]
    <2>1. m + k - 1 = h.payload_offset + k - snapshot.snapshot_offset
        BY <1>2
    <2>2. Window(h, snapshot)[k] = snapshot.data[m + k - 1]
        BY <1>4, <1>5, <1>6
    <2>3. QED
        BY <2>1, <2>2
<1>9. QED
    BY <1>7, <1>8

LEMMA InvBytes == IInv => DeliveredBytes
<1> SUFFICES ASSUME IInv, Delivered # <<>> PROVE DeliveredBytes
    BY DEF DeliveredBytes
<1> DEFINE h == message.header
<1>1. PICK i \in 1..Len(table) :
          /\ Named = {i}
          /\ EntryError(h, table[i], {"read"}, call.now) = "ok"
          /\ WindowError(h, call.snapshots[i]) = "ok"
          /\ Delivered = Window(h, call.snapshots[i])
    BY DeliveredInForce
<1>2. Locked
    BY DEF Delivered, Locked
<1>3. /\ h.payload_offset \in Nat /\ h.payload_bytes \in Nat
      /\ call.snapshots[i].snapshot_offset \in Nat
    BY <1>2 DEF IInv, RootInv, Sized, CallInv, Snapped
<1>4. /\ Len(Delivered) = h.payload_bytes
      /\ \A k \in 1..h.payload_bytes :
            Delivered[k] =
               call.snapshots[i].data[h.payload_offset + k
                                      - call.snapshots[i].snapshot_offset]
    BY <1>1, <1>3, WindowExact
<1>5. h.payload_bytes <= PayloadMax
    <2>1. call.phase \in {"submitted", "converted"}
        BY DEF Delivered
    <2>2. CallError = "ok"
        BY <2>1 DEF IInv, CallInv, Authorized
    <2>3. GrantHeaderError(h) = "ok"
        BY <2>2 DEF CallError, AuthorizeError
    <2>4. h.payload_bytes = 0 \/ ~(h.payload_bytes > PayloadMax)
        BY <2>3 DEF GrantHeaderError
    <2>5. QED
        BY <2>4, <1>3, WidthAssumption
<1>6. QED
    BY <1>1, <1>4, <1>5 DEF DeliveredBytes

\* Whatever the root and the cells do, no byte leaves the adapter without
\* authority in force in the root's table (authorize, submit, to_inline).
THEOREM AuthorityHolds == Spec => []OnlyCurrentAuthority
<1>1. Spec => []IInv
    BY InitIInv, NextIInv, PTL DEF Spec
<1>2. QED
    BY <1>1, InvAuthority, PTL

\* A message never reaches another object than the one its sender meant,
\* however often its slot was reused since (validate_payload_grant).
THEOREM HandlesStayFresh == Spec => []NoStaleHandle
<1>1. Spec => []IInv
    BY InitIInv, NextIInv, PTL DEF Spec
<1>2. QED
    BY <1>1, InvFresh, PTL

\* What is delivered is the declared part of the snapshot, of the declared
\* length, and no more than the payload limit (payload_window).
THEOREM BytesExact == Spec => []DeliveredBytes
<1>1. Spec => []IInv
    BY InitIInv, NextIInv, PTL DEF Spec
<1>2. QED
    BY <1>1, InvBytes, PTL

-----------------------------------------------------------------------------
(* The request a message carries, and the answer to it.                    *)

HeaderFields ==
    {"magic", "abi_major", "header_bytes", "message_bytes", "family",
     "opcode", "request_id", "object", "payload_grant", "payload_offset",
     "payload_bytes", "flags", "reserved0"}

\* A message made from a capability carries a valid frame of its cell, and its
\* payload lies in the object.
Sent(m) ==
    m.object # NoObject =>
        /\ m.frame \in InlineFrames
        /\ ValidateError(m.frame) = "ok"
        /\ m.header = GrantHeader(m.frame, m.header.payload_grant,
                                  m.header.payload_offset)
        /\ GrantHeaderError(m.header) = "ok"
        /\ m.header.payload_offset + Len(m.frame.payload) <= ObjectBytes

MessageInv == DOMAIN message.header = HeaderFields /\ Sent(message)

\* A snapshot holds its object from the snapshot's offset to the end.
Copied ==
    Locked => \A i \in 1..Len(table) :
        Len(call.snapshots[i].data) =
            IF call.snapshots[i].snapshot_offset + 1 <= ObjectBytes
            THEN ObjectBytes - (call.snapshots[i].snapshot_offset + 1) + 1
            ELSE 0

\* A call is refused, or converted, for what it was given.
Converted == InlineFrame(message.header, CallPayload)
Answered ==
    /\ call.phase = "returned" =>
          CallError # "ok" \/ ValidateError(Converted) # "ok"
    /\ call.phase = "converted" =>
          call.frame = Converted /\ ValidateError(Converted) = "ok"

AInv == MessageInv /\ Copied /\ Answered

\* A frame's header has the fields of a header, whatever their values.
LEMMA NamedFields ==
    ASSUME NEW h \in VfMsgHeader
    PROVE  DOMAIN h = HeaderFields
BY DEF VfMsgHeader, HeaderFields

\* What validate has checked of a frame.
LEMMA ValidFrame ==
    ASSUME NEW f, f.header \in VfMsgHeader, ValidateError(f) = "ok"
    PROVE  /\ f.header.family = VF_FAMILY_SGPU
           /\ Len(f.payload) = f.header.payload_bytes
           /\ MsgBytes + f.header.payload_bytes <= UsizeMax
<1> DEFINE h == f.header
<1> USE WidthAssumption DEF U32, U64, MsgBytes, VfMsgHeader
<1>1. FrameLayoutError(h) = "ok"
    BY DEF ValidateError
<1>2. ShapeError(h) = "ok" /\ h.family = VF_FAMILY_SGPU
    BY <1>1 DEF FrameLayoutError
<1>3. PayloadEndError(h) = "ok" /\ IndexError(h) = "ok"
    BY <1>1, <1>2 DEF FrameLayoutError
<1>4. h.message_bytes <= UsizeMax
    BY <1>3 DEF IndexError
<1>5. PayloadEnd(h) <= h.message_bytes - MsgBytes
    BY <1>3 DEF PayloadEndError, PayloadEnd
<1>6. FrameEnd(h) - FrameStart(h) = h.payload_bytes
    BY DEF FrameEnd, FrameStart, PayloadEnd
<1>7. Len(f.payload) = FrameEnd(h) - FrameStart(h)
    BY <1>1 DEF ValidateError
<1>8. /\ h.message_bytes \in Nat /\ h.payload_offset \in Nat
      /\ h.payload_bytes \in Nat
    OBVIOUS
<1>9. MsgBytes + h.payload_bytes <= UsizeMax
    BY ONLY <1>4, <1>5, <1>8, UsizeMax \in Nat DEF PayloadEnd, MsgBytes
<1>10. QED
    BY <1>2, <1>6, <1>7, <1>9

\* The inline form of a granted message that the header profile accepts is a
\* valid frame, if its payload is as long as declared and it fits an index.
LEMMA InlineFormValid ==
    ASSUME NEW h, DOMAIN h = HeaderFields, NEW payload,
           GrantHeaderError(h) = "ok", h.family = VF_FAMILY_SGPU,
           h.payload_bytes \in Nat, Len(payload) = h.payload_bytes,
           MsgBytes + h.payload_bytes <= UsizeMax
    PROVE  ValidateError(InlineFrame(h, payload)) = "ok"
<1> DEFINE b == InlineFrame(h, payload).header
<1> USE WidthAssumption DEF MsgBytes
<1>1. /\ b.magic = h.magic /\ b.abi_major = h.abi_major
      /\ b.header_bytes = h.header_bytes /\ b.family = h.family
      /\ b.payload_bytes = h.payload_bytes
      /\ b.message_bytes = MsgBytes + h.payload_bytes
      /\ b.payload_offset = 0
    BY DEF InlineFrame, HeaderFields
<1>2. /\ h.magic = VF_MSG_MAGIC /\ h.abi_major = VF_ABI_MAJOR
      /\ h.header_bytes = MsgBytes
    BY DEF GrantHeaderError
<1>3. h.payload_bytes <= PayloadMax
    BY DEF GrantHeaderError
<1>4. Len(InlineFrame(h, payload).payload) = h.payload_bytes
    BY DEF InlineFrame
<1> HIDE DEF b
<1>5. ShapeError(b) = "ok"
    BY <1>1, <1>2, <1>3 DEF ShapeError, VF_FAMILY_SGPU, Families
<1>6. PayloadEnd(b) = h.payload_bytes
    BY <1>1 DEF PayloadEnd
<1>7. PayloadEndError(b) = "ok"
    BY <1>1, <1>3, <1>6 DEF PayloadEndError
<1>8. FrameStart(b) = MsgBytes /\ FrameEnd(b) = MsgBytes + h.payload_bytes
    BY <1>1, <1>6 DEF FrameStart, FrameEnd
<1>9. IndexError(b) = "ok"
    BY <1>1, <1>3, <1>8 DEF IndexError
<1>10. FrameLayoutError(b) = "ok"
    BY <1>1, <1>3, <1>5, <1>7, <1>9 DEF FrameLayoutError
<1>11. QED
    BY <1>4, <1>8, <1>10 DEF ValidateError, b

-----------------------------------------------------------------------------
(* Every step keeps it.                                                    *)

LEMMA MessageStep ==
    ASSUME RootInv, MessageInv, [Next]_vars
    PROVE  MessageInv'
<1>1. CASE UNCHANGED message
    BY <1>1 DEF MessageInv, Sent
<1>2. NoMessage.object = NoObject /\ DOMAIN NoMessage.header = HeaderFields
    BY DEF NoMessage, NewHeader, HeaderFields
<1>3. CASE Drop
    BY <1>2, <1>3 DEF Drop, MessageInv, Sent
<1>4. ASSUME NEW forged \in Forged, CellForge(forged)
      PROVE  MessageInv'
    <2>1. message' = [NoMessage EXCEPT !.cell = forged.cell,
                                       !.header = forged.header]
        BY <1>4 DEF CellForge
    <2>2. message'.object = NoObject /\ message'.header = forged.header
        BY <2>1 DEF NoMessage
    <2>3. forged.header \in VfMsgHeader
        BY RootAssumption
    <2>4. QED
        BY <2>2, <2>3, NamedFields DEF MessageInv, Sent
<1>5. ASSUME NEW i \in 1..Len(table), NEW f \in InlineFrames,
             NEW offset \in Offsets, CellSend(i, f, offset)
      PROVE  MessageInv'
    <2> DEFINE handle == Handle(table[i].cap.generation, table[i].cap.slot)
    <2>1. /\ message' = [cell |-> table[i].cap.holder_cell,
                         object |-> table[i].cap.object_id, frame |-> f,
                         header |-> GrantHeader(f, handle, offset)]
          /\ InlineToGrantError(f, handle, offset) = "ok"
          /\ offset + Len(f.payload) <= ObjectBytes
        BY <1>5 DEF CellSend
    <2> HIDE DEF handle
    <2>2. /\ message'.frame = f
          /\ message'.header = GrantHeader(f, handle, offset)
        BY <2>1
    <2>3. DOMAIN f.header = HeaderFields
        BY RootAssumption, NamedFields
    <2>4. /\ GrantHeader(f, handle, offset).payload_grant = handle
          /\ GrantHeader(f, handle, offset).payload_offset = offset
          /\ DOMAIN GrantHeader(f, handle, offset) = HeaderFields
        BY <2>3 DEF GrantHeader, HeaderFields
    <2>5. /\ ValidateError(f) = "ok"
          /\ GrantHeaderError(GrantHeader(f, handle, offset)) = "ok"
        BY <2>1 DEF InlineToGrantError
    <2>6. QED
        BY <2>1, <2>2, <2>4, <2>5 DEF MessageInv, Sent
<1>6. CASE ~ \/ Drop
             \/ \E forged \in Forged : CellForge(forged)
             \/ \E i \in 1..Len(table), f \in InlineFrames, o \in Offsets :
                   CellSend(i, f, o)
    <2>1. UNCHANGED message
        BY <1>6 DEF Next, RootGrant, RootRevokeCap, RootReap, RootRevokeGrant,
                    Tick, CellScribble, RootCall, Submit, ToInline, RootUnlock,
                    vars
    <2>2. QED
        BY <2>1, <1>1
<1>7. QED
    BY <1>3, <1>4, <1>5, <1>6

\* During a call only the adapter moves what the call was given, and it changes
\* none of its inputs.
LEMMA LockedStep ==
    ASSUME IInv, [Next]_vars, Locked'
    PROVE  \/ \E s \in Sessions, o \in {0, Align} : RootCall(s, o)
           \/ /\ Locked
              /\ UNCHANGED <<table, message>>
              /\ \/ Submit \/ ToInline \/ UNCHANGED call
<1>1. CASE Submit \/ ToInline
    BY <1>1 DEF Submit, ToInline, Locked
<1>2. CASE RootUnlock
    BY <1>2 DEF RootUnlock, NoCall, Locked
<1>3. CASE \/ \E c \in CellIds, o \in Objects, t \in Terms : RootGrant(c, o, t)
           \/ \E i \in 1..Len(table) : RootRevokeCap(i) \/ RootReap(i)
           \/ \E o \in Objects : RootRevokeGrant(o)
           \/ Drop
    <2>1. ~Locked /\ UNCHANGED call
        BY <1>3 DEF RootGrant, RootRevokeCap, RootReap, RootRevokeGrant, Drop
    <2>2. QED
        BY <2>1 DEF Locked
<1>4. CASE \/ \E i \in 1..Len(table), f \in InlineFrames, o \in Offsets :
                 CellSend(i, f, o)
           \/ \E forged \in Forged : CellForge(forged)
    <2>1. message = NoMessage /\ UNCHANGED call
        BY <1>4 DEF CellSend, CellForge
    <2>2. ~Locked
        BY <2>1, SendUnlocked DEF IInv
    <2>3. QED
        BY <2>1, <2>2 DEF Locked
<1>5. CASE Tick \/ (\E o \in Objects : CellScribble(o)) \/ UNCHANGED vars
    <2>1. UNCHANGED <<table, message, call>>
        BY <1>5 DEF Tick, CellScribble, vars
    <2>2. QED
        BY <2>1 DEF Locked
<1>6. QED
    BY <1>1, <1>2, <1>3, <1>4, <1>5 DEF Next

LEMMA CopyStep ==
    ASSUME IInv, NEW s \in Sessions, NEW offset \in {0, Align},
           RootCall(s, offset)
    PROVE  Copied'
<1> DEFINE data(i) == SubSeq(contents[table[i].cap.object_id], offset + 1,
                             ObjectBytes)
           shots == [i \in 1..Len(table) |->
                       [entry |-> table[i], snapshot_offset |-> offset,
                        data |-> data(i)]]
<1>1. call' = [NoCall EXCEPT !.phase = "called", !.session = s,
                             !.now = clock, !.snapshots = shots]
    BY DEF RootCall
<1> HIDE DEF shots
<1>2. call'.snapshots = shots /\ UNCHANGED table
    BY <1>1 DEF NoCall, RootCall
<1>3. offset \in Nat /\ ObjectBytes \in Nat
    BY PolicyAssumption, RootAssumption
<1>4. ASSUME NEW i \in 1..Len(table)
      PROVE  Len(data(i)) = IF offset + 1 <= ObjectBytes
                            THEN ObjectBytes - (offset + 1) + 1 ELSE 0
    <2> DEFINE c == contents[table[i].cap.object_id]
               m == offset + 1
               S == {c[k] : k \in m..ObjectBytes}
    <2>1. \A k \in m..ObjectBytes : c[k] \in S
        OBVIOUS
    <2>2. m \in Int /\ ObjectBytes \in Int
        BY <1>3
    <2>3. data(i) = SubSeq(c, m, ObjectBytes)
        OBVIOUS
    <2> HIDE DEF c, m, S, data
    <2>4. Len(SubSeq(c, m, ObjectBytes)) =
             IF m <= ObjectBytes THEN ObjectBytes - m + 1 ELSE 0
        BY ONLY <2>1, <2>2, SubSeqProperties
    <2>5. Len(data(i)) = IF m <= ObjectBytes THEN ObjectBytes - m + 1 ELSE 0
        BY <2>3, <2>4
    <2>6. QED
        BY <2>5 DEF m
<1>5. \A i \in 1..Len(table) :
         shots[i].snapshot_offset = offset /\ shots[i].data = data(i)
    BY DEF shots
<1> HIDE DEF data
<1>6. QED
    BY <1>2, <1>4, <1>5 DEF Copied

LEMMA AnsweredStep ==
    ASSUME IInv, Submit \/ ToInline
    PROVE  Answered' /\ UNCHANGED call.snapshots
<1>1. UNCHANGED <<table, message>> /\ call.phase = "called"
    BY DEF Submit, ToInline
<1>2. DOMAIN call = {"phase", "session", "snapshots", "now", "err",
                     "payload", "frame"}
    BY DEF IInv, CallInv, CallShape
<1>3. CallError' = CallError /\ Converted' = Converted
      <=> /\ AuthorizeError(call'.session, message.header, call'.snapshots,
                            message.cell, call'.now) = CallError
          /\ InlineFrame(message.header,
                         AuthorizedPayload(message.header, call'.snapshots,
                                           message.cell)) = Converted
    BY <1>1 DEF CallError, CallPayload, Converted
<1>4. ASSUME UNCHANGED <<call.session, call.snapshots, call.now>>
      PROVE  CallError' = CallError /\ Converted' = Converted
    BY <1>3, <1>4 DEF CallError, CallPayload, Converted
<1>5. CASE Refused
    <2>1. /\ call'.phase = "returned" /\ CallError # "ok"
          /\ UNCHANGED <<call.session, call.snapshots, call.now>>
        BY <1>2, <1>5 DEF Refused
    <2>2. QED
        BY <2>1, <1>4 DEF Answered
<1>6. CASE Submit /\ ~Refused
    <2>1. PICK err \in {"ok", "Submission"} :
              call' = [call EXCEPT !.phase = "submitted", !.err = err,
                                   !.payload = CallPayload]
        BY <1>6 DEF Submit
    <2>2. call'.phase = "submitted" /\ UNCHANGED call.snapshots
        BY <2>1, <1>2
    <2>3. QED
        BY <2>2 DEF Answered
<1>7. CASE ToInline /\ ~Refused
    <2>1. call' = IF ValidateError(Converted) = "ok"
                  THEN [call EXCEPT !.phase = "converted", !.err = "ok",
                                    !.frame = Converted]
                  ELSE [call EXCEPT !.phase = "returned",
                                    !.err = ValidateError(Converted)]
        BY <1>7 DEF ToInline, Converted
    <2>2. CASE ValidateError(Converted) = "ok"
        <3>1. /\ call'.phase = "converted" /\ call'.frame = Converted
              /\ UNCHANGED <<call.session, call.snapshots, call.now>>
            BY <2>1, <2>2, <1>2
        <3>2. QED
            BY <3>1, <2>2, <1>4 DEF Answered
    <2>3. CASE ValidateError(Converted) # "ok"
        <3>1. /\ call'.phase = "returned"
              /\ UNCHANGED <<call.session, call.snapshots, call.now>>
            BY <2>1, <2>3, <1>2
        <3>2. QED
            BY <3>1, <2>3, <1>4 DEF Answered
    <2>4. QED
        BY <2>2, <2>3
<1>8. QED
    BY <1>5, <1>6, <1>7

LEMMA InitAInv == Init => AInv
BY DEF Init, AInv, MessageInv, Sent, Copied, Answered, Locked, NoMessage,
       NoCall, NewHeader, HeaderFields

LEMMA NextAInv == IInv /\ AInv /\ [Next]_vars => AInv'
<1> SUFFICES ASSUME IInv, AInv, [Next]_vars PROVE AInv'
    OBVIOUS
<1>1. MessageInv'
    BY MessageStep DEF AInv, IInv
<1>2. CASE ~Locked'
    BY <1>1, <1>2 DEF AInv, Copied, Answered, Locked
<1>3. CASE \E s \in Sessions, o \in {0, Align} : RootCall(s, o)
    <2>1. Copied'
        BY <1>3, CopyStep
    <2>2. call'.phase = "called"
        BY <1>3 DEF RootCall, NoCall
    <2>3. QED
        BY <1>1, <2>1, <2>2 DEF AInv, Answered
<1>4. CASE Locked /\ UNCHANGED <<table, message>> /\ UNCHANGED call
    BY <1>1, <1>4 DEF AInv, Copied, Answered, Locked, CallError, CallPayload,
                      Converted
<1>5. CASE Locked /\ UNCHANGED <<table, message>> /\ (Submit \/ ToInline)
    <2>1. Answered' /\ UNCHANGED call.snapshots
        BY <1>5, AnsweredStep
    <2>2. Copied'
        BY <2>1, <1>5 DEF AInv, Copied
    <2>3. QED
        BY <1>1, <2>1, <2>2 DEF AInv
<1>6. QED
    BY <1>2, <1>3, <1>4, <1>5, LockedStep

-----------------------------------------------------------------------------
(* What a call that authorizes a message has found.                        *)

\* With a payload, the bytes authorized are the window of the one entry the
\* handle may name.
LEMMA AuthorizedBytes ==
    ASSUME IInv, Locked, CallError = "ok", message.header.payload_bytes # 0
    PROVE  \E i \in 1..Len(table) :
              /\ Named = {i}
              /\ WindowError(message.header, call.snapshots[i]) = "ok"
              /\ CallPayload = Window(message.header, call.snapshots[i])
<1> DEFINE h == message.header
<1>1. AuthorizeError(call.session, h, call.snapshots, message.cell, call.now)
         = "ok"
    BY DEF CallError
<1>2. /\ PayloadGrantError(h, call.snapshots, message.cell, {"read"}, call.now)
            = "ok"
      /\ WindowError(h, Granted(h, call.snapshots, message.cell)) = "ok"
    BY <1>1, AuthorizedMessage
<1>3. PICK i \in 1..Len(call.snapshots) :
          /\ Matches(h, call.snapshots, message.cell) = {i}
          /\ Granted(h, call.snapshots, message.cell) = call.snapshots[i]
    BY <1>2, OneMatch
<1>4. Snapped /\ Len(call.snapshots) = Len(table)
    BY DEF IInv, CallInv, Snapped
<1>5. Named = {i}
    BY <1>3, <1>4, NamedIsMatched
<1>6. CallPayload = Window(h, call.snapshots[i])
    BY <1>3 DEF CallPayload, AuthorizedPayload
<1>7. QED
    BY <1>2, <1>3, <1>4, <1>5, <1>6

\* A place in a payload, in its window, and in the object.
LEMMA WindowArithmetic ==
    ASSUME NEW offset \in Nat, NEW low \in Nat, NEW n \in Nat, NEW size \in Nat,
           NEW k \in 1..n, low <= offset, offset + n <= size
    PROVE  /\ offset + k - low \in 1..(size - (low + 1) + 1)
           /\ low + 1 + (offset + k - low) - 1 = offset + k
           /\ offset + k \in 1..size
           /\ offset + k - offset = k
OBVIOUS

\* A window is a sequence.
LEMMA WindowFunction ==
    ASSUME NEW h, NEW shot,
           h.payload_offset \in Nat, h.payload_bytes \in Nat,
           shot.snapshot_offset \in Nat, WindowError(h, shot) = "ok"
    PROVE  \E S : Window(h, shot) \in [1..h.payload_bytes -> S]
<1> DEFINE first == WindowStart(h, shot) + 1
           last == WindowEnd(h, shot)
           S == {shot.data[i] : i \in first..last}
<1>1. first \in Int /\ last \in Int
    BY DEF WindowStart, WindowEnd
<1>2. \A i \in first..last : shot.data[i] \in S
    OBVIOUS
<1>3. Window(h, shot) = SubSeq(shot.data, first, last)
    BY DEF Window
<1> HIDE DEF first, last, S
<1>4. SubSeq(shot.data, first, last) \in Seq(S)
    BY ONLY <1>1, <1>2, SubSeqProperties
<1>5. Len(Window(h, shot)) = h.payload_bytes
    BY WindowExact
<1>6. Window(h, shot) \in [1..Len(Window(h, shot)) -> S]
    BY <1>3, <1>4, LenProperties
<1>7. QED
    BY <1>5, <1>6

\* The window of a snapshot is the part of the memory that the header names.
LEMMA WindowOfMemory ==
    ASSUME NEW h, NEW shot, NEW memory,
           h.payload_offset \in Nat, h.payload_bytes \in Nat,
           shot.snapshot_offset \in Nat, WindowError(h, shot) = "ok",
           shot.data = SubSeq(memory, shot.snapshot_offset + 1, ObjectBytes),
           h.payload_offset + h.payload_bytes <= ObjectBytes
    PROVE  \A k \in 1..h.payload_bytes :
              Window(h, shot)[k] = memory[h.payload_offset + k]
<1>1. PICK offset \in Nat, n \in Nat, low \in Nat :
          /\ h.payload_offset = offset /\ h.payload_bytes = n
          /\ shot.snapshot_offset = low
    OBVIOUS
<1> DEFINE m == low + 1
           S == {memory[x] : x \in m..ObjectBytes}
<1>2. m \in Int /\ ObjectBytes \in Int /\ ObjectBytes \in Nat
    BY RootAssumption
<1>3. \A x \in m..ObjectBytes : memory[x] \in S
    OBVIOUS
<1>4. low <= offset /\ offset + n <= ObjectBytes
    BY <1>1 DEF WindowError
<1>5. shot.data = SubSeq(memory, m, ObjectBytes)
    BY <1>1
<1>6. ASSUME NEW k \in 1..n
      PROVE  shot.data[offset + k - low] = memory[offset + k]
    <2> DEFINE j == offset + k - low
    <2>1. /\ j \in 1..(ObjectBytes - m + 1)
          /\ m + j - 1 = offset + k
        BY <1>2, <1>4, WindowArithmetic
    <2> HIDE DEF m, S, j
    <2>2. \A x \in 1..(ObjectBytes - m + 1) :
             SubSeq(memory, m, ObjectBytes)[x] = memory[m + x - 1]
        BY ONLY <1>2, <1>3, SubSeqProperties
    <2>3. SubSeq(memory, m, ObjectBytes)[j] = memory[m + j - 1]
        BY ONLY <2>1, <2>2
    <2>4. SubSeq(memory, m, ObjectBytes)[j] = memory[offset + k]
        BY ONLY <2>1, <2>3
    <2>5. shot.data[j] = memory[offset + k]
        BY <2>4, <1>5
    <2>6. QED
        BY <2>5 DEF j
<1>7. \A k \in 1..h.payload_bytes :
         Window(h, shot)[k] =
            shot.data[h.payload_offset + k - shot.snapshot_offset]
    BY WindowExact
<1>8. ASSUME NEW k \in 1..n
      PROVE  Window(h, shot)[k] = memory[offset + k]
    <2>1. k \in 1..h.payload_bytes
        BY <1>1
    <2>2. Window(h, shot)[k] =
             shot.data[h.payload_offset + k - shot.snapshot_offset]
        BY <1>7, <2>1
    <2>3. QED
        BY <2>2, <1>1, <1>6
<1>9. QED
    BY <1>1, <1>8

\* Published memory holds the payload at its offset.
LEMMA PublishedPayload ==
    ASSUME NEW payload, NEW offset \in Nat, NEW n \in Nat, Len(payload) = n,
           offset + n <= ObjectBytes, NEW k \in 1..n
    PROVE  Published(payload, offset)[offset + k] = payload[k]
<1>1. offset + k - offset = k /\ offset + k \in 1..ObjectBytes
    BY RootAssumption
<1>2. Published(payload, offset)[offset + k] =
         IF offset + k - offset \in 1..Len(payload)
         THEN payload[offset + k - offset] ELSE Zero
    BY <1>1 DEF Published
<1>3. QED
    BY <1>1, <1>2

LEMMA InvConversion == IInv /\ AInv => ConversionKeepsRequest
<1> SUFFICES ASSUME IInv, AInv, call.phase = "converted"
             PROVE  ConversionKeepsRequest
    BY DEF ConversionKeepsRequest
<1> DEFINE h == message.header
           sent == message.frame
           back == call.frame
<1>1. /\ back = InlineFrame(h, CallPayload) /\ ValidateError(back) = "ok"
      /\ DOMAIN h = HeaderFields
    BY DEF AInv, Answered, Converted, MessageInv
<1>2. CallError = "ok" /\ Locked
    BY DEF IInv, CallInv, Authorized, Locked
<1>3. h.payload_bytes \in Nat /\ h.payload_offset \in Nat
    BY DEF IInv, RootInv, Sized
<1>4. /\ back.header.message_bytes = MsgBytes + h.payload_bytes
      /\ back.header.payload_bytes = h.payload_bytes
      /\ \A field \in {"family", "opcode", "request_id", "object"} :
            back.header[field] = h[field]
      /\ back.payload = CallPayload
    <2>1. ASSUME NEW g, g = InlineFrame(h, CallPayload)
          PROVE  /\ g.header.message_bytes = MsgBytes + h.payload_bytes
                 /\ g.header.payload_bytes = h.payload_bytes
                 /\ g.header.family = h.family
                 /\ g.header.opcode = h.opcode
                 /\ g.header.request_id = h.request_id
                 /\ g.header.object = h.object
                 /\ g.payload = CallPayload
        BY <1>1, <2>1 DEF InlineFrame, HeaderFields
    <2>2. QED
        BY <1>1, <2>1
<1>5. ASSUME NEW s \in Sessions, NEW c \in CellIds
      PROVE  \/ AuthorizeError(s, back.header, call.snapshots, c, call.now)
                   # "ok"
             \/ AuthorizedPayload(back.header, call.snapshots, c) = <<>>
    <2>1. CASE h.payload_bytes = 0
        BY <2>1, <1>4 DEF AuthorizedPayload
    <2>2. CASE h.payload_bytes # 0
        <3>1. back.header.message_bytes # MsgBytes
            BY <2>2, <1>3, <1>4 DEF MsgBytes
        <3>2. GrantHeaderError(back.header) # "ok"
            BY <3>1 DEF GrantHeaderError
        <3>3. QED
            BY <3>2 DEF AuthorizeError
    <2>3. QED
        BY <2>1, <2>2
<1>6. ASSUME message.object # NoObject
      PROVE  /\ \A field \in {"family", "opcode", "request_id", "object"} :
                   back.header[field] = sent.header[field]
             /\ \/ back.payload = sent.payload
                \/ \E i \in Named :
                      call.snapshots[i].data #
                         SubSeq(Published(sent.payload, h.payload_offset),
                                call.snapshots[i].snapshot_offset + 1,
                                ObjectBytes)
    <2>1. /\ sent \in InlineFrames /\ ValidateError(sent) = "ok"
          /\ h = GrantHeader(sent, h.payload_grant, h.payload_offset)
          /\ h.payload_offset + Len(sent.payload) <= ObjectBytes
        BY <1>6 DEF AInv, MessageInv, Sent
    <2>2. sent.header \in VfMsgHeader
        BY <2>1, RootAssumption
    <2>3. /\ h.payload_bytes = sent.header.payload_bytes
          /\ \A field \in {"family", "opcode", "request_id", "object"} :
                h[field] = sent.header[field]
        <3>1. DOMAIN sent.header = HeaderFields
            BY <2>2, NamedFields
        <3>2. ASSUME NEW g, g = GrantHeader(sent, h.payload_grant,
                                            h.payload_offset)
              PROVE  /\ g.payload_bytes = sent.header.payload_bytes
                     /\ g.family = sent.header.family
                     /\ g.opcode = sent.header.opcode
                     /\ g.request_id = sent.header.request_id
                     /\ g.object = sent.header.object
            BY <3>1, <3>2 DEF GrantHeader, HeaderFields
        <3>3. QED
            BY <2>1, <3>2
    <2>4. Len(sent.payload) = h.payload_bytes
        BY <2>1, <2>2, <2>3, ValidFrame
    <2>5. sent.payload = [k \in 1..h.payload_bytes |-> sent.payload[k]]
        BY <2>1, <2>4, RootAssumption
    <2>6. CASE h.payload_bytes = 0
        <3>1. CallPayload = <<>>
            BY <2>6 DEF CallPayload, AuthorizedPayload
        <3>2. sent.payload = <<>>
            BY <2>5, <2>6
        <3>3. QED
            BY <3>1, <3>2, <1>4, <2>3
    <2>7. CASE h.payload_bytes # 0
        <3>1. PICK i \in 1..Len(table) :
                  /\ Named = {i}
                  /\ WindowError(h, call.snapshots[i]) = "ok"
                  /\ CallPayload = Window(h, call.snapshots[i])
            BY <2>7, <1>2, AuthorizedBytes
        <3> DEFINE shot == call.snapshots[i]
                   low == shot.snapshot_offset
                   memory == Published(sent.payload, h.payload_offset)
        <3>2. low \in Nat
            BY <1>2 DEF IInv, CallInv, Snapped
        <3>3. SUFFICES ASSUME shot.data = SubSeq(memory, low + 1, ObjectBytes)
                       PROVE  CallPayload = sent.payload
            BY <3>1, <1>4, <2>3
        <3>4. /\ h.payload_offset + h.payload_bytes <= ObjectBytes
              /\ WindowError(h, shot) = "ok" /\ CallPayload = Window(h, shot)
            BY <2>1, <2>4, <3>1
        <3>5. \A k \in 1..h.payload_bytes :
                 memory[h.payload_offset + k] = sent.payload[k]
            BY <1>3, <2>4, <3>4, PublishedPayload
        <3> HIDE DEF memory
        <3>6. \A k \in 1..h.payload_bytes :
                 Window(h, shot)[k] = memory[h.payload_offset + k]
            BY <1>3, <3>2, <3>3, <3>4, WindowOfMemory
        <3>7. \E S : Window(h, shot) \in [1..h.payload_bytes -> S]
            BY <1>3, <3>2, <3>4, WindowFunction
        <3>8. \A k \in 1..h.payload_bytes : CallPayload[k] = sent.payload[k]
            BY <3>4, <3>5, <3>6
        <3>9. \E S : CallPayload \in [1..h.payload_bytes -> S]
            BY <3>4, <3>7
        <3> HIDE DEF h, sent
        <3>10. CallPayload = [k \in 1..h.payload_bytes |-> CallPayload[k]]
            BY ONLY <3>9
        <3>11. QED
            BY ONLY <3>8, <3>10, <2>5
    <2>8. QED
        BY <2>6, <2>7
<1>7. QED
    BY <1>1, <1>5, <1>6 DEF ConversionKeepsRequest

LEMMA InvServed == IInv /\ AInv => LiveMessageServed
<1> SUFFICES ASSUME IInv, AInv,
                    call.phase = "returned", message.object # NoObject,
                    Len(table) <= TableMax,
                    call.session.caller_cell = message.cell,
                    call.session.endpoint_handle = message.header.object,
                    message.header.opcode = VF_SGPU_SUBMIT_COMMAND_LIST,
                    Cardinality(Named) = 1,
                    \A i \in Named :
                       /\ Handle(table[i].cap.generation, table[i].cap.slot)
                             = message.header.payload_grant
                       /\ table[i].cap.state = VF_CAP_LIVE
                       /\ table[i].state = VF_GRANT_LIVE
                       /\ "read" \in table[i].cap.rights
                       /\ table[i].cap.rights \subseteq AllRights
                       /\ call.now \in table[i].cap.valid_from
                                          ..(table[i].cap.expires_at - 1)
                       /\ ~(call.snapshots[i].snapshot_offset
                               > message.header.payload_offset)
             PROVE  FALSE
    BY DEF LiveMessageServed
<1> DEFINE h == message.header
           sent == message.frame
           snapshots == call.snapshots
<1>1. Locked /\ Snapped /\ RootInv
    BY DEF Locked, IInv, CallInv
<1>2. /\ sent \in InlineFrames /\ ValidateError(sent) = "ok"
      /\ h = GrantHeader(sent, h.payload_grant, h.payload_offset)
      /\ GrantHeaderError(h) = "ok"
      /\ h.payload_offset + Len(sent.payload) <= ObjectBytes
      /\ DOMAIN h = HeaderFields
    BY DEF AInv, MessageInv, Sent
<1>3. h.payload_bytes \in Nat /\ h.payload_offset \in Nat
    BY <1>1 DEF RootInv, Sized
<1>4. sent.header \in VfMsgHeader
    BY <1>2, RootAssumption
<1>5. h.family = sent.header.family /\ h.payload_bytes = sent.header.payload_bytes
    <2>1. DOMAIN sent.header = HeaderFields
        BY <1>4, NamedFields
    <2>2. ASSUME NEW g, g = GrantHeader(sent, h.payload_grant, h.payload_offset)
          PROVE  /\ g.payload_bytes = sent.header.payload_bytes
                 /\ g.family = sent.header.family
        BY <2>1, <2>2 DEF GrantHeader, HeaderFields
    <2>3. QED
        BY <1>2, <2>2
<1>6. /\ h.family = VF_FAMILY_SGPU
      /\ Len(sent.payload) = h.payload_bytes
      /\ MsgBytes + h.payload_bytes <= UsizeMax
    BY <1>2, <1>4, <1>5, ValidFrame
<1>7. PICK i : Named = {i}
    <2>1. Named \subseteq 1..Len(table) /\ Len(table) \in Nat
        BY <1>1 DEF Named, RootInv
    <2>2. IsFiniteSet(Named)
        <3>1. IsFiniteSet(1..Len(table))
            BY <2>1, FS_Interval
        <3>2. QED
            BY <2>1, <3>1, FS_Subset
    <2>3. QED
        BY <2>2, FS_Singleton
<1>8. i \in 1..Len(table) /\ table[i].cap.holder_cell = message.cell
    BY <1>7 DEF Named
<1>9. table[i] \in Entries /\ table[i].cap \in Caps
    BY <1>1, <1>8, EntryTyped DEF RootInv
<1>10. /\ table[i].cap.generation \in Nat \ {0}
       /\ table[i].cap.slot = Slot
       /\ table[i].cap.object_type = VF_OBJECT_GRANT
       /\ table[i].cap.object_id # NoObject
       /\ table[i].cap.valid_from \in Nat /\ table[i].cap.expires_at \in Nat
       /\ table[i].bytes = ObjectBytes
       /\ table[i].owner_cell \in CellIds /\ message.cell \in CellIds
    <2>1. table[i].cap.generation
             \in 1..generation[table[i].cap.holder_cell]
        BY <1>1, <1>8 DEF RootInv, GivenOut
    <2>2. table[i].cap.generation \in Nat
        BY <1>9 DEF Caps
    <2>3. table[i].cap.generation # 0
        BY <2>1
    <2>4. QED
        BY <1>8, <1>9, <2>2, <2>3, RootAssumption DEF Caps, Entries
<1>11. EntryError(h, table[i], {"read"}, call.now) = "ok"
    <2>1. ~ \/ table[i].cap.slot = 0
            \/ table[i].cap.generation = 0
            \/ Handle(table[i].cap.generation, table[i].cap.slot)
                  # h.payload_grant
            \/ table[i].cap.state # VF_CAP_LIVE
            \/ table[i].cap.valid_from >= table[i].cap.expires_at
            \/ call.now < table[i].cap.valid_from
            \/ call.now >= table[i].cap.expires_at
        <3>1. call.now \in table[i].cap.valid_from..(table[i].cap.expires_at - 1)
            BY <1>7
        <3>2. /\ ~(table[i].cap.valid_from >= table[i].cap.expires_at)
              /\ ~(call.now < table[i].cap.valid_from)
              /\ ~(call.now >= table[i].cap.expires_at)
            BY <3>1, <1>10
        <3>3. QED
            BY <3>2, <1>7, <1>10 DEF Slot
    <2>2. ~ \/ table[i].cap.object_id = NoObject
            \/ table[i].cap.object_type # VF_OBJECT_GRANT
            \/ ~(table[i].cap.rights \subseteq AllRights)
            \/ ~({"read"} \subseteq table[i].cap.rights)
        BY <1>7, <1>10
    <2>3. ~(table[i].state # VF_GRANT_LIVE \/ table[i].owner_cell = 0)
        BY <1>7, <1>10, RootAssumption
    <2>4. ~ \/ h.payload_offset > table[i].bytes
            \/ h.payload_bytes > table[i].bytes - h.payload_offset
        BY <1>2, <1>3, <1>6, <1>10, RootAssumption
    <2>5. QED
        BY <2>1, <2>2, <2>3, <2>4 DEF EntryError
<1>12. /\ Matches(h, snapshots, message.cell) = {i}
       /\ Granted(h, snapshots, message.cell) = snapshots[i]
       /\ snapshots[i].entry = table[i] /\ Len(snapshots) = Len(table)
       /\ snapshots[i].snapshot_offset \in Nat
    <2>1. Matches(h, snapshots, message.cell) = {i}
        BY <1>1, <1>7, NamedIsMatched
    <2>2. QED
        BY <2>1, <1>1, <1>8 DEF Granted, Snapped
<1>13. PayloadGrantError(h, snapshots, message.cell, {"read"}, call.now) = "ok"
    <2>1. ~ \/ Len(snapshots) > TableMax
            \/ message.cell = 0
            \/ {"read"} = {}
            \/ ~({"read"} \subseteq {"read", "write"})
        <3>1. ~(Len(snapshots) > TableMax)
            BY <1>1, <1>12, PolicyAssumption DEF RootInv
        <3>2. message.cell # 0
            BY <1>10, RootAssumption
        <3>3. QED
            BY <3>1, <3>2
    <2>2. ~(\E a, b \in Matches(h, snapshots, message.cell) : a # b)
        BY <1>12
    <2>3. (CHOOSE a \in Matches(h, snapshots, message.cell) : TRUE) = i
        BY <1>12
    <2>4. QED
        BY <2>1, <2>2, <2>3, <1>2, <1>11, <1>12 DEF PayloadGrantError
<1>14. WindowError(h, snapshots[i]) = "ok"
    <2> DEFINE low == snapshots[i].snapshot_offset
               n == Len(snapshots[i].data)
    <2>1. low <= h.payload_offset
        BY <1>3, <1>7, <1>12
    <2>2. n = IF low + 1 <= ObjectBytes THEN ObjectBytes - (low + 1) + 1 ELSE 0
        BY <1>1, <1>8 DEF AInv, Copied
    <2>3. low \in Nat /\ ObjectBytes \in Nat /\ UsizeMax \in Nat
          /\ ObjectBytes <= UsizeMax
        BY <1>12, RootAssumption, WidthAssumption
    <2>4. h.payload_offset + h.payload_bytes <= ObjectBytes
        BY <1>2, <1>6
    <2> HIDE DEF low, n
    <2>5. low + n = ObjectBytes /\ n \in Nat
        BY <1>3, <2>1, <2>2, <2>3, <2>4
    <2>6. /\ ~(low + n > ObjectBytes)
          /\ ~(h.payload_offset < low)
          /\ ~(h.payload_offset - low + h.payload_bytes > UsizeMax)
          /\ ~(h.payload_offset - low + h.payload_bytes > n)
        BY <1>3, <2>1, <2>3, <2>4, <2>5
    <2>7. QED
        BY <2>6, <1>10, <1>12 DEF WindowError, WindowEnd, WindowStart, low, n
<1>15. CallError = "ok"
    <2>1. AuthorizeError(call.session, h, snapshots, message.cell, call.now)
             = "ok"
        BY <1>2, <1>6, <1>12, <1>13, <1>14 DEF AuthorizeError
    <2>2. QED
        BY <2>1 DEF CallError
<1>16. Len(CallPayload) = h.payload_bytes
    <2>1. CASE h.payload_bytes = 0
        <3>1. CallPayload = <<>>
            BY <2>1 DEF CallPayload, AuthorizedPayload
        <3>2. QED
            BY <3>1, <2>1
    <2>2. CASE h.payload_bytes # 0
        <3>1. CallPayload = Window(h, snapshots[i])
            BY <2>2, <1>12 DEF CallPayload, AuthorizedPayload
        <3>2. QED
            BY <3>1, <1>3, <1>12, <1>14, WindowExact
    <2>3. QED
        BY <2>1, <2>2
<1>17. ValidateError(Converted) = "ok"
    BY <1>2, <1>3, <1>6, <1>16, InlineFormValid DEF Converted
<1>18. QED
    BY <1>15, <1>17 DEF AInv, Answered

\* What to_inline returns is a valid frame without authority, and the request
\* of its sender again unless the memory was written in between (to_inline).
THEOREM ConversionKeeps == Spec => []ConversionKeepsRequest
<1>1. Spec => [](IInv /\ AInv)
    BY InitIInv, NextIInv, InitAInv, NextAInv, PTL DEF Spec
<1>2. QED
    BY <1>1, InvConversion, PTL

\* authorize refuses no message whose capability is still the one it was sent
\* under, in force and alone in its slot, in a table within the limit.
THEOREM LiveServed == Spec => []LiveMessageServed
<1>1. Spec => [](IInv /\ AInv)
    BY InitIInv, NextIInv, InitAInv, NextAInv, PTL DEF Spec
<1>2. QED
    BY <1>1, InvServed, PTL

-----------------------------------------------------------------------------
(* The validation program's message. *)

\* The header of the program's list, in the forms it takes on its way.
ListHeader(h, total, grant, offset) ==
    /\ DOMAIN h = HeaderFields
    /\ h.magic = 1 /\ h.abi_major = 1 /\ h.header_bytes = 13
    /\ h.message_bytes = total /\ h.family = 3 /\ h.opcode = 5
    /\ h.request_id = 6 /\ h.object = ENDPOINT /\ h.payload_grant = grant
    /\ h.payload_offset = offset /\ h.payload_bytes = 4 /\ h.flags = 0
    /\ h.reserved0 = 0

LEMMA ListInline ==
    /\ ListHeader(Inline.header, 20, 0, 3)
    /\ Inline.payload = Payload
    /\ Len(Payload) = 4
<1>1. Len(Payload) = 4
    BY DEF Payload
<1> DEFINE n == NewHeader(3, 5)
           h == [n EXCEPT !.request_id = 6, !.object = ENDPOINT,
                          !.payload_bytes = 4, !.payload_offset = 3,
                          !.message_bytes = 20]
<1>2. Inline = [header |-> h, payload |-> Payload]
  <2>1. MsgBytes + 3 + Len(Payload) = 20
      BY <1>1 DEF MsgBytes
  <2>2. QED
      BY <1>1, <2>1, Zenon
         DEF Inline, VF_FAMILY_SGPU, VF_SGPU_SUBMIT_COMMAND_LIST
<1>3. /\ DOMAIN n = HeaderFields
      /\ n.magic = 1 /\ n.abi_major = 1 /\ n.header_bytes = 13
      /\ n.family = 3 /\ n.opcode = 5 /\ n.payload_grant = 0
      /\ n.flags = 0 /\ n.reserved0 = 0
    BY DEF NewHeader, HeaderFields, MsgBytes, VF_MSG_MAGIC, VF_ABI_MAJOR
<1> HIDE DEF n
<1>4. ListHeader(h, 20, 0, 3)
    BY <1>3 DEF ListHeader, HeaderFields
<1> HIDE DEF h
<1>5. Inline.header = h /\ Inline.payload = Payload
    BY <1>2
<1>6. QED
    BY <1>1, <1>4, <1>5, Zenon

\* What the constants say of the widths.
LEMMA VulkanWidths ==
    /\ PayloadMax \in Nat /\ U32Max \in Nat /\ U64Max \in Nat /\ UsizeMax \in Nat
    /\ PayloadMax >= 7 /\ UsizeMax >= 20 /\ U32Max >= 20 /\ U64Max >= 20
BY WidthAssumption, VulkanAssumption

\* The list's frame and its bytes.
LEMMA ListFrame ==
    /\ ValidateError(Inline) = "ok"
    /\ FromWireError(ToWire(Inline)) = "ok"
    /\ ListHeader(FromWire(ToWire(Inline)).header, 20, 0, 3)
    /\ ValidateError(FromWire(ToWire(Inline))) = "ok"
<1>1. ASSUME NEW h, ListHeader(h, 20, 0, 3)
      PROVE  /\ FrameStart(h) = 16 /\ FrameEnd(h) = 20
             /\ FrameLayoutError(h) = "ok"
  <2>1. FrameStart(h) = 16 /\ FrameEnd(h) = 20
      BY <1>1 DEF ListHeader, FrameStart, FrameEnd, PayloadEnd, MsgBytes
  <2>2. ShapeError(h) = "ok"
      BY <1>1, VulkanWidths DEF ListHeader, ShapeError, VF_MSG_MAGIC,
         VF_ABI_MAJOR, MsgBytes, Families
  <2>3. PayloadEndError(h) = "ok"
      BY <1>1, VulkanWidths DEF ListHeader, PayloadEndError, PayloadEnd, MsgBytes
  <2>4. IndexError(h) = "ok"
      BY <1>1, <2>1, VulkanWidths DEF ListHeader, IndexError
  <2>5. QED
      BY <1>1, <2>1, <2>2, <2>3, <2>4, VulkanWidths
         DEF ListHeader, FrameLayoutError, VF_FAMILY_SGPU, MsgBytes
<1> DEFINE w == ToWire(Inline)
           g == Inline.header
<1>2. ListHeader(g, 20, 0, 3)
    BY ListInline
<1>3. ValidateError(Inline) = "ok"
  <2>1. FrameStart(g) = 16 /\ FrameEnd(g) = 20 /\ FrameLayoutError(g) = "ok"
      BY <1>1, <1>2
  <2>2. QED
      BY <2>1, ListInline DEF ValidateError
<1>4. /\ Len(w) = 20
      /\ \A i \in 1..13 : w[i] = Encode(g)[i]
  <2>1. w = [i \in 1..20 |->
               IF i <= MsgBytes THEN Encode(g)[i]
               ELSE IF i \in (FrameStart(g) + 1)..FrameEnd(g)
                    THEN Inline.payload[i - FrameStart(g)]
                    ELSE Zero]
    <3>1. g.message_bytes = 20
        BY <1>2 DEF ListHeader
    <3>2. QED
        BY <3>1, Zenon DEF ToWire
  <2> HIDE DEF w, g
  <2>2. Len(w) = 20
      BY <2>1
  <2>3. QED
      BY <2>1, <2>2 DEF MsgBytes
<1> HIDE DEF w, g
<1>5. ListHeader(Decode(w), 20, 0, 3)
  <2>1. /\ Num(w[1]) = 1 /\ Num(w[2]) = 1 /\ Num(w[3]) = 13 /\ Num(w[4]) = 20
        /\ Num(w[5]) = 3 /\ Num(w[6]) = 5 /\ Num(w[7]) = 6
        /\ Num(w[8]) = ENDPOINT /\ Num(w[9]) = 0 /\ Num(w[10]) = 3
        /\ Num(w[11]) = 4 /\ Num(w[12]) = 0 /\ Num(w[13]) = 0
      BY <1>2, <1>4 DEF ListHeader, Encode, Word, Num
  <2>2. QED
      BY <2>1 DEF Decode, ListHeader, HeaderFields
<1>6. /\ FrameStart(Decode(w)) = 16 /\ FrameEnd(Decode(w)) = 20
      /\ FrameLayoutError(Decode(w)) = "ok" /\ Decode(w).message_bytes = 20
    BY <1>1, <1>5 DEF ListHeader
<1>7. FromWireError(w) = "ok"
    BY <1>4, <1>6 DEF FromWireError, MsgBytes
<1>8. /\ FromWire(w).header = Decode(w)
      /\ FromWire(w).payload = [i \in 1..(20 - 16) |-> w[16 + i]]
    BY <1>6, Zenon DEF FromWire
<1>9. Len(FromWire(w).payload) = 4
    BY <1>8
<1>10. ValidateError(FromWire(w)) = "ok"
    BY <1>6, <1>8, <1>9 DEF ValidateError
<1>11. QED
    BY <1>3, <1>5, <1>7, <1>8, <1>10 DEF w

\* The granted message: the same header behind inline_to_grant.
LEMMA ListMessage == ListHeader(Wire, 13, GRANT, 16)
<1> DEFINE h == FromWire(ToWire(Inline)).header
<1>1. ListHeader(h, 20, 0, 3)
    BY ListFrame
<1>2. Wire = [h EXCEPT !.message_bytes = 13, !.payload_grant = GRANT,
                       !.payload_offset = 16]
    BY Zenon DEF Wire, GrantHeader, MsgBytes
<1> HIDE DEF h
<1>3. QED
    BY <1>1, <1>2 DEF ListHeader, HeaderFields

\* The root's copy and the window in it.
LEMMA ListSnapshot ==
    /\ Len(Snapshot) = 20
    /\ SubSeq(Snapshot, 9, 12) = Payload
<1> DEFINE T == Seq(Nat)
           x == [i \in 1..8 |-> Word(9)]
           y == [i \in 1..8 |-> Word(5)]
           u == x \o Payload
<1>1. \A n \in Nat : Word(n) \in T
    BY DEF Word
<1>2. Payload \in Seq(T) /\ Len(Payload) = 4
  <2>1. Payload = <<Word(3), Word(1), Word(3), Word(3)>>
      BY DEF Payload, CopyTag, DispatchTag
  <2> HIDE DEF T
  <2>2. QED
      BY <1>1, <2>1
<1> HIDE DEF T
<1>3. x \in Seq(T) /\ Len(x) = 8 /\ y \in Seq(T) /\ Len(y) = 8
    BY <1>1
<1>4. Snapshot = u \o y
    BY Zenon DEF Snapshot
<1> HIDE DEF x, y
<1>5. /\ u \in Seq(T) /\ Len(u) = Len(x) + Len(Payload)
      /\ \A i \in 1..(Len(x) + Len(Payload)) :
            u[i] = IF i <= Len(x) THEN x[i] ELSE Payload[i - Len(x)]
    BY <1>2, <1>3, ConcatProperties, Zenon
<1>6. Len(u) = 12 /\ \A i \in 1..4 : u[8 + i] = Payload[i]
    BY <1>2, <1>3, <1>5
<1> HIDE DEF u
<1>7. /\ Snapshot \in Seq(T) /\ Len(Snapshot) = Len(u) + Len(y)
      /\ \A i \in 1..(Len(u) + Len(y)) :
            Snapshot[i] = IF i <= Len(u) THEN u[i] ELSE y[i - Len(u)]
  <2>0. u \in Seq(T) /\ y \in Seq(T)
      BY <1>3, <1>5
  <2>1. /\ u \o y \in Seq(T) /\ Len(u \o y) = Len(u) + Len(y)
        /\ \A i \in 1..(Len(u) + Len(y)) :
              (u \o y)[i] = IF i <= Len(u) THEN u[i] ELSE y[i - Len(u)]
      BY <2>0, ConcatProperties, Zenon
  <2>2. QED
      BY <1>4, <2>1, Zenon
<1>8. Len(Snapshot) = 20 /\ \A i \in 1..4 : Snapshot[8 + i] = Payload[i]
    BY <1>3, <1>6, <1>7
<1>9. /\ SubSeq(Snapshot, 9, 12) \in Seq(T)
      /\ Len(SubSeq(Snapshot, 9, 12)) = 4
      /\ \A i \in 1..4 : SubSeq(Snapshot, 9, 12)[i] = Snapshot[8 + i]
  <2>1. \A i \in 9..12 : Snapshot[i] \in T
    <3>1. \A i \in 1..Len(Snapshot) : Snapshot[i] \in T
        BY <1>7, ElementOfSeq
    <3>2. QED
        BY <1>8, <3>1
  <2>2. /\ SubSeq(Snapshot, 9, 12) \in Seq(T)
        /\ Len(SubSeq(Snapshot, 9, 12)) = IF 9 <= 12 THEN 12 - 9 + 1 ELSE 0
        /\ \A i \in 1..(12 - 9 + 1) :
              SubSeq(Snapshot, 9, 12)[i] = Snapshot[9 + i - 1]
    <3>1. 9 \in Int /\ 12 \in Int
        OBVIOUS
    <3>2. QED
        BY <2>1, <3>1, SubSeqProperties
  <2>3. QED
      BY <2>2
<1>10. QED
    BY <1>2, <1>8, <1>9

\* A handle gives its slot and its generation back.
LEMMA HandleParts ==
    /\ SlotOf(GRANT) = 7
    /\ SlotOf(ENDPOINT) = 5 /\ GenerationOf(ENDPOINT) = 2
    /\ GRANT # 0 /\ Handle(4, 7) # GRANT
<1>1. SlotSpan \in Nat /\ SlotSpan > 7
    BY PolicyAssumption, VulkanAssumption
<1>2. \A n \in Nat : n > 7 => (3 * n + 7) % n = 7 /\ (2 * n + 5) % n = 5
                               /\ (2 * n + 5) \div n = 2
    OBVIOUS
<1>3. GRANT = 3 * SlotSpan + 7 /\ ENDPOINT = 2 * SlotSpan + 5
      /\ Handle(4, 7) = 4 * SlotSpan + 7
    BY DEF GRANT, ENDPOINT, Handle
<1>4. QED
    BY <1>1, <1>2, <1>3, SMT DEF SlotOf, GenerationOf

\* The root's table has one entry.
LEMMA OneView ==
    ASSUME NEW e, NEW d
    PROVE  /\ Len(Views(e, d)) = 1
           /\ Views(e, d)[1].entry = e
           /\ Views(e, d)[1].snapshot_offset = 8
           /\ Views(e, d)[1].data = d
BY DEF Views

\* Its places are 1, if the cell and the slot are those of the message.
LEMMA ViewMatches ==
    ASSUME NEW h, h.payload_grant = GRANT, NEW e, NEW d,
           e.cap.holder_cell = CELL, e.cap.slot = 7
    PROVE  /\ Matches(h, Views(e, d), CELL) = {1}
           /\ Granted(h, Views(e, d), CELL) = Views(e, d)[1]
<1>1. Matches(h, Views(e, d), CELL) = {1}
    BY OneView, HandleParts DEF Matches
<1>2. (CHOOSE i \in {1} : TRUE) = 1
    OBVIOUS
<1>3. QED
    BY <1>1, <1>2 DEF Granted

\* The grant the program registers.
LEMMA GrantFields ==
    /\ Grant.cap.slot = 7 /\ Grant.cap.generation = 3
    /\ Grant.cap.holder_cell = CELL /\ Grant.cap.object_type = 1
    /\ Grant.cap.rights = {"read"} /\ Grant.cap.state = 1
    /\ Grant.cap.object_id = "object" /\ Grant.cap.valid_from = 10
    /\ Grant.cap.expires_at = 20
    /\ Grant.bytes = 28 /\ Grant.owner_cell = 11 /\ Grant.state = 1
<1>1. Len(Payload) = 4
    BY ListInline
<1>2. QED
    BY <1>1 DEF Grant, VF_OBJECT_GRANT, VF_CAP_LIVE, VF_GRANT_LIVE

\* The message is accepted as it is.
LEMMA ListAuthorized ==
    /\ GrantHeaderError(Wire) = "ok"
    /\ NewError(Session) = "ok"
    /\ Authorization("") = "ok"
    /\ AuthorizedPayload(Wire, Views(Grant, Snapshot), CELL) = Payload
<1> DEFINE v == Views(Grant, Snapshot)
<1>1. /\ Wire.magic = 1 /\ Wire.abi_major = 1 /\ Wire.header_bytes = 13
      /\ Wire.message_bytes = 13 /\ Wire.family = 3 /\ Wire.opcode = 5
      /\ Wire.object = ENDPOINT /\ Wire.payload_grant = GRANT
      /\ Wire.payload_offset = 16 /\ Wire.payload_bytes = 4
      /\ Wire.flags = 0 /\ Wire.reserved0 = 0
    BY ListMessage DEF ListHeader
<1>2. GrantHeaderError(Wire) = "ok"
  <2>1. 16 % Align = 0 /\ 16 + 4 <= U64Max /\ 4 <= PayloadMax
      BY VulkanAssumption, VulkanWidths
  <2>2. QED
      BY <1>1, <2>1, HandleParts, VulkanWidths
         DEF GrantHeaderError, VF_MSG_MAGIC, VF_ABI_MAJOR, MsgBytes,
             VF_FAMILY_ROOT, VF_FAMILY_BLOCK, VF_FAMILY_SGPU
<1>3. NewError(Session) = "ok"
    BY HandleParts DEF NewError, Session, CELL
<1>4. /\ Matches(Wire, v, CELL) = {1}
      /\ Granted(Wire, v, CELL) = v[1] /\ (CHOOSE i \in {1} : TRUE) = 1
    BY <1>1, ViewMatches, GrantFields
<1>5. EntryError(Wire, Grant, {"read"}, 15) = "ok"
  <2>1. Handle(3, 7) = Wire.payload_grant
      BY <1>1 DEF GRANT
  <2>2. Grant.cap.object_id # NoObject
      BY GrantFields, VulkanAssumption
  <2>3. QED
      BY <1>1, <2>1, <2>2, GrantFields
         DEF EntryError, VF_CAP_LIVE, VF_OBJECT_GRANT, VF_GRANT_LIVE, AllRights
<1>6. PayloadGrantError(Wire, v, CELL, {"read"}, 15) = "ok"
  <2>1. Len(v) = 1 /\ v[1].entry = Grant /\ ~ (1 > TableMax)
      BY OneView, VulkanAssumption, PolicyAssumption
  <2>2. CELL # 0 /\ {"read"} # {} /\ {"read"} \subseteq {"read", "write"}
      BY DEF CELL
  <2> HIDE DEF v
  <2>3. QED
      BY <1>1, <1>2, <1>4, <1>5, <2>1, <2>2 DEF PayloadGrantError
<1>7. /\ WindowStart(Wire, v[1]) = 8 /\ WindowEnd(Wire, v[1]) = 12
      /\ v[1].data = Snapshot /\ v[1].entry = Grant
      /\ v[1].snapshot_offset = 8
    BY <1>1, OneView DEF WindowStart, WindowEnd
<1>8. WindowError(Wire, v[1]) = "ok"
    BY <1>1, <1>7, ListSnapshot, GrantFields, VulkanWidths DEF WindowError
<1>9. AuthorizedPayload(Wire, v, CELL) = Payload
  <2>1. SubSeq(Snapshot, 8 + 1, 12) = Payload
      BY ListSnapshot
  <2>2. QED
      BY <1>1, <1>4, <1>7, <2>1 DEF AuthorizedPayload, Window
<1>10. AuthorizeError(Session, Wire, v, CELL, 15) = "ok"
  <2>1. CELL = Session.caller_cell /\ ENDPOINT = Session.endpoint_handle
      BY DEF Session
  <2> HIDE DEF v
  <2>2. QED
      BY <1>1, <1>2, <1>4, <1>6, <1>8, <2>1
         DEF AuthorizeError, VF_FAMILY_SGPU, VF_SGPU_SUBMIT_COMMAND_LIST
<1>11. Authorization("") = "ok"
  <2>1. /\ AlteredHeader("") = Wire /\ AlteredGrant("") = Grant
        /\ AlteredData("") = Snapshot
      BY DEF AlteredHeader, AlteredGrant, AlteredData
  <2>2. QED
      BY <1>10, <2>1, Zenon DEF Authorization
<1>12. QED
    BY <1>2, <1>3, <1>9, <1>11

\* The program accepts its own list, over the wire and back.
LEMMA ListNormalizes ==
    LET back == InlineFrame(Wire, AuthorizedPayload(Wire,
                                     Views(Grant, Snapshot), CELL))
    IN  /\ InlineToGrantError(FromWire(ToWire(Inline)), GRANT, 16) = "ok"
        /\ ValidateError(back) = "ok"
        /\ back.payload = Payload
        /\ back.header.payload_offset = 0 /\ back.header.payload_grant = 0
<1> DEFINE back == InlineFrame(Wire, Payload)
           b == back.header
<1>1. InlineToGrantError(FromWire(ToWire(Inline)), GRANT, 16) = "ok"
    BY ListFrame, ListAuthorized DEF InlineToGrantError, Wire
<1>2. /\ b.magic = 1 /\ b.abi_major = 1 /\ b.header_bytes = 13
      /\ b.message_bytes = 17 /\ b.family = 3 /\ b.payload_bytes = 4
      /\ b.payload_offset = 0 /\ b.payload_grant = 0
  <2>1. MsgBytes + Wire.payload_bytes = 17
      BY ListMessage DEF ListHeader, MsgBytes
  <2>2. b = [Wire EXCEPT !.message_bytes = MsgBytes + Wire.payload_bytes,
                         !.payload_grant = 0, !.payload_offset = 0]
      BY DEF InlineFrame
  <2> HIDE DEF b
  <2>3. QED
      BY ListMessage, <2>1, <2>2 DEF ListHeader, HeaderFields
<1>3. back.payload = Payload /\ Len(Payload) = 4
    BY ListInline DEF InlineFrame
<1> HIDE DEF b
<1>4. FrameStart(b) = 13 /\ FrameEnd(b) = 17
    BY <1>2 DEF FrameStart, FrameEnd, PayloadEnd, MsgBytes
<1>5. FrameLayoutError(b) = "ok"
  <2>1. ShapeError(b) = "ok"
      BY <1>2, VulkanWidths DEF ShapeError, VF_MSG_MAGIC, VF_ABI_MAJOR,
         MsgBytes, Families
  <2>2. PayloadEndError(b) = "ok"
      BY <1>2, VulkanWidths DEF PayloadEndError, PayloadEnd, MsgBytes
  <2>3. IndexError(b) = "ok"
      BY <1>2, <1>4, VulkanWidths DEF IndexError
  <2>4. QED
      BY <1>2, <2>1, <2>2, <2>3, VulkanWidths
         DEF FrameLayoutError, VF_FAMILY_SGPU, MsgBytes
<1>6. ValidateError(back) = "ok"
    BY <1>3, <1>4, <1>5 DEF ValidateError, b
<1>7. QED
    BY <1>1, <1>2, <1>3, <1>6, ListAuthorized DEF b

\* The data behind the root's grant for an altered message.
LEMMA Window7 ==
    /\ Len(SubSeq(Snapshot, 1, 7)) = 7
BY ListSnapshot, SubSeqProperties

\* Each of the nine alterations is refused, whatever else is accepted.
LEMMA AlteredRefused ==
    ASSUME NEW kind \in {Kinds[i] : i \in 1..9}
    PROVE  Authorization(kind) # "ok"
<1> DEFINE h == AlteredHeader(kind)
           e == AlteredGrant(kind)
           d == AlteredData(kind)
           v == Views(e, d)
           now == IF kind = "expiry" THEN 20 ELSE 15
<1> SUFFICES ASSUME AuthorizeError(Session, h, v, CELL, now) = "ok" PROVE FALSE
    BY Zenon DEF Authorization
<1>1. kind \in {"generation", "revoke", "owner", "read-right", "grant-range",
                "expiry", "route", "snapshot-range", "unsupported-opcode"}
    BY DEF Kinds
<1>2. DOMAIN Wire = HeaderFields /\ Wire.opcode = 5 /\ Wire.object = ENDPOINT
      /\ Wire.payload_grant = GRANT /\ Wire.payload_offset = 16
      /\ Wire.payload_bytes = 4
    BY ListMessage DEF ListHeader
<1>3. ENDPOINT \in Nat
    BY PolicyAssumption DEF ENDPOINT, Handle
<1>4. /\ h.payload_grant = GRANT /\ h.payload_offset = 16
      /\ h.payload_bytes = 4
      /\ kind = "route" => h.object = ENDPOINT + 1
      /\ kind = "unsupported-opcode" => h.opcode = 7
    BY <1>1, <1>2 DEF AlteredHeader, HeaderFields
<1> HIDE DEF h
<1>5. /\ e.cap.holder_cell = CELL /\ e.cap.slot = 7
      /\ kind = "generation" => e.cap.generation = 4
      /\ kind = "revoke" => e.state = 2
      /\ kind = "owner" => e.owner_cell = 0
      /\ kind = "read-right" => e.cap.rights = {"write"}
      /\ kind = "grant-range" => e.bytes = 19
      /\ kind = "expiry" => e.cap.expires_at = 20
    BY <1>1, GrantFields, ListInline DEF AlteredGrant
<1> HIDE DEF e
<1>6. kind = "snapshot-range" => 12 > Len(d)
  <2>1. CASE kind = "snapshot-range"
    <3>1. Len(d) = 7
        BY <2>1, Window7, Zenon DEF AlteredData
    <3>2. QED
        BY <3>1
  <2>2. QED
      BY <2>1
<1> HIDE DEF d
<1>7. /\ h.opcode = 5 /\ h.object = ENDPOINT
      /\ PayloadGrantError(h, v, CELL, {"read"}, now) = "ok"
      /\ WindowError(h, Granted(h, v, CELL)) = "ok"
  <2>1. h.payload_bytes # 0
      BY <1>4
  <2> HIDE DEF v, now
  <2>2. QED
      BY <2>1, AuthorizedMessage DEF Session, VF_SGPU_SUBMIT_COMMAND_LIST
<1>8. v[1].entry = e /\ v[1].data = d /\ v[1].snapshot_offset = 8
    BY OneView
<1>9. Matches(h, v, CELL) = {1} /\ Granted(h, v, CELL) = v[1]
    BY <1>4, <1>5, ViewMatches
<1> HIDE DEF v
<1>10. EntryError(h, e, {"read"}, now) = "ok"
  <2>1. h.payload_bytes # 0
      BY <1>4
  <2> HIDE DEF now
  <2>2. PICK i \in 1..Len(v) :
          /\ Matches(h, v, CELL) = {i}
          /\ EntryError(h, v[i].entry, {"read"}, now) = "ok"
      BY <1>7, <2>1, OneMatch
  <2>3. i = 1
      BY <1>9, <2>2
  <2>4. QED
      BY <1>8, <2>2, <2>3
<1>11. /\ Handle(e.cap.generation, e.cap.slot) = GRANT
       /\ ~(now >= e.cap.expires_at)
       /\ "read" \in e.cap.rights
       /\ e.state = 1 /\ e.owner_cell # 0
       /\ ~(4 > e.bytes - 16)
    BY <1>4, <1>10 DEF EntryError, VF_GRANT_LIVE
<1>12. kind = "snapshot-range" => FALSE
  <2>1. WindowEnd(h, v[1]) = 12
      BY <1>4, <1>8 DEF WindowEnd, WindowStart
  <2>2. ~(WindowEnd(h, v[1]) > Len(v[1].data))
    <3>1. WindowError(h, v[1]) = "ok"
        BY <1>7, <1>9
    <3>2. QED
        BY <3>1 DEF WindowError
  <2>3. v[1].data = d
      BY <1>8
  <2>4. QED
      BY <1>6, <2>1, <2>2, <2>3
<1>13. QED
    BY <1>1, <1>3, <1>4, <1>5, <1>7, <1>11, <1>12, HandleParts

-----------------------------------------------------------------------------
(* The validation program's data, modulo 64. *)

\* What k dispatches make of a word's remainder.
Turned(x) == (x * 3 + 7) % 64
Behind(x, k) ==
    IF k = 0 THEN x ELSE IF k = 1 THEN Turned(x) ELSE Turned(Turned(x))

\* A word that was copied in a run began as the input of the run; one that was
\* not began as what the run before left, or as nothing.
Begun(r, c) == IF c = 1 THEN 7 + r ELSE IF r = 0 THEN 0 ELSE 27

\* Only a copy and both dispatches lead to what the readback expects.
LEMMA OneWay ==
    ASSUME NEW r \in {0, 1}, NEW c \in {0, 1}, NEW k \in {0, 1, 2},
           Behind(Begun(r, c), k) = Behind(7 + r, 2)
    PROVE  c = 1 /\ k = 2
BY DEF Behind, Begun, Turned

\* The results are not the input, and are what the next run begins with.
LEMMA Turns ==
    /\ Behind(7, 2) = 27 /\ Behind(8, 2) = 36
    /\ \A r \in {0, 1} : Behind(7 + r, 2) # 7 + r /\ Begun(r, 1) = 7 + r
    /\ Begun(0, 0) = 0 /\ Begun(1, 0) = 27
    /\ \A x : Behind(x, 0) = x
    /\ \A x : Behind(x, 1) = Turned(x) /\ Behind(x, 2) = Turned(Turned(x))
BY DEF Behind, Begun, Turned

\* A word wraps at a multiple of 64.
LEMMA Wraps ==
    ASSUME NEW x \in Nat
    PROVE  x % WordSpan \in Nat /\ (x % WordSpan) % 64 = x % 64
<1>1. WordSpan \in Nat /\ WordSpan > 0 /\ WordSpan % 64 = 0
    BY VulkanAssumption
<1>2. PICK q \in Nat : WordSpan = 64 * q
  <2>1. WordSpan = 64 * (WordSpan \div 64) /\ WordSpan \div 64 \in Nat
      BY <1>1
  <2>2. QED
      BY <2>1
<1> DEFINE d == x \div WordSpan
           m == x % WordSpan
<1>3. d \in Nat /\ m \in Nat /\ x = WordSpan * d + m
    BY <1>1
<1> HIDE DEF d, m
<1>4. PICK p \in Nat : x = 64 * p + m
  <2>1. q * d \in Nat /\ (64 * q) * d = 64 * (q * d)
      BY <1>2, <1>3
  <2>2. QED
      BY <1>2, <1>3, <2>1
<1>5. x % 64 = m % 64
    BY <1>3, <1>4
<1>6. QED
    BY <1>3, <1>5 DEF m

LEMMA KernelTurns ==
    ASSUME NEW x \in Nat
    PROVE  Kernel(x) \in Nat /\ Kernel(x) % 64 = Turned(x % 64)
<1>1. x * 3 + 7 \in Nat
    OBVIOUS
<1>2. (x * 3 + 7) % 64 = ((x % 64) * 3 + 7) % 64
    OBVIOUS
<1>3. QED
    BY <1>1, <1>2, Wraps DEF Kernel, Turned

\* The input of a run, by the remainder of its words.
LEMMA InputFresh ==
    ASSUME NEW r \in {0, 1}, NEW w \in Words
    PROVE  Input(r, w) \in Nat /\ Input(r, w) % 64 = 7 + r
<1> DEFINE x == (w - 1) * 64 * (123 + r * 14) + 71 + r
           f == Flipped(x)
<1>1. w - 1 \in Nat
    BY VulkanAssumption DEF Words
<1>2. x \in Nat /\ x % 64 = 7 + r
  <2>1. CASE r = 0
    <3>1. x = 64 * (123 * (w - 1)) + 71
        BY <1>1, <2>1
    <3>2. QED
        BY <1>1, <2>1, <3>1
  <2>2. CASE r = 1
    <3>1. x = 64 * (137 * (w - 1)) + 72
        BY <1>1, <2>2
    <3>2. QED
        BY <1>1, <2>2, <3>1
  <2>3. QED
      BY <2>1, <2>2
<1> HIDE DEF x
<1>3. \A y \in Nat : Flipped(y) \in Nat /\ Flipped(y) % 64 = y % 64
  <2> SUFFICES ASSUME NEW y \in Nat
               PROVE  Flipped(y) \in Nat /\ Flipped(y) % 64 = y % 64
      OBVIOUS
  <2> DEFINE b == (y \div 256) % 256
  <2>1. b \in 0..255 /\ y >= 256 * b
      OBVIOUS
  <2>2. Flipped(y) = y + 256 * (255 - 2 * b)
      BY DEF Flipped
  <2> HIDE DEF b
  <2>3. QED
      BY <2>1, <2>2
<1>4. f \in Nat /\ f % 64 = 7 + r
    BY <1>2, <1>3
<1> HIDE DEF f
<1>5. Input(r, w) = f % WordSpan
    BY DEF Input, f, x
<1>6. QED
    BY <1>4, <1>5, Wraps

-----------------------------------------------------------------------------
(* The validation program's runs. *)

\* What is left of the list in execution; a run that has not come so far has
\* all three commands before it.
Lists == {<<Word(1), Word(3), Word(3)>>, <<Word(3), Word(3)>>, <<Word(3)>>, <<>>}
Working == pc \in {"setup", "upload", "submit", "execute"}
Left == IF pc = "execute" THEN Len(todo) ELSE 3

\* What the device did to a word in this run: c copies and k dispatches.
Done(w, c, k) ==
    /\ copied[w] = run + c
    /\ dispatched[w] = 2 * run + k
    /\ destination[w] % 64 = Behind(Begun(run, c), k)
    /\ Left = 3 => c = 0
    /\ Left >= 2 => k = 0
    /\ Left >= 1 => k <= 1
Traced(w) == \E c \in {0, 1}, k \in {0, 1, 2} : Done(w, c, k)

Buffers ==
    /\ run \in {0, 1}
    /\ source \in [Cells -> Nat] /\ destination \in [Cells -> Nat]
    /\ DOMAIN copied = Words /\ DOMAIN dispatched = Words
    /\ pc = "execute" => todo \in Lists
    /\ pc \in {"submit", "execute"} => source = Upload(run)

RunInv ==
    Working =>
        /\ completed = 3 * run + (3 - Left)
        /\ \A w \in Words : Traced(w)

\* Behind the second run nothing changes any more.
DoneInv ==
    pc \in {"reject", "receipt"} =>
        /\ \A w \in Words : copied[w] = 2 /\ dispatched[w] = 4
        /\ completed = 6
        /\ destination = before
        /\ pc = "receipt" => builds = 1

\* What k dispatches make of the input, behind a whole copy.
Result(r, k) ==
    [c \in Cells |-> IF c = 0 THEN 60
                     ELSE IF c = Groups + 1 THEN 195
                     ELSE IF k = 0 THEN Input(r, c)
                     ELSE IF k = 1 THEN Kernel(Input(r, c))
                     ELSE Kernel(Kernel(Input(r, c)))]

HonestInv ==
    honest =>
        /\ pc # "failed"
        /\ Working => builds = IF run = 0 /\ Left >= 2 THEN 0 ELSE 1
        /\ Working /\ Left < 3 => destination = Result(run, 2 - Left)
        /\ pc \in {"reject", "receipt"} => builds = 1

VInv == Buffers /\ RunInv /\ DoneInv /\ HonestInv /\ rejected \in 0..9

\* The lists, by their length.
LEMMA ListLengths ==
    /\ Payload = <<Word(3), Word(1), Word(3), Word(3)>>
    /\ \A t \in Lists : /\ Len(t) \in 0..3
                        /\ Len(t) = 0 <=> t = <<>>
                        /\ t # <<>> => /\ Tail(t) \in Lists
                                       /\ Len(Tail(t)) = Len(t) - 1
                                       /\ Num(Head(t)) = CopyTag <=> Len(t) = 3
                                       /\ Num(Head(t)) = DispatchTag <=> Len(t) < 3
    /\ Tail(Payload) \in Lists /\ Len(Tail(Payload)) = 3
<1>1. Payload = <<Word(3), Word(1), Word(3), Word(3)>>
    BY DEF Payload, CopyTag, DispatchTag
<1>2. /\ Tail(<<Word(3), Word(1), Word(3), Word(3)>>) = <<Word(1), Word(3), Word(3)>>
      /\ Tail(<<Word(1), Word(3), Word(3)>>) = <<Word(3), Word(3)>>
      /\ Tail(<<Word(3), Word(3)>>) = <<Word(3)>>
      /\ Tail(<<Word(3)>>) = <<>>
    BY DEF Word
<1>3. /\ Head(<<Word(1), Word(3), Word(3)>>) = Word(1)
      /\ Head(<<Word(3), Word(3)>>) = Word(3)
      /\ Head(<<Word(3)>>) = Word(3)
    BY DEF Word
<1>4. Num(Word(1)) = CopyTag /\ Num(Word(3)) = DispatchTag /\ CopyTag # DispatchTag
    BY DEF Num, Word, CopyTag, DispatchTag
<1>5. /\ Len(<<Word(1), Word(3), Word(3)>>) = 3
      /\ Len(<<Word(3), Word(3)>>) = 2 /\ Len(<<Word(3)>>) = 1 /\ Len(<<>>) = 0
    OBVIOUS
<1>6. ASSUME NEW t \in Lists
      PROVE  /\ Len(t) \in 0..3
             /\ Len(t) = 0 <=> t = <<>>
             /\ t # <<>> => /\ Tail(t) \in Lists
                            /\ Len(Tail(t)) = Len(t) - 1
                            /\ Num(Head(t)) = CopyTag <=> Len(t) = 3
                            /\ Num(Head(t)) = DispatchTag <=> Len(t) < 3
  <2> DEFINE a == <<Word(1), Word(3), Word(3)>>
             b == <<Word(3), Word(3)>>
             c == <<Word(3)>>
             z == <<>>
  <2>1. /\ Tail(a) = b /\ Tail(b) = c /\ Tail(c) = z
        /\ Num(Head(a)) = CopyTag /\ Num(Head(b)) = DispatchTag
        /\ Num(Head(c)) = DispatchTag /\ CopyTag # DispatchTag
        /\ Len(a) = 3 /\ Len(b) = 2 /\ Len(c) = 1 /\ Len(z) = 0
        /\ Lists = {a, b, c, z}
      BY <1>2, <1>3, <1>4, <1>5 DEF Lists
  <2>2. z = <<>>
      OBVIOUS
  <2>3. a # z /\ b # z /\ c # z
      BY DEF Word
  <2> HIDE DEF a, b, c, z
  <2>4. CASE t = a
    <3>1. /\ Tail(t) = b /\ Len(Tail(t)) = 2 /\ Len(t) = 3 /\ t # <<>>
          /\ Num(Head(t)) = CopyTag /\ Num(Head(t)) # DispatchTag
        BY <2>1, <2>2, <2>3, <2>4, Zenon
    <3>2. Tail(t) \in Lists
        BY <2>1, <3>1, Zenon
    <3>3. /\ Len(t) \in 0..3 /\ Len(t) # 0 /\ ~(Len(t) < 3)
          /\ Len(Tail(t)) = Len(t) - 1
        BY <3>1
    <3>4. QED
        BY <3>1, <3>2, <3>3, Zenon
  <2>5. CASE t = b
    <3>1. /\ Tail(t) = c /\ Len(Tail(t)) = 1 /\ Len(t) = 2 /\ t # <<>>
          /\ Num(Head(t)) = DispatchTag /\ Num(Head(t)) # CopyTag
        BY <2>1, <2>2, <2>3, <2>5, Zenon
    <3>2. Tail(t) \in Lists
        BY <2>1, <3>1, Zenon
    <3>3. /\ Len(t) \in 0..3 /\ Len(t) # 0 /\ Len(t) # 3 /\ Len(t) < 3
          /\ Len(Tail(t)) = Len(t) - 1
        BY <3>1
    <3>4. QED
        BY <3>1, <3>2, <3>3, Zenon
  <2>6. CASE t = c
    <3>1. /\ Tail(t) = z /\ Len(Tail(t)) = 0 /\ Len(t) = 1 /\ t # <<>>
          /\ Num(Head(t)) = DispatchTag /\ Num(Head(t)) # CopyTag
        BY <2>1, <2>2, <2>3, <2>6, Zenon
    <3>2. Tail(t) \in Lists
        BY <2>1, <3>1, Zenon
    <3>3. /\ Len(t) \in 0..3 /\ Len(t) # 0 /\ Len(t) # 3 /\ Len(t) < 3
          /\ Len(Tail(t)) = Len(t) - 1
        BY <3>1
    <3>4. QED
        BY <3>1, <3>2, <3>3, Zenon
  <2>7. CASE t = z
      BY <2>1, <2>2, <2>7
  <2>8. QED
      BY <2>1, <2>4, <2>5, <2>6, <2>7, Zenon
<1>7. QED
    BY <1>1, <1>2, <1>5, <1>6 DEF Lists

\* The program begins with empty buffers, before the first run.
LEMMA VulkanInitInv == VulkanInit => VInv
<1> SUFFICES ASSUME VulkanInit PROVE VInv
    OBVIOUS
<1> USE DEF VulkanInit
<1>1. Buffers
    BY DEF Buffers
<1>2. RunInv
  <2>1. ASSUME NEW w \in Words PROVE Done(w, 0, 0)
    <3>1. w \in Cells
        BY VulkanAssumption DEF Words, Cells
    <3>2. QED
        BY <3>1, Turns DEF Done, Left
  <2>2. QED
      BY <2>1 DEF RunInv, Left, Traced
<1>3. DoneInv /\ HonestInv
    BY DEF DoneInv, HonestInv, Left, Working
<1>4. QED
    BY <1>1, <1>2, <1>3 DEF VInv

\* A buffer's cells are the words and the two guards.
LEMMA WordCells ==
    /\ Words \subseteq Cells /\ 0 \in Cells /\ Groups + 1 \in Cells
    /\ \A w \in Words : w # 0 /\ w # Groups + 1
    /\ \A c \in Cells : c = 0 \/ c = Groups + 1 \/ c \in Words
BY VulkanAssumption DEF Words, Cells

\* The upload is the result of no dispatch.
LEMMA UploadInput ==
    ASSUME NEW r \in {0, 1}
    PROVE  /\ Upload(r) \in [Cells -> Nat]
           /\ \A w \in Words : Upload(r)[w] = Input(r, w)
           /\ Upload(r) = Result(r, 0)
<1>1. \A w \in Words : Input(r, w) \in Nat
    BY InputFresh
<1>2. QED
    BY <1>1, WordCells DEF Upload, Result

\* A failure that is the device's, or its setup's, ends the program.
LEMMA Failing ==
    ASSUME VInv, pc' = "failed", ~honest',
           UNCHANGED <<run, rejected, source, destination, copied, dispatched>>
    PROVE  VInv'
BY DEF VInv, Buffers, RunInv, DoneInv, HonestInv, Working

\* A step that leaves the device alone, within a run.
LEMMA StillTraced ==
    ASSUME \A w \in Words : Traced(w),
           UNCHANGED <<run, copied, dispatched, destination>>, Left' = Left
    PROVE  \A w \in Words : Traced(w)'
BY DEF Traced, Done

LEMMA SetupStep == ASSUME VInv, SetupFails PROVE VInv'
BY Failing DEF SetupFails, Abort, deviceVars

LEMMA DeviceFailsStep == ASSUME VInv, DeviceFails PROVE VInv'
BY Failing DEF DeviceFails, Abort, deviceVars

\* The list is accepted, over the wire and back.
LEMMA NormalizeStep == ASSUME VInv, Normalize PROVE VInv'
<1>1. /\ pc = "setup" /\ pc' = "upload"
      /\ UNCHANGED <<run, rejected, source, destination, completed, builds,
                     copied, dispatched, honest>>
  <2>1. /\ NewError(Session) = "ok" /\ Authorization("") = "ok"
        /\ ValidateError(Inline) = "ok" /\ FromWireError(ToWire(Inline)) = "ok"
      BY ListAuthorized, ListFrame
  <2>2. Goto("upload") /\ pc = "setup"
        /\ UNCHANGED <<run, rejected, todo, deviceVars, before, historyVars>>
      BY <2>1, ListNormalizes, Zenon DEF Normalize
  <2>3. QED
      BY <2>2 DEF Goto, deviceVars, historyVars
<1>2. Left' = Left /\ Left = 3 /\ Working /\ Working'
    BY <1>1 DEF Left, Working
<1>3. Buffers' /\ DoneInv' /\ rejected' \in 0..9
    BY <1>1 DEF VInv, Buffers, DoneInv
<1>4. RunInv'
    BY <1>1, <1>2, StillTraced DEF VInv, RunInv
<1>5. HonestInv'
    BY <1>1, <1>2 DEF VInv, HonestInv
<1>6. QED
    BY <1>3, <1>4, <1>5 DEF VInv

LEMMA WriteSourceStep == ASSUME VInv, WriteSource PROVE VInv'
<1>1. /\ pc = "upload" /\ pc' = "submit" /\ source' = Upload(run)
      /\ UNCHANGED <<run, rejected, destination, completed, builds,
                     copied, dispatched, honest>>
    BY DEF WriteSource, Goto, historyVars
<1>2. Left' = Left /\ Left = 3 /\ Working /\ Working'
    BY <1>1 DEF Left, Working
<1>3. Buffers' /\ DoneInv' /\ rejected' \in 0..9
  <2>1. Upload(run) \in [Cells -> Nat] /\ Upload(run)' = Upload(run)
    <3>1. Upload(run)' = Upload(run)
        BY <1>1 DEF Upload, Input
    <3>2. QED
        BY <3>1, UploadInput DEF VInv, Buffers
  <2>2. QED
      BY <1>1, <2>1 DEF VInv, Buffers, DoneInv
<1>4. RunInv'
    BY <1>1, <1>2, StillTraced DEF VInv, RunInv
<1>5. HonestInv'
    BY <1>1, <1>2 DEF VInv, HonestInv
<1>6. QED
    BY <1>3, <1>4, <1>5 DEF VInv

\* The list is accepted before each run.
LEMMA SubmitStep == ASSUME VInv, SubmitList PROVE VInv'
<1>1. /\ pc = "submit" /\ pc' = "execute" /\ todo' = Tail(Payload)
      /\ UNCHANGED <<run, rejected, source, destination, completed, builds,
                     copied, dispatched, honest>>
  <2>1. /\ pc = "submit" /\ Goto("execute")
        /\ todo' = Tail(AuthorizedPayload(Wire, Views(Grant, Snapshot), CELL))
        /\ UNCHANGED <<run, rejected, deviceVars, before, historyVars>>
      BY ListAuthorized, Zenon DEF SubmitList
  <2>2. QED
      BY <2>1, ListAuthorized, Zenon DEF Goto, deviceVars, historyVars
<1>2. Left' = Left /\ Left = 3 /\ Working /\ Working' /\ todo' \in Lists
    BY <1>1, ListLengths DEF Left, Working
<1>3. Buffers' /\ DoneInv' /\ rejected' \in 0..9
  <2>1. Upload(run)' = Upload(run)
      BY <1>1 DEF Upload, Input
  <2>2. QED
      BY <1>1, <1>2, <2>1 DEF VInv, Buffers, DoneInv
<1>4. RunInv'
    BY <1>1, <1>2, StillTraced DEF VInv, RunInv
<1>5. HonestInv'
    BY <1>1, <1>2 DEF VInv, HonestInv
<1>6. QED
    BY <1>3, <1>4, <1>5 DEF VInv

LEMMA RejectStep == ASSUME VInv, Reject PROVE VInv'
<1>1. /\ pc = "reject" /\ rejected < 9 /\ rejected \in 0..9
      /\ destination = before /\ completed = 6
    BY DEF Reject, Kinds, VInv, DoneInv
<1>2. Authorization(Kinds[rejected + 1]) # "ok"
  <2>1. rejected + 1 \in 1..9
      BY <1>1
  <2>2. Kinds[rejected + 1] \in {Kinds[i] : i \in 1..9}
      BY <2>1, Zenon
  <2>3. QED
      BY <2>2, AlteredRefused, Zenon
<1>3. /\ pc' = "reject" /\ rejected' = rejected + 1
      /\ UNCHANGED <<run, todo, deviceVars, before, historyVars>>
    BY <1>1, <1>2 DEF Reject, Goto
<1>4. QED
    BY <1>1, <1>3 DEF VInv, Buffers, RunInv, DoneInv, HonestInv, Working,
       deviceVars, historyVars

LEMMA ReceiptStep == ASSUME VInv, Receipt PROVE VInv'
<1>1. /\ pc = "reject"
      /\ UNCHANGED <<run, rejected, todo, deviceVars, before, historyVars>>
    BY DEF Receipt
<1>2. CASE builds = 1
  <2>1. pc' = "receipt"
      BY <1>2 DEF Receipt, Goto
  <2>2. QED
      BY <1>1, <1>2, <2>1 DEF VInv, Buffers, RunInv, DoneInv, HonestInv, Working,
         deviceVars, historyVars
<1>3. CASE builds # 1
  <2>1. pc' = "failed" /\ ~honest
      BY <1>1, <1>3 DEF Receipt, Abort, VInv, HonestInv
  <2>2. QED
      BY <1>1, <2>1, Failing DEF deviceVars, historyVars
<1>4. QED
    BY <1>2, <1>3

LEMMA StutterStep == ASSUME VInv, UNCHANGED vulkanVars PROVE VInv'
<1> USE DEF vulkanVars, deviceVars, historyVars
<1>1. Left' = Left /\ Working' = Working
    BY DEF Left, Working
<1>2. Buffers'
  <2>1. Upload(run)' = Upload(run)
      BY DEF Upload, Input
  <2>2. QED
      BY <2>1 DEF VInv, Buffers
<1>3. RunInv'
    BY <1>1, StillTraced DEF VInv, RunInv
<1>4. DoneInv' /\ rejected' \in 0..9
    BY DEF VInv, DoneInv
<1>5. HonestInv'
  <2>1. Result(run, 2 - Left)' = Result(run, 2 - Left)
      BY <1>1 DEF Result, Input, Kernel
  <2>2. QED
      BY <1>1, <2>1 DEF VInv, HonestInv
<1>6. QED
    BY <1>2, <1>3, <1>4, <1>5 DEF VInv

\* What a device that executes a command leaves alone, and what is left to do.
LEMMA Executing ==
    ASSUME VInv, DeviceExecutes
    PROVE  /\ pc = "execute" /\ pc' = "execute"
           /\ UNCHANGED <<run, rejected, source, before>>
           /\ todo \in Lists /\ todo' \in Lists
           /\ Left \in 1..3 /\ Left' = Left - 1 /\ Left = Len(todo)
           /\ completed' = 3 * run' + (3 - Left')
           /\ run \in {0, 1} /\ source = Upload(run)
           /\ Num(Head(todo)) = CopyTag <=> Left = 3
           /\ Num(Head(todo)) = DispatchTag <=> Left < 3
<1>1. /\ pc = "execute" /\ pc' = "execute" /\ todo # <<>> /\ todo' = Tail(todo)
      /\ completed' = completed + 1
      /\ UNCHANGED <<run, rejected, source, before>>
    BY DEF DeviceExecutes
<1>2. /\ todo \in Lists /\ run \in {0, 1} /\ source = Upload(run)
      /\ completed = 3 * run + (3 - Left)
    BY <1>1 DEF VInv, Buffers, RunInv, Working
<1>3. /\ Len(todo) \in 1..3 /\ Tail(todo) \in Lists
      /\ Len(Tail(todo)) = Len(todo) - 1
      /\ Num(Head(todo)) = CopyTag <=> Len(todo) = 3
      /\ Num(Head(todo)) = DispatchTag <=> Len(todo) < 3
  <2>1. Len(todo) \in 0..3 /\ Len(todo) # 0
      BY <1>1, <1>2, ListLengths
  <2>2. /\ Tail(todo) \in Lists
        /\ Len(Tail(todo)) = Len(todo) - 1
        /\ Num(Head(todo)) = CopyTag <=> Len(todo) = 3
        /\ Num(Head(todo)) = DispatchTag <=> Len(todo) < 3
      BY <1>1, <1>2, ListLengths, Zenon
  <2>3. Len(todo) \in 1..3
      BY <2>1
  <2>4. QED
      BY <2>2, <2>3, Zenon
<1>4. Left = Len(todo) /\ Left' = Len(todo')
    BY <1>1 DEF Left
<1>5. Left \in 1..3 /\ Left' = Left - 1
    BY <1>1, <1>3, <1>4
<1>6. completed' = 3 * run' + (3 - Left')
    BY <1>1, <1>2, <1>5
<1>7. todo' \in Lists
    BY <1>1, <1>3
<1>8. (Num(Head(todo)) = CopyTag <=> Left = 3) /\ (Num(Head(todo)) = DispatchTag <=> Left < 3)
    BY <1>3, <1>4, Zenon
<1>9. QED
    BY <1>1, <1>2, <1>4, <1>5, <1>6, <1>7, <1>8, Zenon

\* The copy gives the words it reaches the input of the run.
LEMMA DeviceCopyStep == ASSUME VInv, DeviceExecutes, Copy PROVE VInv'
<1>1. Left = 3 /\ Left' = 2
    BY Executing DEF Copy
<1>2. PICK part \in SUBSET Cells :
        /\ destination' = [c \in Cells |-> IF c \in part THEN source[c]
                                           ELSE destination[c]]
        /\ copied' = [w \in Words |-> copied[w] + (IF w \in part THEN 1 ELSE 0)]
        /\ honest' = (honest /\ part = Cells)
    BY DEF Copy
<1>3. /\ UNCHANGED <<run, rejected, source, before, builds, dispatched>>
      /\ pc = "execute" /\ pc' = "execute" /\ todo' \in Lists
      /\ completed' = 3 * run' + (3 - Left')
      /\ run \in {0, 1} /\ source = Upload(run)
    BY Executing DEF Copy
<1>4. Buffers'
  <2>1. Upload(run)' = Upload(run)
      BY <1>3 DEF Upload, Input
  <2>2. destination' \in [Cells -> Nat]
      BY <1>2 DEF VInv, Buffers
  <2>3. DOMAIN copied' = Words /\ DOMAIN dispatched' = Words
      BY <1>2, <1>3 DEF VInv, Buffers
  <2>4. QED
      BY <1>3, <2>1, <2>2, <2>3 DEF VInv, Buffers
<1>5. ASSUME NEW w \in Words PROVE Traced(w)'
  <2>1. PICK c \in {0, 1}, k \in {0, 1, 2} : Done(w, c, k)
      BY <1>3 DEF VInv, RunInv, Working, Traced
  <2>2. /\ copied[w] = run /\ dispatched[w] = 2 * run
        /\ destination[w] % 64 = Begun(run, 0)
    <3>1. c = 0 /\ k = 0
        BY <1>1, <2>1 DEF Done
    <3>2. QED
        BY <1>3, <2>1, <3>1, Turns DEF Done
  <2>3. w \in Cells
      BY WordCells
  <2>4. CASE w \in part
    <3>1. destination'[w] = Input(run, w)
        BY <1>2, <1>3, <2>3, <2>4, UploadInput
    <3>2. destination'[w] % 64 = Behind(Begun(run, 1), 0)
        BY <1>3, <3>1, InputFresh, Turns
    <3>3. copied'[w] = run + 1 /\ dispatched'[w] = 2 * run + 0
        BY <1>2, <1>3, <2>2, <2>4
    <3>4. Done(w, 1, 0)'
        BY <1>1, <1>3, <3>2, <3>3 DEF Done, Behind, Begun
    <3>5. QED
        BY <3>4 DEF Traced
  <2>5. CASE w \notin part
    <3>1. destination'[w] % 64 = Behind(Begun(run, 0), 0)
        BY <1>2, <2>2, <2>3, <2>5, Turns
    <3>2. copied'[w] = run + 0 /\ dispatched'[w] = 2 * run + 0
        BY <1>2, <1>3, <2>2, <2>5
    <3>3. Done(w, 0, 0)'
        BY <1>1, <1>3, <3>1, <3>2 DEF Done, Behind, Begun
    <3>4. QED
        BY <3>3 DEF Traced
  <2>6. QED
      BY <2>4, <2>5
<1>6. RunInv'
    BY <1>3, <1>5 DEF RunInv
<1>7. DoneInv' /\ rejected' \in 0..9
    BY <1>3 DEF VInv, DoneInv
<1>8. HonestInv'
  <2> SUFFICES ASSUME honest' PROVE HonestInv'
      BY DEF HonestInv
  <2>1. honest /\ part = Cells
      BY <1>2
  <2>2. builds = IF run = 0 THEN 0 ELSE 1
      BY <1>1, <1>3, <2>1 DEF VInv, HonestInv, Working
  <2>3. destination' = Result(run, 0)
    <3>1. destination' = [c \in Cells |-> source[c]]
        BY <1>2, <2>1
    <3>2. QED
        BY <1>3, <3>1, UploadInput DEF VInv, Buffers
  <2>4. Result(run, 0)' = Result(run, 0)
      BY <1>3 DEF Result, Input, Kernel
  <2>5. destination' = Result(run, 2 - Left)'
    <3>1. Result(run', 2 - Left') = Result(run', 0)
        BY <1>1
    <3>2. QED
        BY <1>3, <2>3, <3>1
  <2>6. QED
      BY <1>1, <1>3, <2>2, <2>5 DEF HonestInv
<1>9. QED
    BY <1>4, <1>6, <1>7, <1>8 DEF VInv

\* A dispatch turns the words it reaches.
LEMMA DispatchStep == ASSUME VInv, DeviceExecutes, Dispatch PROVE VInv'
<1>1. Left \in {1, 2} /\ Left' = Left - 1
    BY Executing DEF Dispatch
<1>2. PICK part \in SUBSET Words, rebuild \in BOOLEAN :
        /\ builds = 0 => rebuild
        /\ builds' = IF rebuild THEN builds + 1 ELSE builds
        /\ destination' = [c \in Cells |-> IF c \in part
                                           THEN Kernel(destination[c])
                                           ELSE destination[c]]
        /\ dispatched' = [w \in Words |->
                             dispatched[w] + (IF w \in part THEN 1 ELSE 0)]
        /\ honest' = (honest /\ part = Words /\ (rebuild => builds = 0))
    BY DEF Dispatch
<1>3. /\ UNCHANGED <<run, rejected, source, before, copied>>
      /\ pc = "execute" /\ pc' = "execute" /\ todo' \in Lists
      /\ completed' = 3 * run' + (3 - Left')
      /\ run \in {0, 1} /\ source = Upload(run)
    BY Executing DEF Dispatch
<1>4. destination \in [Cells -> Nat]
    BY DEF VInv, Buffers
<1>5. Buffers'
  <2>1. Upload(run)' = Upload(run)
      BY <1>3 DEF Upload, Input
  <2>2. destination' \in [Cells -> Nat]
      BY <1>2, <1>4, KernelTurns
  <2>3. DOMAIN copied' = Words /\ DOMAIN dispatched' = Words
      BY <1>2, <1>3 DEF VInv, Buffers
  <2>4. QED
      BY <1>3, <2>1, <2>2, <2>3 DEF VInv, Buffers
<1>6. ASSUME NEW w \in Words PROVE Traced(w)'
  <2>1. PICK c \in {0, 1}, k \in {0, 1, 2} : Done(w, c, k)
      BY <1>3 DEF VInv, RunInv, Working, Traced
  <2>2. /\ k \in {0, 1}
        /\ Left = 2 => k = 0
        /\ copied[w] = run + c /\ dispatched[w] = 2 * run + k
        /\ destination[w] % 64 = Behind(Begun(run, c), k)
      BY <1>1, <2>1 DEF Done
  <2>3. w \in Cells
      BY WordCells
  <2>4. CASE w \in part
    <3>1. destination'[w] % 64 = Turned(destination[w] % 64)
        BY <1>2, <1>4, <2>3, <2>4, KernelTurns
    <3>2. destination'[w] % 64 = Behind(Begun(run, c), k + 1)
        BY <2>2, <3>1, Turns DEF Behind
    <3>3. copied'[w] = run + c /\ dispatched'[w] = 2 * run + (k + 1)
        BY <1>2, <1>3, <2>2, <2>4
    <3>4. Left' \in {0, 1} /\ (Left' >= 1 => k + 1 <= 1) /\ run' = run
        BY <1>1, <1>3, <2>2
    <3>5. Done(w, c, k + 1)'
        BY <3>2, <3>3, <3>4 DEF Done
    <3>6. k + 1 \in {0, 1, 2}
        BY <2>2
    <3>7. QED
        BY <3>5, <3>6 DEF Traced
  <2>5. CASE w \notin part
    <3>1. destination'[w] % 64 = Behind(Begun(run, c), k)
        BY <1>2, <2>2, <2>3, <2>5
    <3>2. copied'[w] = run + c /\ dispatched'[w] = 2 * run + k
        BY <1>2, <1>3, <2>2, <2>5
    <3>3. Left' \in {0, 1} /\ (Left' >= 1 => k <= 1) /\ run' = run
        BY <1>1, <1>3, <2>2
    <3>4. Done(w, c, k)'
        BY <3>1, <3>2, <3>3 DEF Done
    <3>5. QED
        BY <3>4 DEF Traced
  <2>6. QED
      BY <2>4, <2>5
<1>7. RunInv'
    BY <1>3, <1>6 DEF RunInv
<1>8. DoneInv' /\ rejected' \in 0..9
    BY <1>3 DEF VInv, DoneInv
<1>9. HonestInv'
  <2> SUFFICES ASSUME honest' PROVE HonestInv'
      BY DEF HonestInv
  <2>1. honest /\ part = Words /\ (rebuild => builds = 0)
      BY <1>2
  <2>2. /\ builds = IF run = 0 /\ Left >= 2 THEN 0 ELSE 1
        /\ destination = Result(run, 2 - Left)
      BY <1>1, <1>3, <2>1 DEF VInv, HonestInv, Working
  <2>3. builds' = 1
      BY <1>2, <2>1, <2>2
  <2>4. destination' = Result(run, (2 - Left) + 1)
    <3>1. (2 - Left) \in {0, 1}
        BY <1>1
    <3> DEFINE n == 2 - Left
    <3> HIDE DEF n
    <3>2. n \in {0, 1} /\ destination = Result(run, n)
        BY <2>2, <3>1 DEF n
    <3>3. \A c \in Cells : c \in Words <=> (c # 0 /\ c # Groups + 1)
        BY WordCells
    <3>4. destination' = [c \in Cells |->
                             IF c # 0 /\ c # Groups + 1
                             THEN Kernel(destination[c]) ELSE destination[c]]
        BY <1>2, <2>1, <3>3
    <3>5. destination' = Result(run, n + 1)
        BY <3>2, <3>4 DEF Result
    <3>6. QED
        BY <3>5 DEF n
  <2>5. destination' = Result(run, 2 - Left)'
    <3>1. 2 - Left' = (2 - Left) + 1
        BY <1>1
    <3>2. \A j : Result(run, j)' = Result(run, j)
        BY <1>3 DEF Result, Input, Kernel
    <3>3. Result(run', 2 - Left') = Result(run, (2 - Left) + 1)
        BY <1>3, <3>1
    <3>4. QED
        BY <2>4, <3>3
  <2>6. QED
      BY <1>1, <1>3, <2>3, <2>5 DEF HonestInv
<1>10. QED
    BY <1>5, <1>7, <1>8, <1>9 DEF VInv

\* The readback passes only if every word was copied and dispatched twice,
\* and it passes if the device did all it was asked for.
LEMMA ReadbackStep == ASSUME VInv, Readback PROVE VInv'
<1>1. /\ pc = "execute" /\ todo = <<>> /\ run \in {0, 1} /\ Left = 0 /\ Working
      /\ destination \in [Cells -> Nat]
      /\ UNCHANGED <<rejected, source, destination, completed, builds,
                     copied, dispatched, honest>>
    BY DEF Readback, VInv, Buffers, Left, Working, deviceVars, historyVars
<1> DEFINE wrong == \/ \E w \in Words :
                           \/ destination[w] # Kernel(Kernel(Input(run, w)))
                           \/ destination[w] = Input(run, w)
                    \/ destination[0] # 60
                    \/ destination[Groups + 1] # 195
<1>2. \A w \in Words : /\ Input(run, w) \in Nat
                       /\ Input(run, w) % 64 = 7 + run
                       /\ Kernel(Kernel(Input(run, w))) % 64 = Behind(7 + run, 2)
  <2> SUFFICES ASSUME NEW w \in Words
               PROVE  /\ Input(run, w) \in Nat
                      /\ Input(run, w) % 64 = 7 + run
                      /\ Kernel(Kernel(Input(run, w))) % 64 = Behind(7 + run, 2)
      OBVIOUS
  <2>1. Input(run, w) \in Nat /\ Input(run, w) % 64 = 7 + run
      BY <1>1, InputFresh
  <2>2. /\ Kernel(Input(run, w)) \in Nat
        /\ Kernel(Input(run, w)) % 64 = Turned(7 + run)
      BY <2>1, KernelTurns
  <2>3. Kernel(Kernel(Input(run, w))) % 64 = Turned(Turned(7 + run))
      BY <2>2, KernelTurns
  <2>4. QED
      BY <2>1, <2>3, Turns
<1>3. completed = 3 * run + 3
    BY <1>1 DEF VInv, RunInv
<1>4. CASE wrong
  <2>1. pc' = "failed" /\ UNCHANGED <<run, before>>
      BY <1>4 DEF Readback, Abort
  <2>2. ~honest
    <3> SUFFICES ASSUME honest PROVE FALSE
        OBVIOUS
    <3>1. destination = Result(run, 2)
        BY <1>1 DEF VInv, HonestInv
    <3>2. ASSUME NEW w \in Words
          PROVE  /\ destination[w] = Kernel(Kernel(Input(run, w)))
                 /\ destination[w] # Input(run, w)
      <4>1. destination[w] = Kernel(Kernel(Input(run, w)))
          BY <3>1, WordCells DEF Result
      <4>2. Behind(7 + run, 2) # 7 + run
          BY <1>1, Turns
      <4>3. QED
          BY <1>2, <4>1, <4>2
    <3>3. destination[0] = 60 /\ destination[Groups + 1] = 195
      <4>1. Groups + 1 # 0
          BY VulkanAssumption
      <4>2. QED
          BY <3>1, <4>1, WordCells DEF Result
    <3>4. QED
        BY <1>4, <3>2, <3>3
  <2>3. QED
      BY <1>1, <2>1, <2>2, Failing
<1>5. CASE ~wrong
  <2>1. ASSUME NEW w \in Words
        PROVE  /\ copied[w] = run + 1 /\ dispatched[w] = 2 * run + 2
               /\ destination[w] % 64 = Behind(7 + run, 2)
    <3>1. PICK c \in {0, 1}, k \in {0, 1, 2} : Done(w, c, k)
        BY <1>1 DEF VInv, RunInv, Traced
    <3>2. destination[w] % 64 = Behind(7 + run, 2)
        BY <1>2, <1>5
    <3>3. Behind(Begun(run, c), k) = Behind(7 + run, 2)
        BY <3>1, <3>2 DEF Done
    <3>4. c = 1 /\ k = 2
        BY <1>1, <3>3, OneWay
    <3>5. QED
        BY <3>1, <3>2, <3>4 DEF Done
  <2>2. honest => builds = 1
      BY <1>1 DEF VInv, HonestInv
  <2>3. CASE run = 0
    <3>1. run' = 1 /\ pc' = "upload" /\ UNCHANGED before
        BY <1>5, <2>3 DEF Readback, Goto
    <3>2. Left' = 3 /\ Working' /\ completed' = 3
        BY <1>1, <1>3, <2>3, <3>1 DEF Left, Working
    <3>3. Buffers' /\ DoneInv' /\ rejected' \in 0..9
        BY <1>1, <3>1 DEF VInv, Buffers, DoneInv
    <3>4. ASSUME NEW w \in Words PROVE Traced(w)'
      <4>1. /\ copied[w] = 1 /\ dispatched[w] = 2
            /\ destination[w] % 64 = 27
          BY <2>1, <2>3, Turns
      <4>2. Done(w, 0, 0)'
          BY <1>1, <3>1, <3>2, <4>1 DEF Done, Behind, Begun
      <4>3. QED
          BY <4>2 DEF Traced
    <3>5. RunInv'
        BY <3>1, <3>2, <3>4 DEF RunInv
    <3>6. HonestInv'
        BY <1>1, <2>2, <3>1, <3>2 DEF HonestInv
    <3>7. QED
        BY <3>3, <3>5, <3>6 DEF VInv
  <2>4. CASE run = 1
    <3>1. before' = destination /\ pc' = "reject" /\ UNCHANGED run
        BY <1>5, <2>4 DEF Readback, Goto
    <3>2. Buffers' /\ rejected' \in 0..9 /\ RunInv'
        BY <1>1, <3>1 DEF VInv, Buffers, RunInv, Working
    <3>3. DoneInv'
      <4>1. \A w \in Words : copied[w] = 2 /\ dispatched[w] = 4
          BY <2>1, <2>4
      <4>2. completed = 6
          BY <1>3, <2>4
      <4>3. QED
          BY <1>1, <3>1, <4>1, <4>2 DEF DoneInv
    <3>4. HonestInv'
        BY <1>1, <2>2, <3>1 DEF HonestInv, Working
    <3>5. QED
        BY <3>2, <3>3, <3>4 DEF VInv
  <2>5. QED
      BY <1>1, <2>3, <2>4
<1>6. QED
    BY <1>4, <1>5

\* What the device did to each word in the run at hand, as far as the word's
\* remainder shows it, holds with the rest of VInv in every state.
THEOREM VulkanInvariant == VulkanSpec => []VInv
<1>1. ASSUME VInv, [VulkanNext]_vulkanVars PROVE VInv'
  <2>1. CASE DeviceExecutes
      BY <1>1, <2>1, DeviceCopyStep, DispatchStep DEF DeviceExecutes
  <2>2. CASE UNCHANGED vulkanVars
      BY <1>1, <2>2, StutterStep
  <2>3. QED
      BY <1>1, <2>1, <2>2, SetupStep, NormalizeStep, WriteSourceStep,
         SubmitStep, DeviceFailsStep, ReadbackStep, RejectStep, ReceiptStep
         DEF VulkanNext
<1>2. QED
    BY <1>1, VulkanInitInv, PTL DEF VulkanSpec

\* A receipt is true of the device, whatever that did of each command.
THEOREM ReceiptTrue == VulkanSpec => []ReceiptHonest
<1>1. VInv => ReceiptHonest
    BY DEF VInv, DoneInv, ReceiptHonest
<1>2. QED
    BY <1>1, VulkanInvariant, PTL

\* The program fails only behind a failure of the device or of its setup.
THEOREM NoAlarmWithoutFailure == VulkanSpec => []NoFalseAlarm
<1>1. VInv => NoFalseAlarm
    BY DEF VInv, HonestInv, NoFalseAlarm
<1>2. QED
    BY <1>1, VulkanInvariant, PTL

=============================================================================
