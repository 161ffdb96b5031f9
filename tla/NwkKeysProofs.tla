---------------------------- MODULE NwkKeysProofs ----------------------------
(***************************************************************************)
(* Proofs about the network keys, for every number of devices and every    *)
(* number of frames, sent, received and waiting.                           *)
(*                                                                         *)
(* They are about the first switch of the active key (OneSwitch): after a  *)
(* second one active_secur_material_i and active_key_seq_number may        *)
(* disagree, which a run shows.  Up to there the index of a slot is the    *)
(* label of its key at every node, and that is what the labels and the     *)
(* counters rest on.                                                       *)
(***************************************************************************)
EXTENDS NwkKeys, TLAPS

-----------------------------------------------------------------------------
(* The inductive invariant.                                                 *)

OneSwitch == MaxSwitches <= 1

\* The trust center generated all keys; its index follows its label, and the
\* label follows the switch unless that still awaits its confirm.
TcStore ==
    /\ auth[TC]
    /\ \A j \in Keys : nib[TC].key[j] = j /\ nib[TC].seq[j] = j
    /\ nib[TC].i = nib[TC].active
    /\ nib[TC].active = IF switches = 1 /\ ~keySw THEN 1 ELSE 0
    /\ switches <= 1
    /\ keySw => switches = 1

\* A slot of a device was never filled, or holds its own key; slot 0 may have
\* been forgotten.
OwnKey(m) ==
    /\ m.i = m.active
    /\ m.seq[0] = 0 /\ m.key[0] \in {0, Zero}
    /\ \A j \in {1, 2} : \/ m.seq[j] = j /\ m.key[j] = j
                         \/ m.seq[j] = 0 /\ m.key[j] = Zero

\* A device is never ahead of the trust center; with its key, it has used it
\* up; without, the key of slot 0 is gone.
DeviceStore ==
    \A d \in Devices :
        /\ OwnKey(nib[d])
        /\ nib[d].active <= nib[TC].active
        /\ auth[d] => nib[d].key[nib[d].i] = nib[d].active /\ joins[d] > 0 /\ ~KeyAhead(d)
        /\ ~auth[d] => nib[d].key[0] = Zero

\* What travels from the trust center: secured frames, which may carry the
\* key after the active one, and the key that answers a join.
ToDevices ==
    \A d \in Devices : \A j \in 1 .. Len(q[d]) :
        LET f == q[d][j]
        IN  /\ f.from = TC
            /\ f.seq <= nib[TC].active
            /\ f.secured => (f.body = NoMsg \/ f.body \in [key : {1, 2}, seq : {1, 2}])
            /\ ~f.secured => /\ f.seq = 0 /\ joins[d] > 0
                             /\ f.body \in [key : {0, 1}, seq : {0, 1}]
                             /\ f.body.seq \in nib[d].active .. nib[TC].active
            /\ f.body # NoMsg => f.body.key = f.body.seq
            /\ \A l \in 1 .. Len(q[d]) : ~f.secured /\ ~q[d][l].secured => j = l

\* What travels to the trust center.
ToTc ==
    /\ \A j \in 1 .. Len(q[TC]) :
         LET f == q[TC][j]
         IN  f.secured /\ f.from \in Devices /\ f.body = NoMsg /\ f.seq <= nib[TC].active
    /\ pend.seq <= nib[TC].active

\* A node numbers its frames no further than frames were sent.
Numbered == \A n \in Nodes : nib[n].out <= frames /\ nib[n].prev <= frames

\* The counter of the next frame a node with keys r secures under label l.
NextCnt(r, l) == IF l = r.active THEN r.out ELSE r.prev

\* The senders whose counters never started again.
Steady(m) == m = TC \/ joins[m] <= 1

\* Nobody has heard of m.
Silent(m) ==
    \A n \in Nodes : /\ nbr[n][m] = [seq |-> 0, cnt |-> 0]
                     /\ \A j \in 1 .. Len(q[n]) : q[n][j].from # m

\* A device that did not have a key yet was never heard.
Unheard ==
    \A d \in Devices :
        joins[d] = 0 \/ (joins[d] = 1 /\ KeyAhead(d)) => Silent(d)

\* A receiver with entry e and queue s has heard of no label and no counter of
\* sender m, whose keys are r, that is still to come.
Heeded(e, s, m, r) ==
    /\ e.seq <= r.active
    /\ e.cnt <= NextCnt(r, e.seq)
    /\ \A j \in 1 .. Len(s) : s[j].from = m /\ s[j].secured =>
         /\ s[j].seq <= r.active
         /\ s[j].cnt < NextCnt(r, s[j].seq)

\* The frames of m under one label come in the order of their counters, none
\* of them before what was noted.
InOrder(e, s, m) ==
    \A j \in 1 .. Len(s) : s[j].from = m /\ s[j].secured =>
        /\ e.seq = s[j].seq => e.cnt <= s[j].cnt
        /\ \A l \in j + 1 .. Len(s) :
             s[l].from = m /\ s[l].secured /\ s[l].seq = s[j].seq =>
                 s[j].cnt < s[l].cnt

CountersInOrder ==
    \A n, m \in Nodes : Steady(m) =>
        Heeded(nbr[n][m], q[n], m, nib[m]) /\ InOrder(nbr[n][m], q[n], m)

\* What waits is a sequence of frames.
Queues == q \in [Nodes -> Seq(Frames)]

KeyInv ==
    /\ TypeOK
    /\ Queues
    /\ TcStore
    /\ DeviceStore
    /\ ToDevices
    /\ ToTc
    /\ Numbered
    /\ Unheard
    /\ CountersInOrder

-----------------------------------------------------------------------------
(* The key store.                                                           *)

\* The keys of a node.
MatKeys == [0 .. N - 1 -> Keys \cup {Zero}]
MatSeqs == [0 .. N - 1 -> Labels]
Mat == [key : MatKeys, seq : MatSeqs, i : 0 .. N - 1, active : Labels,
        out : 0 .. MaxFrames, prev : 0 .. MaxFrames]

\* A set of small numbers has a least one.
LEMMA LeastSmall ==
  ASSUME NEW S, S \subseteq {0, 1, 2, 3}, S # {}
  PROVE  Min(S) \in S /\ \A y \in S : Min(S) <= y
<1>1. \E x \in S : \A y \in S : x <= y
  <2>1. CASE 0 \in S
    BY <2>1
  <2>2. CASE 0 \notin S /\ 1 \in S
    BY <2>2
  <2>3. CASE 0 \notin S /\ 1 \notin S /\ 2 \in S
    BY <2>3
  <2>4. CASE 0 \notin S /\ 1 \notin S /\ 2 \notin S
    <3>1. 3 \in S /\ \A y \in S : y = 3
      BY <2>4
    <3> QED
      BY <3>1
  <2> QED
    BY <2>1, <2>2, <2>3, <2>4
<1> QED
  BY <1>1 DEF Min

\* secur_nwk_key_by_seq() of a label finds a slot that carries it, or nothing.
LEMMA FindsLabel ==
  ASSUME NEW m \in Mat, NEW s \in Labels
  PROVE  \/ \E j \in Keys : m.seq[j] = s /\ KeyBySeq(m, s) = m.key[j]
         \/ KeyBySeq(m, s) = Missing /\ \A j \in Keys : m.seq[j] # s
<1> DEFINE hits == {c \in 0 .. 2 : m.seq[(m.i + c) % 3] = s}
<1>1. m.i \in 0 .. 2
  BY DEF Mat, N
<1>2. hits \subseteq {0, 1, 2, 3}
  OBVIOUS
<1>3. KeyBySeq(m, s) = IF hits = {} THEN Missing ELSE m.key[(m.i + Min(hits)) % 3]
  BY DEF KeyBySeq, N
<1>4. CASE hits = {}
  <2>1. \A c \in 0 .. 2 : m.seq[(m.i + c) % 3] # s
    BY <1>4
  <2>2. SUFFICES ASSUME NEW j \in 0 .. 2
                 PROVE  m.seq[j] # s
    BY <1>3, <1>4 DEF Keys, N
  <2>3. \E c \in 0 .. 2 : (m.i + c) % 3 = j
    <3>1. CASE j >= m.i
      <4>1. j - m.i \in 0 .. 2 /\ m.i + (j - m.i) = j
        BY <3>1, <1>1
      <4>2. (m.i + (j - m.i)) % 3 = j
        BY <4>1
      <4> QED
        BY <4>1, <4>2
    <3>2. CASE j < m.i
      <4>1. j - m.i + 3 \in 0 .. 2 /\ m.i + (j - m.i + 3) = j + 3
        BY <3>2, <1>1
      <4>2. (j + 3) % 3 = j
        OBVIOUS
      <4> QED
        BY <4>1, <4>2
    <3> QED
      BY <3>1, <3>2, <1>1
  <2> QED
    BY <2>1, <2>3
<1>5. CASE hits # {}
  <2> HIDE DEF hits
  <2>1. PICK c : c = Min(hits)
    OBVIOUS
  <2>2. c \in hits
    BY <2>1, <1>2, <1>5, LeastSmall
  <2>3. c \in 0 .. 2 /\ m.seq[(m.i + c) % 3] = s
    BY <2>2 DEF hits
  <2>4. (m.i + c) % 3 \in 0 .. 2
    BY <2>3, <1>1
  <2> QED
    BY <2>1, <2>3, <2>4, <1>3, <1>5 DEF Keys, N
<1> QED
  BY <1>4, <1>5

\* The key after the active one, found in the store of the trust center, is the
\* one that label stands for.
LEMMA TcFinds ==
  ASSUME NEW m \in Mat, \A j \in Keys : m.key[j] = j /\ m.seq[j] = j,
         NEW s \in Labels, KeyBySeq(m, s) # Missing
  PROVE  KeyBySeq(m, s) = s /\ s \in Keys
BY FindsLabel

\* A key is found under a label by the slot that has the number of the label.
LEMMA OwnFinds ==
  ASSUME NEW m \in Mat, OwnKey(m), KeyBySeq(m, 1) # Missing
  PROVE  m.seq[1] = 1 /\ m.key[1] = 1
<1>1. PICK j \in Keys : m.seq[j] = 1
  BY FindsLabel DEF Labels, N
<1> QED
  BY <1>1 DEF OwnKey, Keys, N

\* What is found is a key.
LEMMA FindsKey ==
  ASSUME NEW m \in Mat, NEW s \in Labels, KeyBySeq(m, s) # Missing
  PROVE  KeyBySeq(m, s) \in Keys \cup {Zero}
BY FindsLabel DEF Mat, MatKeys, Keys, N

\* A key that is not older than the active one goes to the slot of its label.
LEMMA StoreEffect ==
  ASSUME NEW m \in Mat, OwnKey(m), m.active <= 1,
         NEW s \in {0, 1, 2}, m.active <= s
  PROVE  /\ StoreKey(m, s, s) = [m EXCEPT !.key = [@ EXCEPT ![s] = s], !.seq = [@ EXCEPT ![s] = s]]
         /\ StoreKey(m, s, s) \in Mat
         /\ OwnKey(StoreKey(m, s, s))
         /\ StoreKey(m, s, s).key[s] = s
         /\ \A j \in Keys : m.key[j] = j => StoreKey(m, s, s).key[j] = j
         /\ StoreKey(m, s, s).active = m.active
         /\ StoreKey(m, s, s).i = m.i
         /\ StoreKey(m, s, s).out = m.out
         /\ StoreKey(m, s, s).prev = m.prev
<1> DEFINE m2 == [m EXCEPT !.key = [@ EXCEPT ![s] = s], !.seq = [@ EXCEPT ![s] = s]]
<1>1. m.active \in {0, 1} /\ m.i = m.active
  BY DEF OwnKey, Mat, Labels, N
<1>2. SlotOf(m, s) = s
  <2>1. CASE m.active = 0 /\ s = 0
    BY <1>1, <2>1 DEF SlotOf, Diff8, N
  <2>2. CASE m.active = 0 /\ s = 1
    BY <1>1, <2>2 DEF SlotOf, Diff8, N
  <2>3. CASE m.active = 0 /\ s = 2
    BY <1>1, <2>3 DEF SlotOf, Diff8, N
  <2>4. CASE m.active = 1 /\ s = 1
    BY <1>1, <2>4 DEF SlotOf, Diff8, N
  <2>5. CASE m.active = 1 /\ s = 2
    BY <1>1, <2>5 DEF SlotOf, Diff8, N
  <2> QED
    BY <1>1, <2>1, <2>2, <2>3, <2>4, <2>5
<1>3. StoreKey(m, s, s) = m2
  BY <1>1, <1>2 DEF StoreKey
<1>4. m.key \in MatKeys /\ m.seq \in MatSeqs
  BY DEF Mat
<1>5. [m.key EXCEPT ![s] = s] \in MatKeys /\ [m.seq EXCEPT ![s] = s] \in MatSeqs
  BY <1>4 DEF MatKeys, MatSeqs, N, Keys, Labels
<1>6. m2 \in Mat /\ m2.key = [m.key EXCEPT ![s] = s] /\ m2.seq = [m.seq EXCEPT ![s] = s]
      /\ m2.active = m.active /\ m2.i = m.i /\ m2.out = m.out /\ m2.prev = m.prev
  BY <1>5 DEF Mat
<1>7. /\ \A j \in 0 .. 2 : m2.key[j] = IF j = s THEN s ELSE m.key[j]
      /\ \A j \in 0 .. 2 : m2.seq[j] = IF j = s THEN s ELSE m.seq[j]
  BY <1>4, <1>6 DEF MatKeys, MatSeqs, N
<1> HIDE DEF m2
<1>8. OwnKey(m2)
  BY <1>1, <1>6, <1>7 DEF OwnKey
<1>9. m2.key[s] = s /\ \A j \in Keys : m.key[j] = j => m2.key[j] = j
  BY <1>7 DEF Keys, N
<1> QED
  BY <1>3, <1>6, <1>8, <1>9 DEF m2

\* secur_nwk_key_switch() from the first key to the second: one turn, and the
\* frames under the first key go on with its counter.
LEMMA SwitchEffect ==
  ASSUME NEW m \in Mat, m.i = 0, m.active = 0, m.seq[1] = 1, m.seq[2] # 1
  PROVE  /\ Switch(m, 1) \in Mat
         /\ Switch(m, 1).key = m.key /\ Switch(m, 1).seq = m.seq
         /\ Switch(m, 1).i = 1 /\ Switch(m, 1).active = 1
         /\ Switch(m, 1).out = 0 /\ Switch(m, 1).prev = m.out
<1> DEFINE S == {c \in 0 .. 3 : c = 3 \/ m.seq[(c + 1) % 3] # 1}
<1>1. Turns(m, 1) = Min(S)
  BY DEF Turns, N
<1>2. (0 + 1) % 3 = 1 /\ (1 + 1) % 3 = 2
  OBVIOUS
<1>3. 0 \notin S /\ 1 \in S /\ S \subseteq {0, 1, 2, 3}
  BY <1>2
<1> HIDE DEF S
<1>4. Min(S) = 1
  <2>1. PICK x : x = Min(S)
    OBVIOUS
  <2>2. x \in S /\ x <= 1
    BY <2>1, <1>3, LeastSmall
  <2> QED
    BY <2>1, <2>2, <1>3
<1>5. Turns(m, 1) = 1
  BY <1>1, <1>4
<1>6. Switch(m, 1) = [m EXCEPT !.i = 1, !.active = 1, !.prev = m.out, !.out = 0]
  <2>1. ~(1 = N)
    BY DEF N
  <2> QED
    BY <1>5, <2>1, Zenon DEF Switch
<1>7. 0 \in 0 .. MaxFrames /\ 1 \in 0 .. N - 1 /\ 1 \in Labels
  BY KeyAssumption DEF N, Labels
<1> QED
  BY <1>6, <1>7 DEF Mat

\* zb_apsme_transport_key_indication() for a device that waits for its key.
LEMMA FirstEffect ==
  ASSUME NEW m \in Mat, OwnKey(m), m.active <= 1,
         NEW s \in {0, 1}, m.active <= s
  PROVE  /\ FirstKey(m, s, s) \in Mat
         /\ OwnKey(FirstKey(m, s, s))
         /\ FirstKey(m, s, s).active = s /\ FirstKey(m, s, s).key[s] = s
         /\ FirstKey(m, s, s).i = s
         /\ FirstKey(m, s, s).out = 0
         /\ FirstKey(m, s, s).prev = m.prev
<1>1. SlotOf(m, s) = s
  <2>1. m.active \in {0, 1} /\ m.i = m.active
    BY DEF OwnKey, Mat, Labels, N
  <2>2. CASE m.active = 0 /\ s = 0
    BY <2>1, <2>2 DEF SlotOf, Diff8, N
  <2>3. CASE m.active = 0 /\ s = 1
    BY <2>1, <2>3 DEF SlotOf, Diff8, N
  <2>4. CASE m.active = 1 /\ s = 1
    BY SMTT(40), <2>1, <2>4 DEF SlotOf, Diff8, N
  <2> QED
    BY <2>1, <2>2, <2>3, <2>4
<1>2. PICK m1 \in Mat : /\ m1 = StoreKey(m, s, s) /\ OwnKey(m1) /\ m1.key[s] = s
                        /\ m1.prev = m.prev
  <2>1. s \in {0, 1, 2}
    OBVIOUS
  <2> QED
    BY ZenonT(60), <2>1, StoreEffect
<1>3. FirstKey(m, s, s) = [m1 EXCEPT !.active = s, !.out = 0, !.i = s]
  <2>1. ~(s = Zero /\ s = 0)
    BY DEF Zero
  <2> QED
    BY <1>1, <1>2, <2>1 DEF FirstKey
<1>4. 0 \in 0 .. MaxFrames /\ s \in 0 .. N - 1 /\ s \in Labels
  BY KeyAssumption DEF N, Labels
<1> DEFINE m2 == [m1 EXCEPT !.active = s, !.out = 0, !.i = s]
<1>5. m2 \in Mat /\ m2.active = s /\ m2.out = 0 /\ m2.i = s
      /\ m2.key = m1.key /\ m2.seq = m1.seq /\ m2.prev = m1.prev
  BY <1>2, <1>4 DEF Mat
<1> HIDE DEF m2
<1>6. OwnKey(m2)
  BY <1>2, <1>5 DEF OwnKey
<1> QED
  BY <1>2, <1>3, <1>5, <1>6 DEF m2

-----------------------------------------------------------------------------
(* Counters.                                                                *)

\* What a node keeps about a sender.
Notes == [seq : Labels, cnt : 0 .. MaxFrames - 1]

\* Keys r2 go on where r was: no label and no counter is used again.
Onward(r, r2) ==
    /\ r.active <= r2.active
    /\ \A l \in 0 .. r.active : NextCnt(r, l) <= NextCnt(r2, l)

\* The next counter is a number.
LEMMA NextCntType ==
  ASSUME NEW r \in Mat, NEW l
  PROVE  NextCnt(r, l) \in 0 .. MaxFrames
BY DEF NextCnt, Mat

\* Frames in a queue have the fields of a frame.
LEMMA FrameFields ==
  ASSUME NEW s \in Seq(Frames), NEW j \in 1 .. Len(s)
  PROVE  /\ s[j] \in Frames /\ s[j].seq \in Labels /\ s[j].cnt \in 0 .. MaxFrames - 1
         /\ s[j].secured \in BOOLEAN /\ s[j].from \in Nodes
<1>1. s[j] \in Frames
  OBVIOUS
<1> QED
  BY <1>1 DEF Frames

\* Whatever was heard of the counters stays true when they go on.
LEMMA HeededOnward ==
  ASSUME NEW e \in Notes, NEW s \in Seq(Frames), NEW m, NEW r \in Mat, NEW r2 \in Mat,
         Heeded(e, s, m, r), Onward(r, r2)
  PROVE  Heeded(e, s, m, r2)
<1>1. r.active \in 0 .. 3 /\ r2.active \in 0 .. 3 /\ r.active <= r2.active
  BY DEF Mat, Labels, N, Onward
<1>2. ASSUME NEW l \in Labels, l <= r.active
      PROVE  NextCnt(r, l) <= NextCnt(r2, l) /\ l <= r2.active
  BY <1>1, <1>2 DEF Onward, Labels, N
<1>3. e.seq <= r2.active /\ e.cnt <= NextCnt(r2, e.seq)
  <2>1. e.seq \in Labels /\ e.cnt \in Int /\ NextCnt(r, e.seq) \in Int /\ NextCnt(r2, e.seq) \in Int
    BY NextCntType DEF Notes
  <2>2. e.seq <= r.active /\ e.cnt <= NextCnt(r, e.seq)
    BY DEF Heeded
  <2> QED
    BY <2>1, <2>2, <1>2
<1>4. ASSUME NEW j \in 1 .. Len(s), s[j].from = m, s[j].secured
      PROVE  s[j].seq <= r2.active /\ s[j].cnt < NextCnt(r2, s[j].seq)
  <2>1. s[j].seq \in Labels /\ s[j].cnt \in Int
        /\ NextCnt(r, s[j].seq) \in Int /\ NextCnt(r2, s[j].seq) \in Int
    BY NextCntType, FrameFields
  <2>2. s[j].seq <= r.active /\ s[j].cnt < NextCnt(r, s[j].seq)
    BY <1>4 DEF Heeded
  <2> QED
    BY <2>1, <2>2, <1>2
<1> QED
  BY <1>3, <1>4 DEF Heeded

\* A frame of another sender changes nothing.
LEMMA AppendOther ==
  ASSUME NEW e \in Notes, NEW s \in Seq(Frames), NEW m, NEW r \in Mat, NEW f \in Frames,
         Heeded(e, s, m, r), InOrder(e, s, m), f.from # m \/ ~f.secured
  PROVE  Heeded(e, Append(s, f), m, r) /\ InOrder(e, Append(s, f), m)
<1> DEFINE s2 == Append(s, f)
<1>1. /\ Len(s2) = Len(s) + 1 /\ Len(s) \in Nat
      /\ \A j \in 1 .. Len(s2) : s2[j] = IF j <= Len(s) THEN s[j] ELSE f
  OBVIOUS
<1> HIDE DEF s2
<1>2. \A j \in 1 .. Len(s2) : s2[j].from = m /\ s2[j].secured => j \in 1 .. Len(s) /\ s2[j] = s[j]
  BY <1>1
<1>3. Heeded(e, s2, m, r)
  BY <1>2 DEF Heeded
<1>4. InOrder(e, s2, m)
  BY <1>1, <1>2 DEF InOrder
<1> QED
  BY <1>3, <1>4 DEF s2

\* A frame of the sender itself takes the next counter.
LEMMA AppendOwn ==
  ASSUME NEW e \in Notes, NEW s \in Seq(Frames), NEW m, NEW r \in Mat, NEW r2 \in Mat,
         NEW f \in Frames,
         Heeded(e, s, m, r), InOrder(e, s, m), Onward(r, r2),
         f.from = m, f.seq <= r.active,
         f.cnt = NextCnt(r, f.seq), f.cnt < NextCnt(r2, f.seq)
  PROVE  Heeded(e, Append(s, f), m, r2) /\ InOrder(e, Append(s, f), m)
<1> DEFINE s2 == Append(s, f)
<1>1. /\ Len(s2) = Len(s) + 1 /\ Len(s) \in Nat
      /\ \A j \in 1 .. Len(s2) : s2[j] = IF j <= Len(s) THEN s[j] ELSE f
  OBVIOUS
<1> HIDE DEF s2
<1>2. Heeded(e, s, m, r2)
  BY HeededOnward
<1>3. f.seq <= r2.active
  BY DEF Onward, Mat, Frames, Labels, N
<1>4. Heeded(e, s2, m, r2)
  BY <1>1, <1>2, <1>3 DEF Heeded
<1>5. ASSUME NEW j \in 1 .. Len(s2), s2[j].from = m, s2[j].secured
      PROVE  /\ e.seq = s2[j].seq => e.cnt <= s2[j].cnt
             /\ \A l \in j + 1 .. Len(s2) :
                  s2[l].from = m /\ s2[l].secured /\ s2[l].seq = s2[j].seq => s2[j].cnt < s2[l].cnt
  <2>1. CASE j = Len(s) + 1
    <3>1. s2[j] = f /\ ~\E l \in j + 1 .. Len(s2) : TRUE
      BY <2>1, <1>1
    <3>2. e.seq = f.seq => e.cnt <= f.cnt
      BY DEF Heeded
    <3> QED
      BY <3>1, <3>2
  <2>2. CASE j # Len(s) + 1
    <3>1. j \in 1 .. Len(s) /\ s2[j] = s[j]
      BY <2>2, <1>1
    <3>2. e.seq = s2[j].seq => e.cnt <= s2[j].cnt
      BY <1>5, <3>1 DEF InOrder
    <3>3. ASSUME NEW l \in j + 1 .. Len(s2), s2[l].from = m, s2[l].secured, s2[l].seq = s2[j].seq
          PROVE  s2[j].cnt < s2[l].cnt
      <4>1. CASE l = Len(s) + 1
        <5>1. s2[l] = f
          BY <4>1, <1>1
        <5>2. s[j].cnt < NextCnt(r, s[j].seq)
          BY <1>5, <3>1 DEF Heeded
        <5> QED
          BY <5>1, <5>2, <3>1, <3>3
      <4>2. CASE l # Len(s) + 1
        <5>1. l \in j + 1 .. Len(s) /\ s2[l] = s[l]
          BY <4>2, <1>1, <3>1
        <5> QED
          BY <5>1, <3>1, <3>3, <1>5 DEF InOrder
      <4> QED
        BY <4>1, <4>2
    <3> QED
      BY <3>2, <3>3
  <2> QED
    BY <2>1, <2>2
<1>6. InOrder(e, s2, m)
  BY <1>5 DEF InOrder
<1> QED
  BY <1>4, <1>6 DEF s2

\* The rest of the queue, with the same entry.
LEMMA TailKeeps ==
  ASSUME NEW e \in Notes, NEW s \in Seq(Frames), s # << >>, NEW m, NEW r \in Mat,
         Heeded(e, s, m, r), InOrder(e, s, m)
  PROVE  Heeded(e, Tail(s), m, r) /\ InOrder(e, Tail(s), m)
<1> DEFINE s2 == Tail(s)
<1>1. /\ Len(s2) = Len(s) - 1 /\ Len(s) \in Nat
      /\ \A j \in 1 .. Len(s2) : s2[j] = s[j + 1]
  OBVIOUS
<1> HIDE DEF s2
<1>2. \A j \in 1 .. Len(s2) : j + 1 \in 1 .. Len(s) /\ s2[j] = s[j + 1]
  BY <1>1
<1>3. Heeded(e, s2, m, r)
  BY <1>2 DEF Heeded
<1>4. ASSUME NEW j \in 1 .. Len(s2), s2[j].from = m, s2[j].secured
      PROVE  /\ e.seq = s2[j].seq => e.cnt <= s2[j].cnt
             /\ \A l \in j + 1 .. Len(s2) :
                  s2[l].from = m /\ s2[l].secured /\ s2[l].seq = s2[j].seq => s2[j].cnt < s2[l].cnt
  <2>1. j + 1 \in 1 .. Len(s) /\ s2[j] = s[j + 1]
    BY <1>2
  <2>2. /\ e.seq = s[j + 1].seq => e.cnt <= s[j + 1].cnt
        /\ \A l \in j + 2 .. Len(s) :
             s[l].from = m /\ s[l].secured /\ s[l].seq = s[j + 1].seq => s[j + 1].cnt < s[l].cnt
    <3>1. (j + 1) + 1 = j + 2
      OBVIOUS
    <3> QED
      BY <1>4, <2>1, <3>1 DEF InOrder
  <2>3. \A l \in j + 1 .. Len(s2) : l + 1 \in j + 2 .. Len(s) /\ s2[l] = s[l + 1]
    BY <1>1
  <2> QED
    BY <2>1, <2>2, <2>3
<1>5. InOrder(e, s2, m)
  BY <1>4 DEF InOrder
<1> QED
  BY <1>3, <1>5 DEF s2

\* The entry follows the frame that was taken, or its label alone.
LEMMA NotedKeeps ==
  ASSUME NEW e \in Notes, NEW s \in Seq(Frames), s # << >>, NEW m, NEW r \in Mat,
         Heeded(e, s, m, r), InOrder(e, s, m),
         Head(s).from = m, Head(s).secured,
         NEW e2 \in Notes,
         \/ e2 = e
         \/ e2 = [seq |-> Head(s).seq, cnt |-> Head(s).cnt]
         \/ e2 = [seq |-> Head(s).seq, cnt |-> 0]
  PROVE  Heeded(e2, Tail(s), m, r) /\ InOrder(e2, Tail(s), m)
<1>1. Heeded(e, Tail(s), m, r) /\ InOrder(e, Tail(s), m)
  BY TailKeeps
<1>2. CASE e2 = e
  BY <1>1, <1>2
<1>3. CASE e2 # e
  <2>1. PICK f \in Frames : f = Head(s) /\ f = s[1]
    OBVIOUS
  <2>2. f.seq \in Labels /\ f.cnt \in 0 .. MaxFrames - 1
    BY <2>1 DEF Frames
  <2>3. f.seq <= r.active /\ f.cnt < NextCnt(r, f.seq)
    <3>1. 1 \in 1 .. Len(s)
      OBVIOUS
    <3> QED
      BY <2>1, <3>1 DEF Heeded
  <2>4. NextCnt(r, f.seq) \in Int
    BY NextCntType
  <2>5. e2.seq = f.seq /\ e2.cnt <= f.cnt /\ e2.cnt \in Int
    BY <1>3, <2>1, <2>2 DEF Notes
  <2>6. Heeded(e2, Tail(s), m, r)
    BY <1>1, <2>2, <2>3, <2>4, <2>5 DEF Heeded
  <2>7. \A l \in 2 .. Len(s) : s[l].from = m /\ s[l].secured /\ s[l].seq = f.seq => f.cnt < s[l].cnt
    <3>1. 1 \in 1 .. Len(s) /\ 1 + 1 = 2
      OBVIOUS
    <3> QED
      BY <2>1, <3>1 DEF InOrder
  <2>8. ASSUME NEW j \in 1 .. Len(Tail(s)), Tail(s)[j].from = m, Tail(s)[j].secured,
               e2.seq = Tail(s)[j].seq
        PROVE  e2.cnt <= Tail(s)[j].cnt
    <3>1. j + 1 \in 2 .. Len(s) /\ Tail(s)[j] = s[j + 1]
      OBVIOUS
    <3>2. s[j + 1].cnt \in Int
      BY <3>1, FrameFields
    <3> QED
      BY <3>1, <3>2, <2>5, <2>7, <2>8, <2>2
  <2>9. InOrder(e2, Tail(s), m)
    BY <1>1, <2>8 DEF InOrder
  <2> QED
    BY <2>6, <2>9
<1> QED
  BY <1>2, <1>3

\* Nothing was heard, so nothing is ahead.
LEMMA SilentHeeded ==
  ASSUME NEW e, NEW s \in Seq(Frames), NEW m, NEW r \in Mat,
         e = [seq |-> 0, cnt |-> 0], \A j \in 1 .. Len(s) : s[j].from # m
  PROVE  Heeded(e, s, m, r) /\ InOrder(e, s, m)
<1>1. 0 <= r.active /\ 0 <= NextCnt(r, 0)
  BY NextCntType DEF Mat, Labels, N
<1> QED
  BY <1>1 DEF Heeded, InOrder

-----------------------------------------------------------------------------
(* Frames that are sent.                                                    *)

\* TypeOK, as far as it is about the keys and the entries.
LEMMA Types ==
  ASSUME TypeOK
  PROVE  /\ nib \in [Nodes -> Mat]
         /\ \A n, m \in Nodes : nbr[n][m] \in Notes
         /\ auth \in [Nodes -> BOOLEAN] /\ joins \in [Devices -> 0 .. 2]
         /\ frames \in 0 .. MaxFrames /\ switches \in 0 .. MaxSwitches /\ keySw \in BOOLEAN
         /\ pend \in [from : Nodes, seq : Labels] /\ pend.seq \in Labels
         /\ TC \in Nodes /\ Devices \subseteq Nodes /\ \A d \in Devices : d # TC
         /\ \A n \in Nodes : n = TC \/ n \in Devices
BY SMTT(40), KeyAssumption DEF TypeOK, Mat, MatKeys, MatSeqs, Notes, Nodes

\* What sending frame f to the nodes of R does.
Sent(n, R, f) ==
    /\ nib' \in [Nodes -> Mat]
    /\ \A x \in Nodes : x # n => nib'[x] = nib[x]
    /\ nib'[n].key = nib[n].key /\ nib'[n].seq = nib[n].seq
    /\ nib'[n].i = nib[n].i /\ nib'[n].active = nib[n].active
    /\ nib'[n].out <= frames + 1 /\ nib'[n].prev <= frames + 1
    /\ Onward(nib[n], nib'[n])
    /\ f.secured /\ f.from = n /\ f.seq <= nib[n].active
    /\ f.cnt = NextCnt(nib[n], f.seq) /\ f.cnt < NextCnt(nib'[n], f.seq)
    /\ frames < MaxFrames /\ frames' = frames + 1
    /\ q' \in [Nodes -> Seq(Frames)]
    /\ \A r \in Nodes : q'[r] = q[r] \/ (r \in R /\ q'[r] = Append(q[r], f))

\* zb_nwk_secure_frame() takes the next counter of the label it uses.
LEMMA CountedEffect ==
  ASSUME NEW r \in Mat, r.active <= 1, NEW same \in BOOLEAN, NEW s \in Labels,
         same => s <= r.active, r.out < MaxFrames, r.prev < MaxFrames
  PROVE  LET r2 == Counted(r, same, s)
         IN  /\ r2 \in Mat
             /\ r2.key = r.key /\ r2.seq = r.seq /\ r2.i = r.i /\ r2.active = r.active
             /\ r2.out <= r.out + 1 /\ r2.prev <= r.prev + 1
             /\ Onward(r, r2)
             /\ Label(r, same, s) \in Labels /\ Label(r, same, s) <= r.active
             /\ Counter(r, same, s) = NextCnt(r, Label(r, same, s))
             /\ Counter(r, same, s) < NextCnt(r2, Label(r, same, s))
<1> DEFINE r2 == Counted(r, same, s)
<1>1. r.active \in 0 .. 1 /\ r.active \in Labels /\ r.out \in Nat /\ r.prev \in Nat
  BY KeyAssumption DEF Mat, Labels, N
<1>2. CASE Old(r, same, s)
  <2>1. same /\ s # r.active /\ s < r.active
    BY <1>1, <1>2 DEF Old, Labels, N
  <2>2. r2 = [r EXCEPT !.prev = r.prev + 1] /\ Label(r, same, s) = s
        /\ Counter(r, same, s) = r.prev
    BY <1>2 DEF Counted, Label, Counter
  <2>3. r.prev + 1 \in 0 .. MaxFrames
    BY <1>1, KeyAssumption
  <2>4. /\ r2 \in Mat /\ r2.key = r.key /\ r2.seq = r.seq /\ r2.i = r.i
        /\ r2.active = r.active /\ r2.out = r.out /\ r2.prev = r.prev + 1
    BY <2>2, <2>3 DEF Mat
  <2>5. Onward(r, r2)
    BY <1>1, <2>4 DEF Onward, NextCnt
  <2>6. NextCnt(r, s) = r.prev /\ NextCnt(r2, s) = r.prev + 1
    BY <2>1, <2>4 DEF NextCnt
  <2>7. r.out <= r.out + 1 /\ r.prev + 1 <= r.prev + 1 /\ r.prev < r.prev + 1
    BY <1>1
  <2>8. s <= r.active
    BY <1>1, <2>1 DEF Labels, N
  <2> QED
    BY <2>2, <2>4, <2>5, <2>6, <2>7, <2>8
<1>3. CASE ~Old(r, same, s)
  <2>2. r2 = [r EXCEPT !.out = r.out + 1] /\ Label(r, same, s) = r.active
        /\ Counter(r, same, s) = r.out
    BY <1>3 DEF Counted, Label, Counter
  <2>3. r.out + 1 \in 0 .. MaxFrames
    BY <1>1, KeyAssumption
  <2>4. /\ r2 \in Mat /\ r2.key = r.key /\ r2.seq = r.seq /\ r2.i = r.i
        /\ r2.active = r.active /\ r2.prev = r.prev /\ r2.out = r.out + 1
    BY <2>2, <2>3 DEF Mat
  <2>5. Onward(r, r2)
    BY <1>1, <2>4 DEF Onward, NextCnt
  <2> QED
    BY <1>1, <2>2, <2>4, <2>5 DEF NextCnt
<1> QED
  BY <1>2, <1>3

\* Air() sends one frame at most, and everybody it reaches gets the same one.
LEMMA AirEffect ==
  ASSUME TypeOK, Queues, Numbered,
         NEW n \in Nodes, NEW R \in SUBSET Nodes, NEW same \in BOOLEAN, NEW s \in Labels,
         nib[n].active <= 1, same => s <= nib[n].active,
         NEW body \in Messages, Air(n, R, same, s, body)
  PROVE  \E f \in Frames : f.body = body /\ Sent(n, R, f)
<1>1. PICK r \in Mat : r = nib[n]
  BY Types
<1> DEFINE r2 == Counted(r, same, s)
           l == Label(r, same, s)
           c == Counter(r, same, s)
           k0 == KeyBySeq(r, l)
           k == IF k0 = Missing THEN Zero ELSE k0
           f0 == [secured |-> TRUE, from |-> n, seq |-> l, cnt |-> c, k |-> k0, body |-> body]
           f == [secured |-> TRUE, from |-> n, seq |-> l, cnt |-> c, k |-> k, body |-> body]
<1>2. /\ frames < MaxFrames /\ frames' = frames + 1
      /\ nib' = [nib EXCEPT ![n] = r2]
      /\ q' = [x \in Nodes |-> IF x \in R /\ k0 # Missing THEN Append(q[x], f0) ELSE q[x]]
  BY <1>1 DEF Air
<1>3. r.out <= frames /\ r.prev <= frames /\ r.out \in Nat /\ r.prev \in Nat
      /\ frames \in Nat
  BY <1>1, Types, KeyAssumption DEF Numbered, Mat
<1>4. /\ r2 \in Mat
      /\ r2.key = r.key /\ r2.seq = r.seq /\ r2.i = r.i /\ r2.active = r.active
      /\ r2.out <= r.out + 1 /\ r2.prev <= r.prev + 1
      /\ Onward(r, r2)
      /\ l \in Labels /\ l <= r.active
      /\ c = NextCnt(r, l) /\ c < NextCnt(r2, l)
  BY <1>1, <1>2, <1>3, KeyAssumption, CountedEffect
<1>5. k \in Keys \cup {Zero}
  BY <1>4, FindsKey
<1> HIDE DEF r2, l, c, k0, k
<1>6. c \in 0 .. MaxFrames - 1
  <2>1. NextCnt(r, l) <= frames
    BY <1>3 DEF NextCnt
  <2>2. NextCnt(r, l) \in 0 .. MaxFrames
    BY NextCntType
  <2> QED
    BY <2>1, <2>2, <1>2, <1>3, <1>4, KeyAssumption
<1>7. f \in Frames
  BY <1>4, <1>5, <1>6 DEF Frames
<1>8. f0 = f \/ k0 = Missing
  BY DEF k
<1>9. /\ nib' \in [Nodes -> Mat] /\ nib'[n] = r2
      /\ \A x \in Nodes : x # n => nib'[x] = nib[x]
  BY <1>2, <1>4, Types
<1>10. /\ q' \in [Nodes -> Seq(Frames)]
       /\ \A x \in Nodes : q'[x] = q[x] \/ (x \in R /\ q'[x] = Append(q[x], f))
  <2> HIDE DEF f0, f
  <2>1. q \in [Nodes -> Seq(Frames)]
    BY DEF Queues
  <2>2. CASE k0 = Missing
    BY <2>1, <2>2, <1>2
  <2>3. CASE k0 # Missing
    BY <2>1, <2>3, <1>2, <1>7, <1>8
  <2> QED
    BY <2>2, <2>3
<1>11. f.body = body /\ f.secured /\ f.from = n /\ f.seq = l /\ f.cnt = c
  OBVIOUS
<1> HIDE DEF f, f0
<1>12. r2.out \in Int /\ r2.prev \in Int /\ r2.out <= frames + 1 /\ r2.prev <= frames + 1
  BY <1>3, <1>4 DEF Mat
<1>13. Sent(n, R, f)
  BY <1>1, <1>2, <1>4, <1>9, <1>10, <1>11, <1>12 DEF Sent
<1> QED
  BY <1>7, <1>11, <1>13

\* A frame that is sent, by the trust center or by a device that has its key,
\* keeps the invariant.
LEMMA SentKeeps ==
  ASSUME KeyInv, NEW n \in Nodes, NEW R \in SUBSET Nodes, NEW f \in Frames, Sent(n, R, f),
         n \notin R, \A r \in R : Len(q[r]) < MaxQueue,
         n = TC => \/ f.body = NoMsg
                   \/ f.body \in [key : {1, 2}, seq : {1, 2}] /\ f.body.key = f.body.seq,
         n # TC => R = {TC} /\ auth[n] /\ f.body = NoMsg,
         UNCHANGED <<auth, nbr, joins>>,
         keySw' \in BOOLEAN, swLeft' \subseteq Devices, switches' \in 0 .. MaxSwitches,
         pend' \in [from : Nodes, seq : Labels], pend'.seq <= nib[TC].active,
         nib[TC].active = IF switches' = 1 /\ ~keySw' THEN 1 ELSE 0,
         switches' <= 1, keySw' => switches' = 1
  PROVE  KeyInv'
<1>1. TypeOK /\ Queues /\ TcStore /\ DeviceStore /\ ToDevices /\ ToTc /\ Numbered /\ Unheard
      /\ CountersInOrder
  BY DEF KeyInv
<1>2. /\ TC \in Nodes /\ Devices \subseteq Nodes /\ TC \notin Devices
      /\ \A x \in Nodes : x = TC \/ x \in Devices
      /\ \A x \in Nodes : nib[x] \in Mat /\ nib'[x] \in Mat
  BY <1>1, Types DEF Sent
<1>3. /\ \A x \in Nodes : x # n => nib'[x] = nib[x]
      /\ nib'[n].key = nib[n].key /\ nib'[n].seq = nib[n].seq
      /\ nib'[n].i = nib[n].i /\ nib'[n].active = nib[n].active
      /\ nib'[n].out <= frames + 1 /\ nib'[n].prev <= frames + 1
      /\ Onward(nib[n], nib'[n])
      /\ frames < MaxFrames /\ frames' = frames + 1
  BY DEF Sent
<1>4. /\ f.secured /\ f.from = n /\ f.seq <= nib[n].active
      /\ f.cnt = NextCnt(nib[n], f.seq) /\ f.cnt < NextCnt(nib'[n], f.seq)
  BY DEF Sent
<1>5. /\ q' \in [Nodes -> Seq(Frames)]
      /\ \A r \in Nodes : q'[r] = q[r] \/ (r \in R /\ q'[r] = Append(q[r], f))
  BY DEF Sent
<1>6. ASSUME NEW r \in Nodes
      PROVE  /\ q[r] \in Seq(Frames) /\ Len(q'[r]) <= MaxQueue
             /\ \A j \in 1 .. Len(q'[r]) : \/ j \in 1 .. Len(q[r]) /\ q'[r][j] = q[r][j]
                                           \/ r \in R /\ q'[r][j] = f /\ j = Len(q[r]) + 1
             /\ \A j \in 1 .. Len(q[r]) : j \in 1 .. Len(q'[r]) /\ q'[r][j] = q[r][j]
  <2>1. q[r] \in Seq(Frames) /\ Len(q[r]) <= MaxQueue
    BY <1>1 DEF Queues, TypeOK
  <2>2. CASE q'[r] = q[r]
    BY <2>1, <2>2
  <2>3. CASE r \in R /\ q'[r] = Append(q[r], f)
    <3>1. PICK s \in Seq(Frames) : s = q[r]
      BY <2>1
    <3>2. Len(s) < MaxQueue /\ q'[r] = Append(s, f)
      BY <2>3, <3>1
    <3> QED
      BY <3>1, <3>2, <2>3, KeyAssumption
  <2> QED
    BY <2>2, <2>3, <1>5
<1>7. \A d \in Devices : KeyAhead(d)' <=> KeyAhead(d)
  <2> SUFFICES ASSUME NEW d \in Devices
               PROVE  KeyAhead(d)' <=> KeyAhead(d)
    OBVIOUS
  <2>1. \A j \in 1 .. Len(q'[d]) : ~q'[d][j].secured => j \in 1 .. Len(q[d]) /\ ~q[d][j].secured
    BY <1>2, <1>4, <1>6
  <2>2. \A j \in 1 .. Len(q[d]) : ~q[d][j].secured => j \in 1 .. Len(q'[d]) /\ ~q'[d][j].secured
    BY <1>2, <1>6
  <2> QED
    BY <2>1, <2>2 DEF KeyAhead
<1>8. TypeOK'
  <2>1. \A r \in Nodes : /\ Len(q'[r]) <= MaxQueue
                         /\ \A j \in 1 .. Len(q'[r]) : q'[r][j] \in Frames
    BY <1>5, <1>6
  <2>2. frames' \in 0 .. MaxFrames
    BY <1>1, <1>3, Types, KeyAssumption
  <2>3. nib' \in [Nodes -> Mat]
    BY DEF Sent
  <2> QED
    BY <1>1, <2>1, <2>2, <2>3 DEF TypeOK, Mat, MatKeys, MatSeqs
<1>9. Queues'
  BY <1>5 DEF Queues
<1>10. TcStore'
  <2>1. nib'[TC].key = nib[TC].key /\ nib'[TC].seq = nib[TC].seq /\ nib'[TC].i = nib[TC].i
        /\ nib'[TC].active = nib[TC].active
    BY <1>2, <1>3
  <2> QED
    BY <1>1, <2>1 DEF TcStore
<1>11. \A x \in Nodes : /\ nib'[x].key = nib[x].key /\ nib'[x].seq = nib[x].seq
                        /\ nib'[x].i = nib[x].i /\ nib'[x].active = nib[x].active
  BY <1>3
<1>12. DeviceStore'
  <2> SUFFICES ASSUME NEW d \in Devices
               PROVE  /\ OwnKey(nib'[d])
                      /\ nib'[d].active <= nib'[TC].active
                      /\ auth'[d] => /\ nib'[d].key[nib'[d].i] = nib'[d].active
                                     /\ joins'[d] > 0 /\ ~KeyAhead(d)'
                      /\ ~auth'[d] => nib'[d].key[0] = Zero
    BY DEF DeviceStore
  <2>1. OwnKey(nib'[d])
    BY <1>1, <1>2, <1>11 DEF DeviceStore, OwnKey
  <2> QED
    BY <2>1, <1>1, <1>2, <1>7, <1>11 DEF DeviceStore
<1>13. ToDevices'
  <2> SUFFICES ASSUME NEW d \in Devices, NEW j \in 1 .. Len(q'[d])
               PROVE  LET g == q'[d][j]
                      IN  /\ g.from = TC
                          /\ g.seq <= nib'[TC].active
                          /\ g.secured => (g.body = NoMsg \/ g.body \in [key : {1, 2}, seq : {1, 2}])
                          /\ ~g.secured => /\ g.seq = 0 /\ joins'[d] > 0
                                           /\ g.body \in [key : {0, 1}, seq : {0, 1}]
                                           /\ g.body.seq \in nib'[d].active .. nib'[TC].active
                          /\ g.body # NoMsg => g.body.key = g.body.seq
                          /\ \A l \in 1 .. Len(q'[d]) : ~g.secured /\ ~q'[d][l].secured => j = l
    BY DEF ToDevices
  <2>1. CASE j \in 1 .. Len(q[d]) /\ q'[d][j] = q[d][j]
    <3>1. \A l \in 1 .. Len(q'[d]) : ~q'[d][l].secured => l \in 1 .. Len(q[d]) /\ q'[d][l] = q[d][l]
      BY <1>2, <1>4, <1>6
    <3> QED
      BY <2>1, <3>1, <1>1, <1>2, <1>11 DEF ToDevices
  <2>2. CASE d \in R /\ q'[d][j] = f
    <3>1. n = TC
      BY <2>2, <1>2
    <3> QED
      BY <2>2, <3>1, <1>2, <1>4, <1>11
  <2> QED
    BY <2>1, <2>2, <1>2, <1>6
<1>14. ToTc'
  <2>1. ASSUME NEW j \in 1 .. Len(q'[TC])
        PROVE  LET g == q'[TC][j]
               IN  g.secured /\ g.from \in Devices /\ g.body = NoMsg /\ g.seq <= nib'[TC].active
    <3>1. CASE j \in 1 .. Len(q[TC]) /\ q'[TC][j] = q[TC][j]
      BY <3>1, <1>1, <1>2, <1>11 DEF ToTc
    <3>2. CASE TC \in R /\ q'[TC][j] = f
      <4>1. n \in Devices /\ f.body = NoMsg
        BY <3>2, <1>2
      <4>2. nib[n].active <= nib[TC].active /\ nib[n].active \in Int /\ nib[TC].active \in Int
            /\ f.seq \in Int
        BY <1>1, <1>2, <4>1 DEF DeviceStore, Mat, Frames, Labels, N
      <4> QED
        BY <3>2, <4>1, <4>2, <1>2, <1>4, <1>11
    <3> QED
      BY <3>1, <3>2, <1>2, <1>6
  <2> QED
    BY <2>1, <1>2, <1>11 DEF ToTc
<1>15. Numbered'
  <2> SUFFICES ASSUME NEW x \in Nodes
               PROVE  nib'[x].out <= frames + 1 /\ nib'[x].prev <= frames + 1
    BY <1>3 DEF Numbered
  <2>1. CASE x = n
    BY <2>1, <1>3
  <2>2. CASE x # n
    <3>1. nib[x].out <= frames /\ nib[x].prev <= frames
      BY <1>1 DEF Numbered
    <3>2. frames \in Int /\ nib[x].out \in Int /\ nib[x].prev \in Int
      BY SMTT(40), <1>1, <1>2, Types DEF Mat
    <3> QED
      BY <2>2, <3>1, <3>2, <1>3
  <2> QED
    BY <2>1, <2>2
<1>16. Unheard'
  <2> SUFFICES ASSUME NEW d \in Devices, joins[d] = 0 \/ (joins[d] = 1 /\ KeyAhead(d))
               PROVE  Silent(d)'
    BY <1>7 DEF Unheard
  <2>1. Silent(d)
    BY <1>1 DEF Unheard
  <2>2. n # d
    <3>1. ~auth[d]
      BY <1>1 DEF DeviceStore
    <3> QED
      BY <3>1, <1>2
  <2> QED
    BY SMTT(40), <2>1, <2>2, <1>4, <1>6 DEF Silent
<1>17. CountersInOrder'
  <2> SUFFICES ASSUME NEW x \in Nodes, NEW m \in Nodes, Steady(m)
               PROVE  Heeded(nbr[x][m], q'[x], m, nib'[m]) /\ InOrder(nbr[x][m], q'[x], m)
    BY DEF CountersInOrder, Steady
  <2>1. PICK e \in Notes : e = nbr[x][m]
    BY <1>1, Types
  <2>2. PICK s \in Seq(Frames) : s = q[x]
    BY <1>6
  <2>3. Heeded(e, s, m, nib[m]) /\ InOrder(e, s, m)
    BY <1>1, <2>1, <2>2 DEF CountersInOrder
  <2>4. CASE m = n
    <3>1. Heeded(e, s, m, nib'[m])
      BY <1>2, <1>3, <2>3, <2>4, HeededOnward
    <3>2. Heeded(e, Append(s, f), m, nib'[m]) /\ InOrder(e, Append(s, f), m)
      BY <1>2, <1>3, <1>4, <2>3, <2>4, AppendOwn
    <3> QED
      BY <3>1, <3>2, <2>1, <2>2, <2>3, <1>5
  <2>5. CASE m # n
    <3>1. Heeded(e, Append(s, f), m, nib[m]) /\ InOrder(e, Append(s, f), m)
      BY <1>2, <1>4, <2>3, <2>5, AppendOther
    <3>2. nib'[m] = nib[m]
      BY <2>5, <1>3
    <3> QED
      BY <3>1, <3>2, <2>1, <2>2, <2>3, <1>5
  <2> QED
    BY <2>4, <2>5
<1> QED
  BY <1>8, <1>9, <1>10, <1>12, <1>13, <1>14, <1>15, <1>16, <1>17 DEF KeyInv

\* Nobody is ahead of the trust center, which is at the first or second key.
LEMMA ActiveBound ==
  ASSUME KeyInv, NEW n \in Nodes
  PROVE  /\ nib[n] \in Mat /\ nib[n].active \in {0, 1} /\ nib[n].i = nib[n].active
         /\ nib[n].active <= nib[TC].active
<1>1. nib[n] \in Mat /\ nib[TC] \in Mat /\ (n = TC \/ n \in Devices)
  BY Types DEF KeyInv
<1>2. nib[n].active \in 0 .. 3 /\ nib[TC].active \in {0, 1} /\ nib[TC].i = nib[TC].active
  BY <1>1 DEF KeyInv, TcStore, Mat, Labels, N
<1>3. CASE n = TC
  BY <1>1, <1>2, <1>3
<1>4. CASE n \in Devices
  BY <1>1, <1>2, <1>4 DEF KeyInv, DeviceStore, OwnKey
<1> QED
  BY <1>1, <1>3, <1>4

\* Every frame of the trust center that is not in the clear.
LEMMA TcSends ==
  ASSUME KeyInv, NEW R \in Heard, NEW same \in BOOLEAN, NEW s \in Labels,
         same => s <= nib[TC].active,
         NEW body \in Messages,
         \/ body = NoMsg
         \/ body \in [key : {1, 2}, seq : {1, 2}] /\ body.key = body.seq,
         Air(TC, R, same, s, body),
         UNCHANGED <<auth, nbr, joins>>,
         keySw' \in BOOLEAN, swLeft' \subseteq Devices, switches' \in 0 .. MaxSwitches,
         pend' \in [from : Nodes, seq : Labels], pend'.seq <= nib[TC].active,
         nib[TC].active = IF switches' = 1 /\ ~keySw' THEN 1 ELSE 0,
         switches' <= 1, keySw' => switches' = 1
  PROVE  KeyInv'
<1>1. TypeOK /\ Queues /\ Numbered /\ TC \in Nodes /\ TC \notin Devices /\ Devices \subseteq Nodes
  BY Types DEF KeyInv
<1>2. nib[TC].active <= 1
  BY <1>1, ActiveBound
<1>3. R \in SUBSET Nodes /\ TC \notin R /\ \A r \in R : Len(q[r]) < MaxQueue
  BY <1>1 DEF Heard
<1>4. PICK f \in Frames : f.body = body /\ Sent(TC, R, f)
  BY <1>1, <1>2, <1>3, AirEffect
<1> QED
  BY <1>1, <1>3, <1>4, SentKeeps

\* What the variables about the switch have to do with the label.
LEMMA SwitchFacts ==
  ASSUME KeyInv
  PROVE  /\ keySw \in BOOLEAN /\ swLeft \subseteq Devices /\ switches \in 0 .. MaxSwitches
         /\ pend \in [from : Nodes, seq : Labels] /\ pend.seq <= nib[TC].active
         /\ pend.seq \in Labels
         /\ nib[TC].active = IF switches = 1 /\ ~keySw THEN 1 ELSE 0
         /\ switches <= 1 /\ (keySw => switches = 1)
         /\ NoMsg \in Messages /\ 0 \in Labels
BY DEF KeyInv, TypeOK, TcStore, ToTc, NoMsg, Messages, Labels, N

\* The trust center announces the key after the active one.
LEMMA UpdateKeeps ==
  ASSUME KeyInv, zb_secur_send_nwk_key_update_br
  PROVE  KeyInv'
<1>1. PICK r \in Mat : r = nib[TC] /\ r.active \in {0, 1} /\ TC \in Nodes
  BY ActiveBound, Types DEF KeyInv
<1>2. PICK s \in Labels : s = r.active + 1 /\ s \in {1, 2}
  BY <1>1 DEF Labels, N
<1>3. \A j \in Keys : r.key[j] = j /\ r.seq[j] = j
  BY <1>1 DEF KeyInv, TcStore
<1>4. KeyBySeq(r, s) # Missing
  BY <1>1, <1>2 DEF zb_secur_send_nwk_key_update_br
<1>5. KeyBySeq(r, s) = s
  BY <1>3, <1>4, TcFinds
<1>6. PICK R \in Heard : Air(TC, R, FALSE, 0, [key |-> s, seq |-> s])
  BY <1>1, <1>2, <1>5 DEF zb_secur_send_nwk_key_update_br
<1>7. /\ [key |-> s, seq |-> s] \in Messages
      /\ [key |-> s, seq |-> s] \in [key : {1, 2}, seq : {1, 2}]
  BY <1>2 DEF Messages, Keys, Labels, N
<1>8. UNCHANGED <<auth, nbr, keySw, swLeft, pend, switches, joins>>
  BY DEF zb_secur_send_nwk_key_update_br
<1> QED
  BY <1>6, <1>7, <1>8, SwitchFacts, TcSends

\* The command to switch, before the trust center switches itself.
LEMMA SendSwitchKeeps ==
  ASSUME OneSwitch, KeyInv, SendKeySwitch
  PROVE  KeyInv'
<1>1. PICK R \in Heard : Air(TC, R, FALSE, 0, NoMsg)
  BY DEF SendKeySwitch
<1>2. /\ ~keySw /\ switches < MaxSwitches /\ keySw' = TRUE /\ switches' = switches + 1
      /\ UNCHANGED <<auth, nbr, swLeft, pend, joins>>
  BY DEF SendKeySwitch
<1>3. switches = 0 /\ switches' = 1 /\ switches' \in 0 .. MaxSwitches
  BY <1>2, SwitchFacts, KeyAssumption DEF OneSwitch
<1>4. nib[TC].active = 0
  BY <1>3, SwitchFacts
<1>5. /\ keySw' \in BOOLEAN /\ swLeft' \subseteq Devices
      /\ pend' \in [from : Nodes, seq : Labels] /\ pend'.seq <= nib[TC].active
      /\ nib[TC].active = IF switches' = 1 /\ ~keySw' THEN 1 ELSE 0
      /\ switches' <= 1 /\ (keySw' => switches' = 1)
  BY <1>2, <1>3, <1>4, SwitchFacts
<1> QED
  BY <1>1, <1>2, <1>3, <1>5, SwitchFacts, TcSends

\* The command to switch, to one neighbor.
LEMMA SendNextKeeps ==
  ASSUME KeyInv, secur_send_key_sw_next
  PROVE  KeyInv'
<1>1. PICK R \in Heard : Air(TC, R, FALSE, 0, NoMsg)
  BY DEF secur_send_key_sw_next
<1>2. /\ swLeft' \subseteq swLeft
      /\ UNCHANGED <<auth, nbr, keySw, pend, switches, joins>>
  BY DEF secur_send_key_sw_next
<1> QED
  BY <1>1, <1>2, SwitchFacts, TcSends

\* A broadcast of the trust center.
LEMMA TcDataKeeps ==
  ASSUME KeyInv, TcData
  PROVE  KeyInv'
<1>1. PICK R \in Heard : Air(TC, R, FALSE, 0, NoMsg)
  BY DEF TcData
<1>2. UNCHANGED <<auth, nbr, keySw, swLeft, pend, switches, joins>>
  BY DEF TcData
<1> QED
  BY <1>1, <1>2, SwitchFacts, TcSends

\* A broadcast of a device, forwarded under the key it came with.
LEMMA TcForwardKeeps ==
  ASSUME KeyInv, TcForward
  PROVE  KeyInv'
<1>1. PICK R \in Heard : Air(TC, R, TRUE, pend.seq, NoMsg)
  BY DEF TcForward
<1>2. pend' = [from |-> TC, seq |-> 0] /\ UNCHANGED <<auth, nbr, keySw, swLeft, switches, joins>>
  BY DEF TcForward
<1>3. TC \in Nodes /\ 0 <= nib[TC].active
  BY ActiveBound, Types DEF KeyInv
<1>4. pend' \in [from : Nodes, seq : Labels] /\ pend'.seq <= nib[TC].active
  BY <1>2, <1>3, SwitchFacts
<1> QED
  BY <1>1, <1>2, <1>4, SwitchFacts, TcSends

\* A broadcast of a device.
LEMMA DeviceDataKeeps ==
  ASSUME KeyInv, NEW d \in Devices, DeviceData(d)
  PROVE  KeyInv'
<1>1. TypeOK /\ Queues /\ Numbered /\ TC \in Nodes /\ d \in Nodes /\ d # TC
  BY Types DEF KeyInv
<1>2. nib[d].active <= 1
  BY <1>1, ActiveBound
<1>3. /\ auth[d] /\ Len(q[TC]) < MaxQueue /\ Air(d, {TC}, FALSE, 0, NoMsg)
      /\ UNCHANGED <<auth, nbr, keySw, swLeft, pend, switches, joins>>
  BY DEF DeviceData
<1>4. PICK f \in Frames : f.body = NoMsg /\ Sent(d, {TC}, f)
  <2>1. {TC} \in SUBSET Nodes
    BY <1>1
  <2> QED
    BY <1>1, <1>2, <1>3, <2>1, SwitchFacts, AirEffect
<1>5. {TC} \in SUBSET Nodes /\ d \notin {TC} /\ \A r \in {TC} : Len(q[r]) < MaxQueue
  BY <1>1, <1>3
<1> QED
  BY <1>1, <1>3, <1>4, <1>5, SwitchFacts, SentKeeps

-----------------------------------------------------------------------------
(* Switches and joins.                                                      *)

\* Frames under the first key go on with its counter after the switch.
LEMMA SwitchOnward ==
  ASSUME NEW r \in Mat, NEW r2 \in Mat, r.active = 0, r2.active = 1, r2.prev = r.out
  PROVE  Onward(r, r2)
<1>1. NextCnt(r, 0) = r.out /\ NextCnt(r2, 0) = r.out /\ r.out \in Int
  BY DEF NextCnt, Mat
<1>2. \A l \in 0 .. 0 : l = 0
  OBVIOUS
<1> QED
  BY <1>1, <1>2 DEF Onward

\* The trust center switches to its second key.
LEMMA TcSwitchKeeps ==
  ASSUME KeyInv, nib[TC].active = 0,
         nib' = [nib EXCEPT ![TC] = Switch(@, @.active + 1)],
         UNCHANGED <<auth, nbr, q, pend, frames, joins>>,
         keySw' = FALSE, switches' = 1, 1 \in 0 .. MaxSwitches, swLeft' \subseteq Devices
  PROVE  KeyInv'
<1>1. TypeOK /\ Queues /\ TcStore /\ DeviceStore /\ ToDevices /\ ToTc /\ Numbered /\ Unheard
      /\ CountersInOrder
  BY DEF KeyInv
<1>2. /\ TC \in Nodes /\ Devices \subseteq Nodes /\ TC \notin Devices
      /\ nib \in [Nodes -> Mat]
      /\ \A x \in Nodes : x = TC \/ x \in Devices
  BY <1>1, Types
<1>3. PICK r \in Mat : /\ r = nib[TC] /\ r.i = 0 /\ r.active = 0
                       /\ \A j \in Keys : r.key[j] = j /\ r.seq[j] = j
  BY <1>1, <1>2 DEF TcStore
<1>4. r.seq[1] = 1 /\ r.seq[2] # 1
  BY <1>3 DEF Keys, N
<1>5. PICK r2 \in Mat : /\ r2 = Switch(r, 1) /\ r2.key = r.key /\ r2.seq = r.seq /\ r2.i = 1
                        /\ r2.active = 1 /\ r2.out = 0 /\ r2.prev = r.out
  BY <1>3, <1>4, SwitchEffect
<1>6. /\ nib'[TC] = r2 /\ nib' \in [Nodes -> Mat]
      /\ \A x \in Nodes : x # TC => nib'[x] = nib[x]
  BY <1>2, <1>3, <1>5
<1>7. Onward(r, r2)
  BY <1>3, <1>5, SwitchOnward
<1>8. TypeOK'
  BY <1>1, <1>6, 1 \in 0 .. MaxSwitches DEF TypeOK, Mat, MatKeys, MatSeqs
<1>9. Queues'
  BY <1>1 DEF Queues
<1>10. TcStore'
  BY <1>1, <1>3, <1>5, <1>6 DEF TcStore
<1>11. \A d \in Devices : nib'[d] = nib[d] /\ nib[d].active = 0
  <2> TAKE d \in Devices
  <2>1. nib[d].active \in 0 .. 3 /\ nib[d].active <= 0
    BY <1>1, <1>2 DEF DeviceStore, Mat, Labels, N
  <2> QED
    BY <2>1, <1>2, <1>6
<1>12. DeviceStore'
  BY <1>1, <1>5, <1>6, <1>11 DEF DeviceStore, KeyAhead
<1>13. ToDevices'
  <2> SUFFICES ASSUME NEW d \in Devices, NEW j \in 1 .. Len(q[d])
               PROVE  LET f == q[d][j]
                      IN  /\ f.from = TC
                          /\ f.seq <= 1
                          /\ f.secured => (f.body = NoMsg \/ f.body \in [key : {1, 2}, seq : {1, 2}])
                          /\ ~f.secured => /\ f.seq = 0 /\ joins[d] > 0
                                           /\ f.body \in [key : {0, 1}, seq : {0, 1}]
                                           /\ f.body.seq \in nib[d].active .. 1
                          /\ f.body # NoMsg => f.body.key = f.body.seq
                          /\ \A l \in 1 .. Len(q[d]) : ~f.secured /\ ~q[d][l].secured => j = l
    BY <1>5, <1>6, <1>11 DEF ToDevices
  <2>1. PICK f \in Frames : f = q[d][j]
    BY <1>1, <1>2 DEF TypeOK
  <2>2. f.seq <= 0 /\ f.seq \in 0 .. 3
    BY <1>1, <2>1 DEF ToDevices, Frames, Labels, N
  <2>3. ~f.secured => f.body.seq \in nib[d].active .. 0
    BY <1>1, <2>1 DEF ToDevices
  <2> QED
    BY <1>1, <1>11, <2>1, <2>2, <2>3 DEF ToDevices
<1>14. ToTc'
  <2>1. \A j \in 1 .. Len(q[TC]) : q[TC][j].seq \in 0 .. 3
    BY <1>1, <1>2 DEF TypeOK, Frames, Labels, N
  <2>2. pend.seq \in 0 .. 3
    BY SwitchFacts DEF Labels, N
  <2> QED
    BY <1>1, <1>5, <1>6, <2>1, <2>2 DEF ToTc
<1>15. Numbered'
  <2>1. frames \in Nat
    BY <1>1, KeyAssumption, Types
  <2>2. r.out <= frames
    BY <1>1, <1>2, <1>3 DEF Numbered
  <2> QED
    BY <1>1, <1>2, <1>5, <1>6, <2>1, <2>2 DEF Numbered
<1>16. Unheard'
  BY <1>1 DEF Unheard, Silent, KeyAhead
<1>17. CountersInOrder'
  <2> SUFFICES ASSUME NEW x \in Nodes, NEW m \in Nodes, Steady(m)
               PROVE  Heeded(nbr[x][m], q[x], m, nib'[m]) /\ InOrder(nbr[x][m], q[x], m)
    BY DEF CountersInOrder, Steady
  <2>1. PICK e \in Notes : e = nbr[x][m]
    BY <1>1, Types
  <2>2. PICK s \in Seq(Frames) : s = q[x]
    BY <1>1 DEF Queues
  <2>3. Heeded(e, s, m, nib[m]) /\ InOrder(e, s, m)
    BY <1>1, <2>1, <2>2 DEF CountersInOrder
  <2>4. CASE m = TC
    <3>1. Heeded(e, s, m, r2)
      BY <1>3, <1>5, <1>7, <2>3, <2>4, HeededOnward
    <3> QED
      BY <3>1, <2>1, <2>2, <2>3, <2>4, <1>6
  <2>5. CASE m # TC
    BY <2>1, <2>2, <2>3, <2>5, <1>6
  <2> QED
    BY <2>4, <2>5
<1> QED
  BY <1>8, <1>9, <1>10, <1>12, <1>13, <1>14, <1>15, <1>16, <1>17 DEF KeyInv

\* The switch when the broadcast command is confirmed.
LEMMA ConfirmKeeps ==
  ASSUME OneSwitch, KeyInv, KeySwitchConfirm
  PROVE  KeyInv'
<1>1. /\ keySw /\ keySw' = FALSE
      /\ nib' = [nib EXCEPT ![TC] = Switch(@, @.active + 1)]
      /\ UNCHANGED <<auth, nbr, q, swLeft, pend, switches, frames, joins>>
  BY DEF KeySwitchConfirm
<1>2. switches = 1 /\ nib[TC].active = 0 /\ switches \in 0 .. MaxSwitches
  BY <1>1, SwitchFacts
<1> QED
  BY <1>1, <1>2, SwitchFacts, TcSwitchKeeps

\* The switch before the commands to the neighbors.
LEMMA SwitchFirstKeeps ==
  ASSUME OneSwitch, KeyInv, SwitchFirst
  PROVE  KeyInv'
<1>1. /\ ~keySw /\ keySw' = keySw /\ switches < MaxSwitches /\ switches' = switches + 1
      /\ nib' = [nib EXCEPT ![TC] = Switch(@, @.active + 1)]
      /\ swLeft' \subseteq Devices
      /\ UNCHANGED <<auth, nbr, q, pend, frames, joins>>
  BY DEF SwitchFirst
<1>2. switches = 0 /\ switches' = 1 /\ 1 \in 0 .. MaxSwitches
  BY <1>1, SwitchFacts, KeyAssumption DEF OneSwitch
<1>3. nib[TC].active = 0 /\ keySw' = FALSE
  BY <1>1, <1>2, SwitchFacts
<1> QED
  BY <1>1, <1>2, <1>3, TcSwitchKeeps

\* A device joins, or joins again, and the active key is sent to it.
LEMMA JoinKeeps ==
  ASSUME KeyInv, NEW d \in Devices, Join(d)
  PROVE  KeyInv'
<1>1. TypeOK /\ Queues /\ TcStore /\ DeviceStore /\ ToDevices /\ ToTc /\ Numbered /\ Unheard
      /\ CountersInOrder
  BY DEF KeyInv
<1>2. /\ TC \in Nodes /\ Devices \subseteq Nodes /\ TC \notin Devices
      /\ \A x \in Nodes : x = TC \/ x \in Devices
      /\ \A x \in Nodes : nib[x] \in Mat
      /\ joins \in [Devices -> 0 .. 2]
  BY <1>1, Types
<1>3. PICK a \in {0, 1} : a = nib[TC].active /\ nib[TC].i = a
  BY <1>2, ActiveBound
<1>4. nib[TC].key[a] = a /\ nib[d].key[0] = Zero /\ ~auth[d] /\ ~KeyAhead(d)
  BY <1>1, <1>3 DEF Join, TcStore, DeviceStore, Keys, N
<1> DEFINE f == [secured |-> FALSE, from |-> TC, seq |-> 0, cnt |-> 0,
                 k |-> Zero, body |-> [key |-> a, seq |-> a]]
           z == [seq |-> 0, cnt |-> 0]
<1>5. /\ Len(q[d]) < MaxQueue
      /\ q' = [q EXCEPT ![d] = Append(@, f)]
      /\ nbr' = [nbr EXCEPT ![d][TC] = z]
      /\ joins' = [joins EXCEPT ![d] = IF @ = 0 THEN 1 ELSE 2]
      /\ UNCHANGED <<nib, auth, keySw, swLeft, pend, switches, frames>>
  BY <1>3, <1>4 DEF Join, HandedKey
<1>6. f \in Frames /\ z \in Notes
  BY <1>2, KeyAssumption DEF Frames, Messages, Notes, Keys, Labels, N
<1>7. /\ ~f.secured /\ f.seq = 0 /\ f.from = TC /\ f.body = [key |-> a, seq |-> a]
      /\ z.seq = 0 /\ z.cnt = 0 /\ z = [seq |-> 0, cnt |-> 0]
  OBVIOUS
<1> HIDE DEF f, z
<1>8. PICK s \in Seq(Frames) : s = q[d]
  BY <1>1, <1>2 DEF Queues
<1>9. /\ q' \in [Nodes -> Seq(Frames)] /\ q'[d] = Append(s, f)
      /\ \A x \in Nodes : x # d => q'[x] = q[x]
  BY <1>1, <1>2, <1>5, <1>6, <1>8 DEF Queues
<1>10. /\ Len(q'[d]) = Len(s) + 1 /\ Len(s) \in Nat
       /\ \A j \in 1 .. Len(q'[d]) : q'[d][j] = IF j <= Len(s) THEN s[j] ELSE f
  BY <1>9
<1>11. /\ joins' \in [Devices -> 0 .. 2] /\ joins'[d] = (IF joins[d] = 0 THEN 1 ELSE 2)
       /\ \A x \in Devices : x # d => joins'[x] = joins[x]
  BY <1>2, <1>5
<1>12. \A n, m \in Nodes : nbr'[n][m] = nbr[n][m] \/ (n = d /\ m = TC /\ nbr'[n][m] = z)
  BY <1>1, <1>5 DEF TypeOK
<1>13. \A x \in Devices : x # d => (KeyAhead(x)' <=> KeyAhead(x))
  BY <1>2, <1>9 DEF KeyAhead
<1>14. TypeOK'
  <2>1. \A r \in Nodes : /\ Len(q'[r]) <= MaxQueue
                         /\ \A j \in 1 .. Len(q'[r]) : q'[r][j] \in Frames
    <3>1. Len(q'[d]) <= MaxQueue
      BY <1>5, <1>8, <1>10, KeyAssumption
    <3>2. \A r \in Nodes : r # d => Len(q'[r]) <= MaxQueue
      BY <1>1, <1>9 DEF TypeOK
    <3>3. \A r \in Nodes : q'[r] \in Seq(Frames)
      BY <1>9
    <3>4. \A t \in Seq(Frames) : \A j \in 1 .. Len(t) : t[j] \in Frames
      OBVIOUS
    <3> QED
      BY <3>1, <3>2, <3>3, <3>4
  <2>2. nbr' \in [Nodes -> [Nodes -> [seq : Labels, cnt : 0 .. MaxFrames - 1]]]
    BY <1>1, <1>2, <1>5, <1>6 DEF TypeOK, Notes
  <2> QED
    BY <1>1, <1>5, <1>11, <2>1, <2>2 DEF TypeOK
<1>15. Queues'
  BY <1>9 DEF Queues
<1>16. TcStore'
  BY <1>1, <1>5 DEF TcStore
<1>17. DeviceStore'
  <2> SUFFICES ASSUME NEW x \in Devices
               PROVE  /\ OwnKey(nib[x])
                      /\ nib[x].active <= nib[TC].active
                      /\ auth[x] => /\ nib[x].key[nib[x].i] = nib[x].active
                                    /\ joins'[x] > 0 /\ ~KeyAhead(x)'
                      /\ ~auth[x] => nib[x].key[0] = Zero
    BY <1>5 DEF DeviceStore
  <2>1. CASE x = d
    BY <2>1, <1>1, <1>4 DEF DeviceStore
  <2>2. CASE x # d
    BY <2>2, <1>1, <1>11, <1>13 DEF DeviceStore
  <2> QED
    BY <2>1, <2>2
<1>18. ToDevices'
  <2> SUFFICES ASSUME NEW x \in Devices, NEW j \in 1 .. Len(q'[x])
               PROVE  LET g == q'[x][j]
                      IN  /\ g.from = TC
                          /\ g.seq <= a
                          /\ g.secured => (g.body = NoMsg \/ g.body \in [key : {1, 2}, seq : {1, 2}])
                          /\ ~g.secured => /\ g.seq = 0 /\ joins'[x] > 0
                                           /\ g.body \in [key : {0, 1}, seq : {0, 1}]
                                           /\ g.body.seq \in nib[x].active .. a
                          /\ g.body # NoMsg => g.body.key = g.body.seq
                          /\ \A l \in 1 .. Len(q'[x]) : ~g.secured /\ ~q'[x][l].secured => j = l
    BY <1>3, <1>5 DEF ToDevices
  <2>1. CASE x # d
    BY <2>1, <1>1, <1>2, <1>3, <1>9, <1>11 DEF ToDevices
  <2>2. CASE x = d /\ j <= Len(s)
    <3>1. j \in 1 .. Len(q[d]) /\ q'[d][j] = q[d][j] /\ q[d][j].secured
      BY <2>2, <1>4, <1>8, <1>10 DEF KeyAhead
    <3>2. PICK g \in Frames : g = q[d][j]
      BY <3>1, <1>8
    <3>3. /\ g.from = TC /\ g.seq <= a
          /\ (g.body = NoMsg \/ g.body \in [key : {1, 2}, seq : {1, 2}])
          /\ g.body # NoMsg => g.body.key = g.body.seq
      BY <3>1, <3>2, <1>1, <1>3 DEF ToDevices
    <3> QED
      BY <3>1, <3>2, <3>3, <2>2
  <2>3. CASE x = d /\ ~(j <= Len(s))
    <3>1. q'[d][j] = f /\ j = Len(s) + 1
      BY <2>3, <1>10
    <3>2. \A l \in 1 .. Len(q'[d]) : ~q'[d][l].secured => l = j
      BY <3>1, <1>4, <1>8, <1>10 DEF KeyAhead
    <3>3. nib[d].active \in Int /\ nib[d].active <= a
      BY <1>1, <1>2, <1>3 DEF DeviceStore, Mat, Labels, N
    <3>4. joins'[d] > 0
      BY <1>11
    <3>5. f.body \in [key : {0, 1}, seq : {0, 1}] /\ f.body.key = a /\ f.body.seq = a
      BY <1>7
    <3> QED
      BY <3>1, <3>2, <3>3, <3>4, <3>5, <2>3, <1>7
  <2> QED
    BY <2>1, <2>2, <2>3
<1>19. ToTc'
  BY <1>1, <1>2, <1>5, <1>9 DEF ToTc
<1>20. Numbered'
  BY <1>1, <1>5 DEF Numbered
<1>21. ASSUME NEW m \in Devices, Silent(m)
       PROVE  Silent(m)'
  <2>1. m # TC
    BY <1>2
  <2>2. \A n \in Nodes : nbr'[n][m] = [seq |-> 0, cnt |-> 0]
    BY <1>12, <1>21, <1>2, <2>1 DEF Silent
  <2>3. ASSUME NEW n \in Nodes, NEW j \in 1 .. Len(q'[n])
        PROVE  q'[n][j].from # m
    <3>1. CASE n # d
      BY <3>1, <1>9, <1>21 DEF Silent
    <3>2. CASE n = d
      <4>1. CASE j <= Len(s)
        BY <3>2, <4>1, <1>8, <1>10, <1>21 DEF Silent
      <4>2. CASE ~(j <= Len(s))
        BY <3>2, <4>2, <1>7, <1>10, <2>1
      <4> QED
        BY <4>1, <4>2
    <3> QED
      BY <3>1, <3>2
  <2> QED
    BY <2>2, <2>3 DEF Silent
<1>22. Unheard'
  <2> SUFFICES ASSUME NEW x \in Devices, joins'[x] = 0 \/ (joins'[x] = 1 /\ KeyAhead(x)')
               PROVE  Silent(x)
    BY <1>21 DEF Unheard
  <2>1. CASE x = d
    BY <2>1, <1>1, <1>11 DEF Unheard
  <2>2. CASE x # d
    BY <2>2, <1>1, <1>11, <1>13 DEF Unheard
  <2> QED
    BY <2>1, <2>2
<1>23. CountersInOrder'
  <2> SUFFICES ASSUME NEW n \in Nodes, NEW m \in Nodes, Steady(m)'
               PROVE  Heeded(nbr'[n][m], q'[n], m, nib[m]) /\ InOrder(nbr'[n][m], q'[n], m)
    BY <1>5 DEF CountersInOrder, Steady
  <2>1. Steady(m)
    BY <1>2, <1>11 DEF Steady
  <2>2. PICK e \in Notes : e = nbr[n][m]
    BY <1>1, Types
  <2>3. PICK t \in Seq(Frames) : t = q[n]
    BY <1>1 DEF Queues
  <2>4. Heeded(e, t, m, nib[m]) /\ InOrder(e, t, m) /\ nib[m] \in Mat
    BY <1>1, <1>2, <2>1, <2>2, <2>3 DEF CountersInOrder
  <2>5. /\ Heeded(e, q'[n], m, nib[m]) /\ InOrder(e, q'[n], m)
    <3>1. CASE n = d
      BY <3>1, <2>3, <2>4, <1>6, <1>7, <1>8, <1>9, AppendOther
    <3>2. CASE n # d
      BY <3>2, <2>3, <2>4, <1>9
    <3> QED
      BY <3>1, <3>2
  <2>6. CASE nbr'[n][m] = e
    BY <2>5, <2>6
  <2>7. CASE nbr'[n][m] = z
    <3>1. 0 <= nib[m].active /\ 0 <= NextCnt(nib[m], 0)
      BY <2>4, NextCntType DEF Mat, Labels, N
    <3>2. Heeded(z, q'[n], m, nib[m])
      BY <2>5, <3>1, <1>7 DEF Heeded
    <3>3. \A j \in 1 .. Len(q'[n]) : 0 <= q'[n][j].cnt
      BY <1>9, FrameFields
    <3>4. InOrder(z, q'[n], m)
      BY <2>5, <3>3, <1>7 DEF InOrder
    <3> QED
      BY <2>7, <3>2, <3>4
  <2> QED
    BY <2>2, <2>6, <2>7, <1>12
<1> QED
  BY <1>14, <1>15, <1>16, <1>17, <1>18, <1>19, <1>20, <1>22, <1>23 DEF KeyInv

-----------------------------------------------------------------------------
(* Frames that are handled.                                                 *)

\* Keys that did not change go on where they were.
LEMMA OnwardSame ==
  ASSUME NEW r \in Mat, NEW r2 \in Mat, r2.active = r.active, r2.out = r.out, r2.prev = r.prev
  PROVE  Onward(r, r2)
<1>1. \A l : NextCnt(r2, l) = NextCnt(r, l) /\ NextCnt(r, l) \in Int
  BY NextCntType DEF NextCnt
<1>2. r.active \in Int
  BY DEF Mat, Labels, N
<1> QED
  BY <1>1, <1>2 DEF Onward

\* What taking the first frame of n may do to the keys and entries.
Takes(n) ==
    /\ q[n] # << >>
    /\ q' = [q EXCEPT ![n] = Tail(@)]
    /\ UNCHANGED <<keySw, swLeft, switches, frames, joins>>
    /\ pend' \in [from : Nodes, seq : Labels] /\ pend'.seq <= nib[TC].active

\* Only n itself is concerned; the trust center keeps its keys, and a device
\* that has its key expects no other one.
TakesKeys(n) ==
    /\ nib' \in [Nodes -> Mat] /\ auth' \in [Nodes -> BOOLEAN]
    /\ \A x \in Nodes : x # n => nib'[x] = nib[x] /\ auth'[x] = auth[x]
    /\ n = TC => nib'[n] = nib[n] /\ auth'[n] = auth[n]
    /\ nib'[n].out <= frames /\ nib'[n].prev <= frames
    /\ n \in Devices =>
         /\ OwnKey(nib'[n]) /\ nib'[n].active <= nib[TC].active
         /\ auth'[n] => nib'[n].key[nib'[n].i] = nib'[n].active /\ joins[n] > 0
         /\ ~auth'[n] => nib'[n].key[0] = Zero
         /\ auth'[n] => \A j \in 2 .. Len(q[n]) : q[n][j].secured
         /\ (\E j \in 2 .. Len(q[n]) : ~q[n][j].secured) => nib'[n].active = nib[n].active
    /\ Onward(nib[n], nib'[n]) \/ (n \in Devices /\ Silent(n)) \/ ~Steady(n)

\* Only the entry of the sender is concerned, and it follows the frame.
TakesEntry(n) ==
    \A x, m \in Nodes :
        /\ nbr'[x][m] \in Notes
        /\ \/ nbr'[x][m] = nbr[x][m]
           \/ /\ x = n /\ m = Head(q[n]).from /\ Head(q[n]).secured
              /\ \/ nbr'[x][m] = [seq |-> Head(q[n]).seq, cnt |-> Head(q[n]).cnt]
                 \/ nbr'[x][m] = [seq |-> Head(q[n]).seq, cnt |-> 0]

\* A frame that is handled that way keeps the invariant.
LEMMA TakeKeeps ==
  ASSUME KeyInv, NEW n \in Nodes, Takes(n), TakesKeys(n), TakesEntry(n),
         nbr' \in [Nodes -> [Nodes -> Notes]]
  PROVE  KeyInv'
<1>1. TypeOK /\ Queues /\ TcStore /\ DeviceStore /\ ToDevices /\ ToTc /\ Numbered /\ Unheard
      /\ CountersInOrder
  BY DEF KeyInv
<1>2. /\ TC \in Nodes /\ Devices \subseteq Nodes /\ TC \notin Devices
      /\ \A x \in Nodes : x = TC \/ x \in Devices
      /\ \A x \in Nodes : nib[x] \in Mat
  BY <1>1, Types
<1>3. /\ q[n] # << >> /\ q' = [q EXCEPT ![n] = Tail(@)]
      /\ keySw' = keySw /\ swLeft' = swLeft /\ switches' = switches /\ frames' = frames
      /\ joins' = joins
      /\ pend' \in [from : Nodes, seq : Labels] /\ pend'.seq <= nib[TC].active
  BY DEF Takes
<1>4. PICK s \in Seq(Frames) : s = q[n] /\ s # << >>
  BY <1>1, <1>3 DEF Queues
<1>5. /\ q' \in [Nodes -> Seq(Frames)] /\ q'[n] = Tail(s)
      /\ \A x \in Nodes : x # n => q'[x] = q[x]
  BY <1>1, <1>3, <1>4 DEF Queues
<1>6. /\ Len(q'[n]) = Len(s) - 1 /\ Len(s) \in Nat /\ Len(s) >= 1
      /\ \A j \in 1 .. Len(q'[n]) : q'[n][j] = s[j + 1] /\ j + 1 \in 2 .. Len(s)
  BY <1>4, <1>5
<1>7. /\ nib' \in [Nodes -> Mat] /\ auth' \in [Nodes -> BOOLEAN]
      /\ \A x \in Nodes : x # n => nib'[x] = nib[x] /\ auth'[x] = auth[x]
      /\ nib'[TC] = nib[TC] /\ auth'[TC] = auth[TC]
  BY <1>2 DEF TakesKeys
<1>8. ASSUME NEW x \in Nodes
      PROVE  \A j \in 1 .. Len(q'[x]) : \E l \in 1 .. Len(q[x]) :
               /\ q'[x][j] = q[x][l] /\ l = (IF x = n THEN j + 1 ELSE j)
  <2>1. CASE x = n
    BY <2>1, <1>4, <1>6
  <2>2. CASE x # n
    BY <2>2, <1>5
  <2> QED
    BY <2>1, <2>2
<1>9. \A d \in Devices : KeyAhead(d)' => KeyAhead(d)
  BY <1>2, <1>8 DEF KeyAhead
<1>10. TypeOK'
  <2>1. \A r \in Nodes : Len(q'[r]) <= MaxQueue
    <3>1. \A r \in Nodes : Len(q[r]) <= MaxQueue
      BY <1>1 DEF TypeOK
    <3>2. Len(q'[n]) <= MaxQueue
      BY <3>1, <1>4, <1>6, KeyAssumption
    <3> QED
      BY <3>1, <3>2, <1>5
  <2>2. \A r \in Nodes : \A j \in 1 .. Len(q'[r]) : q'[r][j] \in Frames
    <3>1. \A t \in Seq(Frames) : \A j \in 1 .. Len(t) : t[j] \in Frames
      OBVIOUS
    <3> QED
      BY <3>1, <1>5
  <2>3. nbr' \in [Nodes -> [Nodes -> [seq : Labels, cnt : 0 .. MaxFrames - 1]]]
    BY DEF Notes
  <2> QED
    BY <1>1, <1>3, <1>7, <2>1, <2>2, <2>3 DEF TypeOK, Mat, MatKeys, MatSeqs
<1>11. Queues'
  BY <1>5 DEF Queues
<1>12. TcStore'
  BY <1>1, <1>3, <1>7 DEF TcStore
<1>13. DeviceStore'
  <2> SUFFICES ASSUME NEW d \in Devices
               PROVE  /\ OwnKey(nib'[d])
                      /\ nib'[d].active <= nib'[TC].active
                      /\ auth'[d] => /\ nib'[d].key[nib'[d].i] = nib'[d].active
                                     /\ joins'[d] > 0 /\ ~KeyAhead(d)'
                      /\ ~auth'[d] => nib'[d].key[0] = Zero
    BY DEF DeviceStore
  <2>1. CASE d = n
    <3>1. auth'[n] => ~KeyAhead(n)'
      BY <2>1, <1>4, <1>6 DEF TakesKeys, KeyAhead
    <3> QED
      BY <2>1, <3>1, <1>3, <1>7 DEF TakesKeys
  <2>2. CASE d # n
    BY <2>2, <1>1, <1>2, <1>3, <1>7, <1>9 DEF DeviceStore
  <2> QED
    BY <2>1, <2>2
<1>14. ToDevices'
  <2> SUFFICES ASSUME NEW d \in Devices, NEW j \in 1 .. Len(q'[d])
               PROVE  LET g == q'[d][j]
                      IN  /\ g.from = TC
                          /\ g.seq <= nib'[TC].active
                          /\ g.secured => (g.body = NoMsg \/ g.body \in [key : {1, 2}, seq : {1, 2}])
                          /\ ~g.secured => /\ g.seq = 0 /\ joins'[d] > 0
                                           /\ g.body \in [key : {0, 1}, seq : {0, 1}]
                                           /\ g.body.seq \in nib'[d].active .. nib'[TC].active
                          /\ g.body # NoMsg => g.body.key = g.body.seq
                          /\ \A l \in 1 .. Len(q'[d]) : ~g.secured /\ ~q'[d][l].secured => j = l
    BY DEF ToDevices
  <2>1. PICK i \in 1 .. Len(q[d]) : q'[d][j] = q[d][i] /\ i = (IF d = n THEN j + 1 ELSE j)
    BY <1>2, <1>8
  <2>2. PICK g \in Frames : g = q[d][i]
    BY <1>1, <1>2 DEF TypeOK
  <2>3. /\ g.from = TC
        /\ g.seq <= nib[TC].active
        /\ g.secured => (g.body = NoMsg \/ g.body \in [key : {1, 2}, seq : {1, 2}])
        /\ ~g.secured => /\ g.seq = 0 /\ joins[d] > 0
                         /\ g.body \in [key : {0, 1}, seq : {0, 1}]
                         /\ g.body.seq \in nib[d].active .. nib[TC].active
        /\ g.body # NoMsg => g.body.key = g.body.seq
        /\ \A l \in 1 .. Len(q[d]) : ~g.secured /\ ~q[d][l].secured => i = l
    BY <1>1, <2>2 DEF ToDevices
  <2>4. ~g.secured => nib'[d].active = nib[d].active
    <3>1. CASE d = n
      BY <3>1, <2>1, <2>2, <1>4, <1>6 DEF TakesKeys
    <3>2. CASE d # n
      BY <3>2, <1>2, <1>7
    <3> QED
      BY <3>1, <3>2
  <2>5. ASSUME NEW l \in 1 .. Len(q'[d]), ~g.secured, ~q'[d][l].secured
        PROVE  j = l
    <3>1. PICK k \in 1 .. Len(q[d]) : q'[d][l] = q[d][k] /\ k = (IF d = n THEN l + 1 ELSE l)
      BY <1>2, <1>8
    <3>2. i = k
      BY <3>1, <2>3, <2>5
    <3>3. Len(q'[d]) \in Nat
      BY <1>2, <1>5
    <3> QED
      BY <3>1, <3>2, <3>3, <2>1
  <2> QED
    BY <2>1, <2>2, <2>3, <2>4, <2>5, <1>3, <1>7
<1>15. ToTc'
  <2>1. ASSUME NEW j \in 1 .. Len(q'[TC])
        PROVE  LET g == q'[TC][j]
               IN  g.secured /\ g.from \in Devices /\ g.body = NoMsg /\ g.seq <= nib[TC].active
    BY <1>1, <1>2, <1>8 DEF ToTc
  <2> QED
    BY <2>1, <1>3, <1>7 DEF ToTc
<1>16. Numbered'
  <2>1. nib'[n].out <= frames /\ nib'[n].prev <= frames
    BY DEF TakesKeys
  <2> QED
    BY <2>1, <1>1, <1>3, <1>7 DEF Numbered
<1>17. Unheard'
  <2> SUFFICES ASSUME NEW d \in Devices, joins[d] = 0 \/ (joins[d] = 1 /\ KeyAhead(d))
               PROVE  Silent(d)'
    BY <1>3, <1>9 DEF Unheard
  <2>1. Silent(d)
    BY <1>1 DEF Unheard
  <2>2. ASSUME NEW x \in Nodes
        PROVE  nbr'[x][d] = [seq |-> 0, cnt |-> 0]
    <3>1. Head(q[n]).from # d
      <4>1. Head(s) = s[1] /\ 1 \in 1 .. Len(s)
        BY <1>4
      <4> QED
        BY <4>1, <2>1, <1>4 DEF Silent
    <3>2. nbr'[x][d] = nbr[x][d]
      BY <3>1, <1>2 DEF TakesEntry
    <3> QED
      BY <3>2, <2>1 DEF Silent
  <2>3. \A x \in Nodes : \A j \in 1 .. Len(q'[x]) : q'[x][j].from # d
    BY ZenonT(60), <2>1, <1>8 DEF Silent
  <2> QED
    BY <2>2, <2>3 DEF Silent
<1>18. CountersInOrder'
  <2> SUFFICES ASSUME NEW x \in Nodes, NEW m \in Nodes, Steady(m)
               PROVE  Heeded(nbr'[x][m], q'[x], m, nib'[m]) /\ InOrder(nbr'[x][m], q'[x], m)
    BY <1>3 DEF CountersInOrder, Steady
  <2>1. PICK e \in Notes : e = nbr[x][m]
    BY <1>1, Types
  <2>2. PICK t \in Seq(Frames) : t = q[x]
    BY <1>1 DEF Queues
  <2>3. Heeded(e, t, m, nib[m]) /\ InOrder(e, t, m) /\ nib[m] \in Mat /\ nib'[m] \in Mat
    BY <1>1, <1>2, <1>7, <2>1, <2>2 DEF CountersInOrder
  <2>4. PICK e2 \in Notes : e2 = nbr'[x][m]
    BY DEF TakesEntry
  <2>5. Heeded(e2, q'[x], m, nib[m]) /\ InOrder(e2, q'[x], m)
    <3>1. CASE x = n
      <4>1. t = s /\ q'[x] = Tail(s)
        BY <3>1, <2>2, <1>4, <1>5
      <4>2. CASE e2 = e
        BY <4>1, <4>2, <2>3, <1>4, TailKeeps
      <4>3. CASE e2 # e
        <5>1. /\ Head(s).from = m /\ Head(s).secured
              /\ \/ e2 = [seq |-> Head(s).seq, cnt |-> Head(s).cnt]
                 \/ e2 = [seq |-> Head(s).seq, cnt |-> 0]
          BY <4>3, <2>1, <2>4, <1>4 DEF TakesEntry
        <5> QED
          BY <5>1, <4>1, <2>3, <1>4, NotedKeeps
      <4> QED
        BY <4>2, <4>3
    <3>2. CASE x # n
      <4>1. e2 = e
        BY <3>2, <2>1, <2>4 DEF TakesEntry
      <4> QED
        BY <3>2, <4>1, <2>2, <2>3, <1>5
    <3> QED
      BY <3>1, <3>2
  <2>6. q'[x] \in Seq(Frames)
    BY <1>5
  <2>7. CASE m # n
    BY <2>7, <2>4, <2>5, <1>7
  <2>8. CASE m = n /\ Onward(nib[n], nib'[n])
    <3>1. Heeded(e2, q'[x], m, nib'[m])
      BY <2>3, <2>5, <2>6, <2>8, HeededOnward
    <3> QED
      BY <3>1, <2>4, <2>5
  <2>9. CASE m = n /\ n \in Devices /\ Silent(n)
    <3>1. Head(q[n]).from # n
      <4>1. Head(s) = s[1] /\ 1 \in 1 .. Len(s)
        BY <1>4
      <4> QED
        BY <4>1, <2>9, <1>4 DEF Silent
    <3>2. e2 = [seq |-> 0, cnt |-> 0]
      BY <3>1, <2>4, <2>9 DEF TakesEntry, Silent
    <3>3. \A j \in 1 .. Len(q'[x]) : q'[x][j].from # m
      <4>1. \A l \in 1 .. Len(q[x]) : q[x][l].from # m
        BY <2>9 DEF Silent
      <4> TAKE j \in 1 .. Len(q'[x])
      <4>2. PICK l \in 1 .. Len(q[x]) : q'[x][j] = q[x][l]
        BY <1>8
      <4> QED
        BY <4>1, <4>2
    <3> QED
      BY <3>2, <3>3, <2>3, <2>4, <2>6, SilentHeeded
  <2> QED
    BY <2>7, <2>8, <2>9 DEF TakesKeys
<1> QED
  BY <1>10, <1>11, <1>12, <1>13, <1>14, <1>15, <1>16, <1>17, <1>18 DEF KeyInv

\* The frame at the head of a queue.
LEMMA HeadFacts ==
  ASSUME KeyInv, NEW n \in Nodes, q[n] # << >>
  PROVE  /\ Head(q[n]) \in Frames /\ Head(q[n]) = q[n][1] /\ 1 \in 1 .. Len(q[n])
         /\ auth[n] => \A j \in 1 .. Len(q[n]) : q[n][j].secured
         /\ n \in Devices => Head(q[n]).from = TC
         /\ n = TC => Head(q[n]).from \in Devices /\ Head(q[n]).body = NoMsg
         /\ Head(q[n]).seq <= nib[TC].active
<1>1. q[n] \in Seq(Frames) /\ (n = TC \/ n \in Devices)
  BY Types DEF KeyInv, Queues
<1>2. Head(q[n]) \in Frames /\ Head(q[n]) = q[n][1] /\ 1 \in 1 .. Len(q[n])
  BY <1>1
<1>3. auth[n] => \A j \in 1 .. Len(q[n]) : q[n][j].secured
  BY <1>1 DEF KeyInv, ToTc, DeviceStore, KeyAhead
<1>4. n \in Devices => Head(q[n]).from = TC /\ Head(q[n]).seq <= nib[TC].active
  BY <1>2 DEF KeyInv, ToDevices
<1>5. n = TC => /\ Head(q[n]).from \in Devices /\ Head(q[n]).body = NoMsg
                /\ Head(q[n]).seq <= nib[TC].active
  BY <1>2 DEF KeyInv, ToTc
<1> QED
  BY <1>1, <1>2, <1>3, <1>4, <1>5

\* What the receiver notes is of its frame, or nothing new.
LEMMA NotedIs ==
  ASSUME TypeOK, NEW n \in Nodes, NEW f \in Frames
  PROVE  /\ NotedEntry(n, f) \in Notes
         /\ \/ NotedEntry(n, f) = nbr[n][f.from]
            \/ NotedEntry(n, f) = [seq |-> f.seq, cnt |-> f.cnt]
            \/ NotedEntry(n, f) = [seq |-> f.seq, cnt |-> 0]
<1>1. f.from \in Nodes /\ f.seq \in Labels /\ f.cnt \in 0 .. MaxFrames - 1 /\ 0 \in 0 .. MaxFrames - 1
  BY KeyAssumption DEF Frames
<1>2. PICK e \in Notes : e = nbr[n][f.from]
  BY <1>1, Types
<1>3. PICK t \in Notes : /\ t = Entry(n, f) /\ t.seq = f.seq
                         /\ t = e \/ t = [seq |-> f.seq, cnt |-> 0]
  <2>1. CASE e.seq = f.seq
    BY <2>1, <1>2 DEF Entry
  <2>2. CASE e.seq # f.seq
    BY <2>2, <1>1, <1>2 DEF Entry, Notes
  <2> QED
    BY <2>1, <2>2
<1>4. [t EXCEPT !.cnt = f.cnt] = [seq |-> f.seq, cnt |-> f.cnt]
      /\ [t EXCEPT !.cnt = f.cnt] \in Notes
  BY <1>1, <1>3 DEF Notes
<1>5. NotedEntry(n, f) = [t EXCEPT !.cnt = f.cnt] \/ NotedEntry(n, f) = t
  BY <1>3 DEF NotedEntry
<1> QED
  BY <1>2, <1>3, <1>4, <1>5

\* zb_nwk_unsecure_frame() touches the entry of the sender only.
LEMMA EntryStep ==
  ASSUME KeyInv, NEW n \in Nodes, q[n] # << >>, auth[n],
         nbr' = [nbr EXCEPT ![n][Head(q[n]).from] = NotedEntry(n, Head(q[n]))]
  PROVE  TakesEntry(n) /\ nbr' \in [Nodes -> [Nodes -> Notes]]
<1>1. PICK f \in Frames : f = Head(q[n]) /\ f.secured
  BY HeadFacts
<1>2. PICK e2 \in Notes : e2 = NotedEntry(n, f)
  BY <1>1, NotedIs DEF KeyInv
<1>3. nbr \in [Nodes -> [Nodes -> Notes]] /\ f.from \in Nodes
  BY DEF KeyInv, TypeOK, Notes, Frames
<1>4. nbr' = [nbr EXCEPT ![n][f.from] = e2]
  BY <1>1, <1>2
<1>5. /\ nbr' \in [Nodes -> [Nodes -> Notes]]
      /\ \A x, m \in Nodes : nbr'[x][m] = IF x = n /\ m = f.from THEN e2 ELSE nbr[x][m]
  <2>1. PICK row \in [Nodes -> Notes] : row = [nbr[n] EXCEPT ![f.from] = e2]
    BY <1>3
  <2>2. \A m \in Nodes : row[m] = IF m = f.from THEN e2 ELSE nbr[n][m]
    BY <2>1, <1>3
  <2>3. nbr' = [nbr EXCEPT ![n] = row]
    BY <2>1, <1>4
  <2>4. nbr' \in [Nodes -> [Nodes -> Notes]] /\ nbr'[n] = row
        /\ \A x \in Nodes : x # n => nbr'[x] = nbr[x]
    BY <2>3, <1>3
  <2> QED
    BY <2>2, <2>4
<1>6. \/ e2 = nbr[n][f.from]
      \/ e2 = [seq |-> f.seq, cnt |-> f.cnt]
      \/ e2 = [seq |-> f.seq, cnt |-> 0]
  BY <1>2, NotedIs DEF KeyInv
<1> QED
  BY <1>1, <1>2, <1>3, <1>5, <1>6 DEF TakesEntry

\* Keys that do not change are as good as before.
LEMMA SameKeys ==
  ASSUME KeyInv, NEW n \in Nodes, q[n] # << >>, UNCHANGED <<nib, auth>>
  PROVE  TakesKeys(n)
<1>1. /\ nib \in [Nodes -> Mat] /\ auth \in [Nodes -> BOOLEAN]
      /\ nib[n].out <= frames /\ nib[n].prev <= frames
  BY Types DEF KeyInv, Numbered
<1>2. Onward(nib[n], nib[n])
  BY <1>1, OnwardSame
<1>3. n \in Devices =>
         /\ OwnKey(nib[n]) /\ nib[n].active <= nib[TC].active
         /\ auth[n] => nib[n].key[nib[n].i] = nib[n].active /\ joins[n] > 0
         /\ ~auth[n] => nib[n].key[0] = Zero
  BY DEF KeyInv, DeviceStore
<1>4. auth[n] => \A j \in 2 .. Len(q[n]) : q[n][j].secured
  <2>1. q[n] \in Seq(Frames)
    BY DEF KeyInv, Queues
  <2>2. \A j \in 2 .. Len(q[n]) : j \in 1 .. Len(q[n])
    BY <2>1
  <2> QED
    BY <2>2, HeadFacts
<1> QED
  BY <1>1, <1>2, <1>3, <1>4 DEF TakesKeys

\* A device without its key drops a secured frame.
LEMMA DropKeeps ==
  ASSUME KeyInv, NEW n \in Nodes, DropUnauthenticated(n)
  PROVE  KeyInv'
<1>1. /\ q[n] # << >> /\ q' = [q EXCEPT ![n] = Tail(@)]
      /\ UNCHANGED <<nib, auth, nbr, keySw, swLeft, pend, switches, frames, joins>>
  BY DEF DropUnauthenticated
<1>2. TakesKeys(n)
  BY <1>1, SameKeys
<1>3. nbr' \in [Nodes -> [Nodes -> Notes]] /\ TakesEntry(n)
  BY <1>1 DEF KeyInv, TypeOK, Notes, TakesEntry
<1>4. Takes(n)
  BY <1>1, SwitchFacts DEF Takes
<1> QED
  BY <1>2, <1>3, <1>4, TakeKeeps

\* The trust center accepts a frame; none is newer than its own keys.
LEMMA AcceptTcKeeps ==
  ASSUME KeyInv, Accept(TC), TC \in Nodes
  PROVE  KeyInv'
<1>1. PICK f \in Frames : /\ f = Head(q[TC]) /\ q[TC] # << >> /\ auth[TC]
                          /\ f.from \in Devices /\ f.body = NoMsg /\ f.seq <= nib[TC].active
                          /\ f.seq \in Labels /\ f.from \in Nodes
  BY HeadFacts DEF Accept, Frames
<1>2. /\ q' = [q EXCEPT ![TC] = Tail(@)]
      /\ UNCHANGED <<auth, keySw, swLeft, switches, frames, joins>>
      /\ nib' = [nib EXCEPT ![TC] = AfterFrame(@, f)]
      /\ nbr' = [nbr EXCEPT ![TC][f.from] = NotedEntry(TC, f)]
      /\ pend' = (IF pend.from = TC THEN [from |-> f.from, seq |-> f.seq] ELSE pend)
  BY <1>1 DEF Accept
<1>3. nib \in [Nodes -> Mat]
  BY Types DEF KeyInv
<1>4. AfterFrame(nib[TC], f) = nib[TC]
  <2>1. PICK r \in Mat : r = nib[TC] /\ r.active \in {0, 1}
    BY ActiveBound
  <2>2. ~Newer(r, f)
    <3>1. CASE f.seq = r.active
      <4>1. Diff8(f.seq, r.active) = 0
        BY <2>1, <3>1 DEF Diff8
      <4> QED
        BY <4>1 DEF Newer
    <3>2. CASE f.seq = 0 /\ r.active = 1
      <4>1. Diff8(f.seq, r.active) = 255
        BY <3>2 DEF Diff8
      <4> QED
        BY <4>1 DEF Newer
    <3> QED
      BY <1>1, <2>1, <3>1, <3>2 DEF Labels, N
  <2> QED
    BY <1>1, <2>1, <2>2 DEF AfterFrame
<1>5. nib' = nib
  BY <1>2, <1>3, <1>4
<1>6. TakesKeys(TC)
  BY <1>1, <1>2, <1>5, SameKeys
<1>7. TakesEntry(TC) /\ nbr' \in [Nodes -> [Nodes -> Notes]]
  BY <1>1, <1>2, EntryStep
<1>8. pend' \in [from : Nodes, seq : Labels] /\ pend'.seq <= nib[TC].active
  BY <1>1, <1>2, SwitchFacts
<1>9. Takes(TC)
  BY <1>1, <1>2, <1>8 DEF Takes
<1> QED
  BY <1>6, <1>7, <1>9, TakeKeeps

\* What an accepted frame does to the keys of a device: it follows the switch,
\* then keeps the key the frame may carry.
LEMMA AfterEffect ==
  ASSUME NEW m \in Mat, OwnKey(m), m.active \in {0, 1}, m.key[m.i] = m.active,
         NEW f \in Frames, f.seq \in {0, 1}, KeyBySeq(m, f.seq) # Missing,
         \/ f.body = NoMsg
         \/ f.body \in [key : {1, 2}, seq : {1, 2}] /\ f.body.key = f.body.seq
  PROVE  LET m2 == AfterFrame(m, f)
         IN  /\ m2 \in Mat /\ OwnKey(m2) /\ m2.key[m2.i] = m2.active
             /\ m2.active = m.active \/ m2.active = f.seq
             /\ Onward(m, m2)
             /\ m2.out = m.out \/ m2.out = 0
             /\ m2.prev = m.prev \/ m2.prev = m.out
<1> DEFINE m1 == IF Newer(m, f) THEN Switch(m, f.seq) ELSE m
<1>1. /\ m1 \in Mat /\ OwnKey(m1) /\ m1.key[m1.i] = m1.active /\ m1.active \in {0, 1}
      /\ \/ m1.active = m.active /\ m1.out = m.out /\ m1.prev = m.prev
         \/ m.active = 0 /\ m1.active = 1 /\ f.seq = 1 /\ m1.out = 0 /\ m1.prev = m.out
  <2>1. CASE Newer(m, f)
    <3>1. f.seq = 1 /\ m.active = 0
      <4>1. CASE f.seq = m.active
        <5>1. Diff8(f.seq, m.active) = 0
          BY <4>1 DEF Diff8
        <5> QED
          BY <5>1, <2>1 DEF Newer
      <4>2. CASE f.seq = 0 /\ m.active = 1
        <5>1. Diff8(f.seq, m.active) = 255
          BY <4>2 DEF Diff8
        <5> QED
          BY <5>1, <2>1 DEF Newer
      <4> QED
        BY <4>1, <4>2
    <3>2. m.seq[1] = 1 /\ m.key[1] = 1
      BY <3>1, OwnFinds
    <3>3. m.i = 0 /\ m.seq[2] # 1
      BY <3>1 DEF OwnKey
    <3>4. m1 = Switch(m, 1)
      BY <2>1, <3>1
    <3>5. /\ m1 \in Mat /\ m1.key = m.key /\ m1.seq = m.seq /\ m1.i = 1 /\ m1.active = 1
          /\ m1.out = 0 /\ m1.prev = m.out
      BY <3>1, <3>2, <3>3, <3>4, SwitchEffect
    <3> HIDE DEF m1
    <3>6. OwnKey(m1)
      BY <3>5 DEF OwnKey
    <3> QED
      BY <3>1, <3>2, <3>5, <3>6
  <2>2. CASE ~Newer(m, f)
    BY <2>2
  <2> QED
    BY <2>1, <2>2
<1>2. AfterFrame(m, f) = IF f.body = NoMsg THEN m1 ELSE StoreKey(m1, f.body.key, f.body.seq)
  BY DEF AfterFrame
<1> HIDE DEF m1
<1>3. PICK m2 : m2 = AfterFrame(m, f)
  OBVIOUS
<1>4. /\ m2 \in Mat /\ OwnKey(m2) /\ m2.key[m2.i] = m2.active /\ m2.active = m1.active
      /\ m2.out = m1.out /\ m2.prev = m1.prev
  <2>1. CASE f.body = NoMsg
    BY <2>1, <1>1, <1>2, <1>3
  <2>2. CASE f.body # NoMsg
    <3>1. PICK s \in {1, 2} : s = f.body.key /\ s = f.body.seq
      BY <2>2
    <3>2. m2 = StoreKey(m1, s, s)
      BY <2>2, <3>1, <1>2, <1>3
    <3>3. s \in {0, 1, 2} /\ m1.active <= s /\ m1.active <= 1 /\ m1.i = m1.active
          /\ m1.active \in Keys
      BY <1>1 DEF OwnKey, Keys, N
    <3>4. /\ m2 \in Mat /\ OwnKey(m2) /\ m2.active = m1.active /\ m2.i = m1.i
          /\ m2.out = m1.out /\ m2.prev = m1.prev
          /\ \A j \in Keys : m1.key[j] = j => m2.key[j] = j
      <4>1. PICK mm \in Mat : mm = m1 /\ OwnKey(mm) /\ mm.active <= 1 /\ mm.active <= s
        BY <1>1, <3>3
      <4>2. s \in {0, 1, 2}
        BY <3>3
      <4>3. /\ StoreKey(mm, s, s) \in Mat /\ OwnKey(StoreKey(mm, s, s))
            /\ \A j \in Keys : mm.key[j] = j => StoreKey(mm, s, s).key[j] = j
            /\ StoreKey(mm, s, s).active = mm.active /\ StoreKey(mm, s, s).i = mm.i
            /\ StoreKey(mm, s, s).out = mm.out /\ StoreKey(mm, s, s).prev = mm.prev
        BY Zenon, <4>1, <4>2, StoreEffect
      <4> QED
        BY <4>1, <4>3, <3>2
    <3> QED
      BY <1>1, <3>3, <3>4
  <2> QED
    BY <2>1, <2>2
<1>5. Onward(m, m2)
  <2>1. CASE m1.active = m.active /\ m1.out = m.out /\ m1.prev = m.prev
    BY <2>1, <1>4, OnwardSame
  <2>2. CASE m.active = 0 /\ m1.active = 1 /\ m1.prev = m.out
    BY <2>2, <1>4, SwitchOnward
  <2> QED
    BY <2>1, <2>2, <1>1
<1> QED
  BY <1>1, <1>3, <1>4, <1>5

\* A device accepts a frame.
LEMMA AcceptDeviceKeeps ==
  ASSUME KeyInv, NEW d \in Devices, Accept(d)
  PROVE  KeyInv'
<1>1. /\ d \in Nodes /\ d # TC /\ TC \in Nodes /\ nib \in [Nodes -> Mat]
      /\ auth \in [Nodes -> BOOLEAN] /\ frames \in Nat
  BY Types, KeyAssumption DEF KeyInv
<1>2. /\ q[d] # << >> /\ auth[d]
      /\ UNCHANGED <<auth, keySw, swLeft, switches, frames, joins>>
      /\ q' = [q EXCEPT ![d] = Tail(@)]
      /\ HasKey(d, Head(q[d]))
      /\ nib' = [nib EXCEPT ![d] = AfterFrame(@, Head(q[d]))]
      /\ nbr' = [nbr EXCEPT ![d][Head(q[d]).from] = NotedEntry(d, Head(q[d]))]
      /\ pend' = pend
  BY <1>1 DEF Accept
<1>3. PICK f \in Frames : /\ f = Head(q[d]) /\ f = q[d][1] /\ f.secured
                          /\ f.seq <= nib[TC].active /\ 1 \in 1 .. Len(q[d])
  BY <1>1, <1>2, HeadFacts
<1>4. PICK m \in Mat : /\ m = nib[d] /\ m.active \in {0, 1} /\ OwnKey(m)
                       /\ m.key[m.i] = m.active /\ joins[d] > 0
                       /\ m.out <= frames /\ m.prev <= frames /\ m.active <= nib[TC].active
  BY <1>1, <1>2, ActiveBound DEF KeyInv, DeviceStore, Numbered
<1>5. f.seq \in {0, 1}
  <2>1. nib[TC].active \in {0, 1}
    BY <1>1, ActiveBound
  <2> QED
    BY <1>3, <2>1 DEF Frames, Labels, N
<1>6. KeyBySeq(m, f.seq) # Missing
  BY <1>2, <1>3, <1>4 DEF HasKey
<1>7. \/ f.body = NoMsg
      \/ f.body \in [key : {1, 2}, seq : {1, 2}] /\ f.body.key = f.body.seq
  BY <1>3 DEF KeyInv, ToDevices
<1>8. PICK m2 \in Mat : /\ m2 = AfterFrame(m, f) /\ OwnKey(m2) /\ m2.key[m2.i] = m2.active
                        /\ m2.active = m.active \/ m2.active = f.seq
                        /\ Onward(m, m2)
                        /\ m2.out = m.out \/ m2.out = 0
                        /\ m2.prev = m.prev \/ m2.prev = m.out
  BY <1>4, <1>5, <1>6, <1>7, AfterEffect
<1>9. /\ nib' \in [Nodes -> Mat] /\ nib'[d] = m2
      /\ \A x \in Nodes : x # d => nib'[x] = nib[x]
  BY <1>1, <1>2, <1>3, <1>4, <1>8
<1>10. \A j \in 2 .. Len(q[d]) : q[d][j].secured
  <2>1. q[d] \in Seq(Frames)
    BY <1>1 DEF KeyInv, Queues
  <2>2. \A j \in 2 .. Len(q[d]) : j \in 1 .. Len(q[d])
    BY <2>1
  <2> QED
    BY <1>1, <1>2, <2>2, HeadFacts
<1>11. m2.active <= nib[TC].active /\ m2.out <= frames /\ m2.prev <= frames
  BY <1>1, <1>3, <1>4, <1>8
<1>12. TakesKeys(d)
  BY <1>1, <1>2, <1>4, <1>8, <1>9, <1>10, <1>11 DEF TakesKeys
<1>13. TakesEntry(d) /\ nbr' \in [Nodes -> [Nodes -> Notes]]
  BY <1>1, <1>2, EntryStep
<1>14. Takes(d)
  BY <1>2, SwitchFacts DEF Takes
<1> QED
  BY <1>1, <1>12, <1>13, <1>14, TakeKeeps

\* A frame fails: a device forgets the key of slot 0 and that it has its key.
LEMMA RefuseKeeps ==
  ASSUME KeyInv, NEW n \in Nodes, Refuse(n)
  PROVE  KeyInv'
<1>1. /\ q[n] # << >> /\ auth[n]
      /\ UNCHANGED <<keySw, swLeft, pend, switches, frames, joins>>
      /\ q' = [q EXCEPT ![n] = Tail(@)]
      /\ nbr' = [nbr EXCEPT ![n][Head(q[n]).from] = NotedEntry(n, Head(q[n]))]
  BY DEF Refuse
<1>2. TakesEntry(n) /\ nbr' \in [Nodes -> [Nodes -> Notes]]
  BY <1>1, EntryStep
<1>3. Takes(n)
  BY <1>1, SwitchFacts DEF Takes
<1>4. CASE n = TC
  <2>1. UNCHANGED <<nib, auth>>
    BY <1>4 DEF Refuse
  <2> QED
    BY <2>1, <1>1, <1>2, <1>3, SameKeys, TakeKeeps
<1>5. CASE n # TC
  <2>1. /\ nib' = [nib EXCEPT ![n] = Forget(@)] /\ auth' = [auth EXCEPT ![n] = FALSE]
    BY <1>5 DEF Refuse
  <2>2. /\ n \in Devices /\ nib \in [Nodes -> Mat] /\ auth \in [Nodes -> BOOLEAN]
    BY <1>5, Types DEF KeyInv
  <2>3. PICK m \in Mat : /\ m = nib[n] /\ OwnKey(m) /\ m.active <= nib[TC].active
                         /\ m.out <= frames /\ m.prev <= frames
    BY <2>2 DEF KeyInv, DeviceStore, Numbered
  <2> DEFINE m2 == [m EXCEPT !.key = [@ EXCEPT ![0] = Zero]]
  <2>4. m.key \in MatKeys
    BY DEF Mat
  <2>5. [m.key EXCEPT ![0] = Zero] \in MatKeys /\ [m.key EXCEPT ![0] = Zero][0] = Zero
        /\ \A j \in 1 .. 2 : [m.key EXCEPT ![0] = Zero][j] = m.key[j]
    BY <2>4 DEF MatKeys, N
  <2>6. /\ m2 \in Mat /\ m2.key = [m.key EXCEPT ![0] = Zero] /\ m2.seq = m.seq
        /\ m2.i = m.i /\ m2.active = m.active /\ m2.out = m.out /\ m2.prev = m.prev
    BY <2>5 DEF Mat
  <2>7. m2 = Forget(m)
    BY DEF Forget
  <2> HIDE DEF m2
  <2>8. OwnKey(m2) /\ m2.key[0] = Zero
    BY <2>3, <2>5, <2>6 DEF OwnKey
  <2>9. Onward(m, m2)
    BY <2>6, OnwardSame
  <2>10. /\ nib' \in [Nodes -> Mat] /\ nib'[n] = m2
         /\ \A x \in Nodes : x # n => nib'[x] = nib[x]
         /\ auth' \in [Nodes -> BOOLEAN] /\ ~auth'[n]
         /\ \A x \in Nodes : x # n => auth'[x] = auth[x]
    BY <2>1, <2>2, <2>3, <2>6, <2>7
  <2>11. TakesKeys(n)
    BY <1>5, <2>2, <2>3, <2>6, <2>8, <2>9, <2>10 DEF TakesKeys
  <2> QED
    BY <2>11, <1>2, <1>3, TakeKeeps
<1> QED
  BY <1>4, <1>5

\* The key that answers a join becomes the active one; nobody has heard of the
\* counters of the device yet, or it has joined before.
LEMMA TransportKeeps ==
  ASSUME KeyInv, NEW d \in Devices, TransportKey(d)
  PROVE  KeyInv'
<1>1. /\ d \in Nodes /\ d # TC /\ TC \in Nodes /\ nib \in [Nodes -> Mat]
      /\ auth \in [Nodes -> BOOLEAN] /\ frames \in Nat /\ joins[d] \in 0 .. 2
  BY Types, KeyAssumption DEF KeyInv
<1>2. /\ q[d] # << >> /\ ~Head(q[d]).secured
      /\ q' = [q EXCEPT ![d] = Tail(@)]
      /\ nib' = [nib EXCEPT ![d] = FirstKey(@, Head(q[d]).body.key, Head(q[d]).body.seq)]
      /\ auth' = [auth EXCEPT ![d] = TRUE]
      /\ UNCHANGED <<nbr, keySw, swLeft, pend, switches, frames, joins>>
  BY DEF TransportKey
<1>3. PICK f \in Frames : f = Head(q[d]) /\ f = q[d][1] /\ ~f.secured /\ 1 \in 1 .. Len(q[d])
  BY <1>1, <1>2, HeadFacts
<1>4. KeyAhead(d)
  BY <1>3 DEF KeyAhead
<1>5. /\ joins[d] > 0
      /\ f.body \in [key : {0, 1}, seq : {0, 1}] /\ f.body.key = f.body.seq
      /\ f.body.seq \in nib[d].active .. nib[TC].active
      /\ \A l \in 1 .. Len(q[d]) : ~q[d][l].secured => l = 1
  <2>1. NoMsg \notin [key : {0, 1}, seq : {0, 1}]
    BY DEF NoMsg, Missing
  <2> QED
    BY <1>3, <2>1 DEF KeyInv, ToDevices
<1>6. PICK m \in Mat : m = nib[d] /\ OwnKey(m) /\ m.active \in {0, 1} /\ m.prev <= frames
  BY <1>1, ActiveBound DEF KeyInv, DeviceStore, Numbered
<1>7. PICK s \in {0, 1} : /\ s = f.body.key /\ s = f.body.seq /\ m.active <= s
                          /\ s <= nib[TC].active
  <2>1. nib[TC].active \in {0, 1}
    BY <1>1, ActiveBound
  <2> QED
    BY <1>5, <1>6, <2>1
<1>8. PICK m2 \in Mat : /\ m2 = FirstKey(m, s, s) /\ OwnKey(m2) /\ m2.active = s
                        /\ m2.key[s] = s /\ m2.i = s /\ m2.out = 0 /\ m2.prev = m.prev
  BY SMTT(40), <1>6, <1>7, FirstEffect
<1>9. /\ nib' \in [Nodes -> Mat] /\ nib'[d] = m2
      /\ \A x \in Nodes : x # d => nib'[x] = nib[x]
      /\ auth' \in [Nodes -> BOOLEAN] /\ auth'[d]
      /\ \A x \in Nodes : x # d => auth'[x] = auth[x]
  BY Zenon, <1>1, <1>2, <1>3, <1>6, <1>7, <1>8
<1>10. \A j \in 2 .. Len(q[d]) : q[d][j].secured
  <2>1. q[d] \in Seq(Frames)
    BY <1>1 DEF KeyInv, Queues
  <2>2. \A j \in 2 .. Len(q[d]) : j \in 1 .. Len(q[d]) /\ j # 1
    BY <2>1
  <2> QED
    BY <2>2, <1>5
<1>11. Silent(d) \/ ~Steady(d)
  <2>1. CASE joins[d] = 1
    BY <2>1, <1>4 DEF KeyInv, Unheard
  <2>2. CASE joins[d] = 2
    BY <2>2, <1>1 DEF Steady
  <2> QED
    BY <2>1, <2>2, <1>1, <1>5
<1>12. TakesKeys(d)
  <2>1. 0 <= frames
    BY <1>1
  <2>2. /\ OwnKey(nib'[d]) /\ nib'[d].active <= nib[TC].active
        /\ nib'[d].key[nib'[d].i] = nib'[d].active
        /\ nib'[d].out <= frames /\ nib'[d].prev <= frames
    BY <2>1, <1>6, <1>7, <1>8, <1>9
  <2>3. ~(\E j \in 2 .. Len(q[d]) : ~q[d][j].secured)
    BY <1>10
  <2> QED
    BY <2>2, <2>3, <1>1, <1>5, <1>9, <1>10, <1>11 DEF TakesKeys
<1>13. nbr' \in [Nodes -> [Nodes -> Notes]] /\ TakesEntry(d)
  BY <1>2 DEF KeyInv, TypeOK, Notes, TakesEntry
<1>14. Takes(d)
  BY <1>2, SwitchFacts DEF Takes
<1> QED
  BY <1>1, <1>12, <1>13, <1>14, TakeKeeps

-----------------------------------------------------------------------------
(* The theorems.                                                            *)

\* The network starts with the first key at the trust center only.
LEMMA InitHolds ==
  ASSUME Init
  PROVE  KeyInv
<1> DEFINE r(n) == [key |-> [j \in 0 .. N - 1 |-> IF n = TC THEN j ELSE Zero],
                    seq |-> [j \in 0 .. N - 1 |-> IF n = TC THEN j ELSE 0],
                    i |-> 0, active |-> 0, out |-> 0, prev |-> 0]
           z == [seq |-> 0, cnt |-> 0]
<1>1. /\ nib = [n \in Nodes |-> r(n)] /\ auth = [n \in Nodes |-> n = TC]
      /\ nbr = [n \in Nodes |-> [m \in Nodes |-> z]]
      /\ q = [n \in Nodes |-> << >>] /\ keySw = FALSE /\ swLeft = {}
      /\ pend = [from |-> TC, seq |-> 0] /\ switches = 0 /\ frames = 0
      /\ joins = [d \in Devices |-> 0]
  BY DEF Init
<1>2. /\ TC \in Nodes /\ Devices \subseteq Nodes /\ TC \notin Devices
      /\ 0 \in 0 .. MaxFrames /\ 0 \in 0 .. MaxFrames - 1 /\ 0 \in 0 .. MaxSwitches
      /\ 0 \in Labels /\ 0 \in 0 .. N - 1 /\ 0 <= MaxQueue
  BY KeyAssumption DEF Nodes, Labels, N
<1>3. ASSUME NEW n \in Nodes
      PROVE  /\ r(n) \in Mat /\ r(n).i = 0 /\ r(n).active = 0 /\ r(n).out = 0 /\ r(n).prev = 0
             /\ \A j \in 0 .. 2 : /\ r(n).key[j] = (IF n = TC THEN j ELSE Zero)
                                  /\ r(n).seq[j] = (IF n = TC THEN j ELSE 0)
  <2>1. [j \in 0 .. N - 1 |-> IF n = TC THEN j ELSE Zero] \in MatKeys
    BY DEF MatKeys, Keys, N
  <2>2. [j \in 0 .. N - 1 |-> IF n = TC THEN j ELSE 0] \in MatSeqs
    BY DEF MatSeqs, Labels, N
  <2> QED
    BY <2>1, <2>2, <1>2 DEF Mat, N
<1>4. z \in Notes /\ z.seq = 0 /\ z.cnt = 0 /\ z = [seq |-> 0, cnt |-> 0]
  BY <1>2 DEF Notes
<1> HIDE DEF r, z
<1>5. /\ nib \in [Nodes -> Mat]
      /\ \A n \in Nodes : /\ nib[n].i = 0 /\ nib[n].active = 0 /\ nib[n].out = 0 /\ nib[n].prev = 0
                          /\ \A j \in 0 .. 2 : /\ nib[n].key[j] = (IF n = TC THEN j ELSE Zero)
                                               /\ nib[n].seq[j] = (IF n = TC THEN j ELSE 0)
  BY <1>1, <1>3
<1>6. \A n \in Nodes : q[n] = << >> /\ Len(q[n]) = 0
  BY <1>1
<1>7. TypeOK
  <2>1. nbr \in [Nodes -> [Nodes -> Notes]]
    BY <1>1, <1>4
  <2>2. \A n \in Nodes : Len(q[n]) <= MaxQueue /\ \A j \in 1 .. Len(q[n]) : q[n][j] \in Frames
    BY <1>2, <1>6
  <2>3. auth \in [Nodes -> BOOLEAN] /\ joins \in [Devices -> 0 .. 2] /\ keySw \in BOOLEAN
    <3>1. auth \in [Nodes -> BOOLEAN]
      BY <1>1, Zenon
    <3>2. joins = [d \in Devices |-> 0] /\ keySw = FALSE
      BY <1>1
    <3>3. joins \in [Devices -> 0 .. 2]
      BY <3>2
    <3>4. keySw \in BOOLEAN
      BY <3>2
    <3> QED
      BY <3>1, <3>3, <3>4
  <2>4. pend \in [from : Nodes, seq : Labels] /\ switches \in 0 .. MaxSwitches
        /\ frames \in 0 .. MaxFrames /\ swLeft \subseteq Devices
    BY <1>1, <1>2
  <2> QED
    BY <1>5, <2>1, <2>2, <2>3, <2>4 DEF TypeOK, Mat, MatKeys, MatSeqs, Notes
<1>8. Queues
  BY <1>1 DEF Queues
<1>9. TcStore
  <2>1. auth[TC]
    BY <1>1, <1>2
  <2>2. \A j \in Keys : nib[TC].key[j] = j /\ nib[TC].seq[j] = j
    BY <1>2, <1>5 DEF Keys, N
  <2>3. nib[TC].i = 0 /\ nib[TC].active = 0 /\ ~keySw /\ switches = 0
    BY <1>1, <1>2, <1>5
  <2> QED
    BY <2>1, <2>2, <2>3 DEF TcStore
<1>10. \A d \in Devices : ~KeyAhead(d)
  BY <1>2, <1>6 DEF KeyAhead
<1>11. DeviceStore
  <2> SUFFICES ASSUME NEW d \in Devices
               PROVE  /\ OwnKey(nib[d]) /\ nib[d].active <= nib[TC].active
                      /\ ~auth[d] /\ nib[d].key[0] = Zero
    BY DEF DeviceStore
  <2>1. d \in Nodes /\ d # TC
    BY <1>2
  <2>2. /\ nib[d].i = 0 /\ nib[d].active = 0 /\ nib[TC].active = 0
        /\ \A j \in 0 .. 2 : nib[d].key[j] = Zero /\ nib[d].seq[j] = 0
    BY <1>2, <1>5, <2>1
  <2>3. ~auth[d]
    BY <1>1, <2>1
  <2>4. OwnKey(nib[d])
    BY <2>2 DEF OwnKey
  <2> QED
    BY <2>2, <2>3, <2>4
<1>12. ToDevices /\ ToTc
  BY <1>1, <1>2, <1>5, <1>6 DEF ToDevices, ToTc
<1>13. Numbered
  BY <1>1, <1>5 DEF Numbered
<1>14. Unheard
  BY <1>1, <1>2, <1>4, <1>6 DEF Unheard, Silent
<1>15. CountersInOrder
  <2> SUFFICES ASSUME NEW n \in Nodes, NEW m \in Nodes
               PROVE  Heeded(nbr[n][m], q[n], m, nib[m]) /\ InOrder(nbr[n][m], q[n], m)
    BY DEF CountersInOrder
  <2>1. nbr[n][m] = [seq |-> 0, cnt |-> 0] /\ nib[m] \in Mat
    BY <1>1, <1>4, <1>5
  <2>2. q[n] \in Seq(Frames) /\ \A j \in 1 .. Len(q[n]) : q[n][j].from # m
    <3>1. << >> \in Seq(Frames)
      OBVIOUS
    <3>2. q[n] = << >> /\ Len(q[n]) = 0
      BY <1>6
    <3>3. \A j \in 1 .. Len(q[n]) : FALSE
      BY <3>2
    <3> QED
      BY <3>1, <3>2, <3>3
  <2> QED
    BY <2>1, <2>2, SilentHeeded
<1> QED
  BY <1>7, <1>8, <1>9, <1>11, <1>12, <1>13, <1>14, <1>15 DEF KeyInv

\* Nothing happens.
LEMMA StutterKeeps ==
  ASSUME KeyInv, UNCHANGED vars
  PROVE  KeyInv'
<1> USE DEF vars
<1>1. TypeOK' /\ Queues'
  BY DEF KeyInv, TypeOK, Queues
<1>2. TcStore' /\ ToTc' /\ Numbered'
  BY DEF KeyInv, TcStore, ToTc, Numbered
<1>3. DeviceStore'
  BY DEF KeyInv, DeviceStore, KeyAhead
<1>4. ToDevices'
  BY DEF KeyInv, ToDevices
<1>5. Unheard'
  BY DEF KeyInv, Unheard, Silent, KeyAhead
<1>6. CountersInOrder'
  BY DEF KeyInv, CountersInOrder, Steady
<1> QED
  BY <1>1, <1>2, <1>3, <1>4, <1>5, <1>6 DEF KeyInv

\* Up to the first switch, every step of the network keeps the invariant.
LEMMA NextKeeps ==
  ASSUME OneSwitch, KeyInv, [Next]_vars
  PROVE  KeyInv'
<1>1. CASE UNCHANGED vars
  BY <1>1, StutterKeeps
<1>2. CASE zb_secur_send_nwk_key_update_br
  BY <1>2, UpdateKeeps
<1>3. CASE SendKeySwitch
  BY <1>3, SendSwitchKeeps
<1>4. CASE KeySwitchConfirm
  BY <1>4, ConfirmKeeps
<1>5. CASE SwitchFirst
  BY <1>5, SwitchFirstKeeps
<1>6. CASE secur_send_key_sw_next
  BY <1>6, SendNextKeeps
<1>7. CASE TcData
  BY <1>7, TcDataKeeps
<1>8. CASE TcForward
  BY <1>8, TcForwardKeeps
<1>9. ASSUME NEW d \in Devices, Join(d) \/ TransportKey(d) \/ DeviceData(d)
      PROVE  KeyInv'
  BY <1>9, JoinKeeps, TransportKeeps, DeviceDataKeeps
<1>10. ASSUME NEW n \in Nodes, DropUnauthenticated(n) \/ Refuse(n)
       PROVE  KeyInv'
  BY <1>10, DropKeeps, RefuseKeeps
<1>11. ASSUME NEW n \in Nodes, Accept(n)
       PROVE  KeyInv'
  <2>1. CASE n = TC
    BY <2>1, <1>11, AcceptTcKeeps
  <2>2. CASE n \in Devices
    BY <2>2, <1>11, AcceptDeviceKeeps
  <2> QED
    BY <2>1, <2>2 DEF Nodes
<1> QED
  BY <1>1, <1>2, <1>3, <1>4, <1>5, <1>6, <1>7, <1>8, <1>9, <1>10, <1>11 DEF Next

\* The invariant holds through lost updates, late switches, joins and rejoins,
\* in every order of the frames.
THEOREM KeyInvariant == ASSUME OneSwitch PROVE Spec => []KeyInv
<1>1. KeyInv /\ [Next]_vars => KeyInv'
  BY NextKeeps
<1> QED
  BY <1>1, InitHolds, PTL DEF Spec

\* Every variable stays within its type: no counter is taken twice, or it
\* would exceed the number of frames.
THEOREM TypeCorrect == ASSUME OneSwitch PROVE Spec => []TypeOK
<1>1. KeyInv => TypeOK
  BY DEF KeyInv
<1> QED
  BY <1>1, KeyInvariant, PTL

\* Trust center and devices agree on the keys: zb_apsme_transport_key_indication()
\* and secur_nwk_key_switch() keep no key under the label of another one, and no
\* device uses a key the trust center has not switched to.
THEOREM KeysAreAgreed == ASSUME OneSwitch PROVE Spec => []KeysAgree
<1>1. ASSUME KeyInv
      PROVE  KeysAgree
  <2>1. TcStore /\ DeviceStore /\ ToDevices
    BY <1>1 DEF KeyInv
  <2>2. \A n \in Nodes : n = TC \/ n \in Devices
    BY <1>1, Types DEF KeyInv
  <2>3. KeysLabelled
    <3>1. ASSUME NEW n \in Nodes, NEW j \in 0 .. N - 1, nib[n].key[j] # Zero
          PROVE  nib[n].seq[j] = nib[n].key[j]
      <4>1. CASE n = TC
        BY <4>1, <2>1 DEF TcStore, Keys
      <4>2. CASE n \in Devices
        <5>1. OwnKey(nib[n])
          BY <4>2, <2>1 DEF DeviceStore
        <5> QED
          BY <5>1, <3>1 DEF OwnKey, N
      <4> QED
        BY <4>1, <4>2, <2>2
    <3>2. ASSUME NEW n \in Nodes, auth[n]
          PROVE  nib[n].key[nib[n].i] = nib[n].active
      <4>1. CASE n = TC
        <5>1. nib[TC].i \in Keys
          BY <1>1, <4>1, ActiveBound DEF Keys, N
        <5> QED
          BY <5>1, <4>1, <2>1 DEF TcStore
      <4>2. CASE n \in Devices
        BY <4>2, <3>2, <2>1 DEF DeviceStore
      <4> QED
        BY <4>1, <4>2, <2>2
    <3> QED
      BY <3>1, <3>2, <2>1 DEF KeysLabelled, ToDevices
  <2>4. NotAheadOfTc
    BY <2>1 DEF NotAheadOfTc, DeviceStore, ToDevices
  <2> QED
    BY <2>3, <2>4 DEF KeysAgree
<1> QED
  BY <1>1, KeyInvariant, PTL

\* zb_nwk_secure_frame() counts up under every label, and no receiver refuses a
\* frame as a replay, across the switch and for frames forwarded under the
\* previous key.
THEOREM CountersKeepAdvancing == ASSUME OneSwitch PROVE Spec => []CountersAdvance
<1>1. ASSUME KeyInv
      PROVE  CountersAdvance
  <2> SUFFICES ASSUME NEW n \in Nodes, NEW j \in 1 .. Len(q[n]),
                      q[n][j].secured, q[n][j].from = TC \/ joins[q[n][j].from] = 1
               PROVE  LET f == q[n][j]
                          m == nib[f.from]
                      IN  /\ f.cnt < (IF f.seq = m.active THEN m.out ELSE m.prev)
                          /\ \A l \in j + 1 .. Len(q[n]) :
                               q[n][l].secured /\ q[n][l].from = f.from
                               /\ q[n][l].seq = f.seq => f.cnt < q[n][l].cnt
                          /\ nbr[n][f.from].seq = f.seq => nbr[n][f.from].cnt <= f.cnt
    BY DEF CountersAdvance
  <2>1. q[n] \in Seq(Frames)
    BY <1>1 DEF KeyInv, Queues
  <2>2. PICK m \in Nodes : m = q[n][j].from
    BY <2>1, FrameFields
  <2>3. Steady(m)
    BY <2>2 DEF Steady
  <2>4. Heeded(nbr[n][m], q[n], m, nib[m]) /\ InOrder(nbr[n][m], q[n], m)
    BY SMTT(40), <1>1, <2>3 DEF KeyInv, CountersInOrder
  <2>5. q[n][j].cnt < (IF q[n][j].seq = nib[m].active THEN nib[m].out ELSE nib[m].prev)
    BY Zenon, <2>2, <2>4 DEF Heeded, NextCnt
  <2>6. /\ nbr[n][m].seq = q[n][j].seq => nbr[n][m].cnt <= q[n][j].cnt
        /\ \A l \in j + 1 .. Len(q[n]) :
             q[n][l].from = m /\ q[n][l].secured /\ q[n][l].seq = q[n][j].seq =>
                 q[n][j].cnt < q[n][l].cnt
    BY <2>2, <2>4 DEF InOrder
  <2> QED
    BY <2>2, <2>5, <2>6
<1> QED
  BY <1>1, KeyInvariant, PTL
=============================================================================
