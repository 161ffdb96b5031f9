------------------------------ MODULE NwkKeys ------------------------------
(***************************************************************************)
(* Network keys in a ZigBee network with standard security: the trust      *)
(* center hands out the active key to devices that join, announces the     *)
(* next key by a broadcast, and switches to it by a broadcast or a row of  *)
(* unicasts.  Routers follow when they receive a frame secured by a newer  *)
(* key, and rejoin when the parent uses a key they do not have             *)
(* (secur/zdo_secur.c, secur/nwk_secur.c, zdo/zdo_app.c).                  *)
(*                                                                         *)
(* The devices are routers, children of the trust center, in range of the  *)
(* trust center only.  Frames between two nodes keep their order; any      *)
(* frame of the trust center may be missed by any device, except the       *)
(* transport of the key to a joining device, a unicast the MAC repeats.    *)
(* The keys of the trust center are the numbers of the slots they were     *)
(* generated in.                                                           *)
(***************************************************************************)
EXTENDS Integers, Sequences, FiniteSets, FiniteSetsExt

CONSTANTS
    TC,           \* the coordinator: trust center and parent
    Devices,      \* the routers that join it
    MaxFrames,    \* bound: secured frames sent altogether
    MaxQueue,     \* bound: frames received and not yet handled
    MaxSwitches   \* bound: key switches the trust center makes

Nodes == Devices \cup {TC}

\* ZB_SECUR_N_SECUR_MATERIAL
N == 3
\* A slot that was never filled: all zeroes.
Zero == -1
\* secur_nwk_key_by_seq() finds nothing.
Missing == -2
Keys == 0 .. N - 1
Labels == 0 .. N

ASSUME KeyAssumption ==
    /\ TC \notin Devices
    /\ MaxFrames \in Nat \ {0} /\ MaxQueue \in Nat /\ MaxSwitches \in Nat

VARIABLES
    nib,       \* per node: key and seq of each slot (secur_material_set),
               \* i (active_secur_material_i), active (active_key_seq_number),
               \* out and prev (the outgoing frame counters)
    auth,      \* aps.authenticated
    nbr,       \* nbr[n][m]: key label and frame counter n keeps for m
    q,         \* q[n]: frames that reached n
    keySw,     \* zdo.handle.key_sw: the broadcast switch awaits its confirm
    swLeft,    \* neighbors the unicast switch has still to be sent to
    pend,      \* frame the trust center has to forward: its label and
               \* sender, or NoMsg
    switches,  \* number of key switches begun
    frames,    \* number of secured frames sent
    joins      \* per device: joined never, once, or (2) more than once

vars == <<nib, auth, nbr, q, keySw, swLeft, pend, switches, frames, joins>>

\* A frame that carries no key.
NoMsg == [key |-> Missing, seq |-> 0]

-----------------------------------------------------------------------------
(* The key store                                                           *)

\* Distance from label b to label a in 8 bits.
Diff8(a, b) == (256 + a - b) % 256

\* secur_nwk_key_by_seq(): the slots in turn, from the active one.
KeyBySeq(m, s) ==
    LET hits == {c \in 0 .. N - 1 : m.seq[(m.i + c) % N] = s}
    IN IF hits = {} THEN Missing ELSE m.key[(m.i + Min(hits)) % N]

\* The slot of a key that arrives: counted from the active one by label.
SlotOf(m, s) == (m.i + Diff8(s, m.active)) % N

\* zb_apsme_transport_key_indication(): keep the key.  A key that falls on
\* the active slot under another label becomes the active one.
StoreKey(m, k, s) ==
    LET j == SlotOf(m, s)
        m1 == [m EXCEPT !.key[j] = k, !.seq[j] = s]
    IN IF j = m.i /\ s # m.active
       THEN [m1 EXCEPT !.active = s, !.out = 0]
       ELSE m1

\* The same for a device that waits for its first key: the key becomes the
\* active one.  An all-zero key confirms the one in slot 0.
FirstKey(m, k, s) ==
    LET confirm == k = Zero /\ s = 0
        m1 == IF confirm THEN m ELSE StoreKey(m, k, s)
        j  == IF confirm THEN 0 ELSE SlotOf(m, s)
    IN [m1 EXCEPT !.active = s, !.out = 0, !.i = j]

\* secur_nwk_key_switch(): the loop goes on while the slots after the active
\* one carry the wanted label, and the number of its turns becomes the index.
Turns(m, s) ==
    LET shift == (m.i + 1) % N
    IN Min({c \in 0 .. N : c = N \/ m.seq[(c + shift) % N] # s})
Switch_KeepPrev(m, s) ==
    [m EXCEPT !.i = Turns(m, s), !.active = s, !.out = 0]
Switch(m, s) ==
    IF Turns(m, s) = N
    THEN m
    ELSE [m EXCEPT !.i = Turns(m, s), !.active = s, !.prev = m.out, !.out = 0]

\* zb_nwk_secure_frame(): a forwarded frame keeps the key it came with and
\* goes on with the counter of the previous key; any other frame takes the
\* active key and its counter.
Old(m, same, s) == same /\ s # m.active
Counter(m, same, s) == IF Old(m, same, s) THEN m.prev ELSE m.out
Label(m, same, s) == IF Old(m, same, s) THEN s ELSE m.active
Counted_Twice(m, same, s) == [m EXCEPT !.out = @ + 2]
Counted(m, same, s) ==
    IF Old(m, same, s) THEN [m EXCEPT !.prev = @ + 1]
                       ELSE [m EXCEPT !.out = @ + 1]

-----------------------------------------------------------------------------

\* Global data is zero; secur_generate_keys() fills the slots of the trust
\* center, which is always authenticated.
Init ==
    /\ nib = [n \in Nodes |->
                [key |-> [j \in 0 .. N - 1 |-> IF n = TC THEN j ELSE Zero],
                 seq |-> [j \in 0 .. N - 1 |-> IF n = TC THEN j ELSE 0],
                 i |-> 0, active |-> 0, out |-> 0, prev |-> 0]]
    /\ auth = [n \in Nodes |-> n = TC]
    /\ nbr = [n \in Nodes |-> [m \in Nodes |-> [seq |-> 0, cnt |-> 0]]]
    /\ q = [n \in Nodes |-> << >>]
    /\ keySw = FALSE
    /\ swLeft = {}
    /\ pend = [from |-> TC, seq |-> 0]
    /\ switches = 0
    /\ frames = 0
    /\ joins = [d \in Devices |-> 0]

\* A frame of n, secured and put on the air for the nodes in R.  `same' asks
\* for the label s.  body is the key the frame carries, or NoMsg.
Air(n, R, same, s, body) ==
    LET m == nib[n]
        f == [secured |-> TRUE, from |-> n, seq |-> Label(m, same, s),
              cnt |-> Counter(m, same, s),
              k |-> KeyBySeq(m, Label(m, same, s)), body |-> body]
    IN /\ frames < MaxFrames
       /\ frames' = frames + 1
       /\ nib' = [nib EXCEPT ![n] = Counted(m, same, s)]
       /\ q' = [r \in Nodes |->
                  IF r \in R /\ f.k # Missing THEN Append(q[r], f) ELSE q[r]]

\* A device hears a frame, or misses it.  Left out are the devices that will
\* drop it because they have no key and no key is ahead of it.
KeyAhead(d) == \E j \in 1 .. Len(q[d]) : ~q[d][j].secured
Heard == SUBSET {d \in Devices : /\ Len(q[d]) < MaxQueue
                                 /\ auth[d] \/ KeyAhead(d)}

-----------------------------------------------------------------------------
(* The trust center                                                        *)

\* zb_secur_send_nwk_key_update_br(): broadcast the key after the active one.
zb_secur_send_nwk_key_update_br ==
    LET s == nib[TC].active + 1
        k == KeyBySeq(nib[TC], s)
    IN /\ k # Missing
       /\ \E R \in Heard : Air(TC, R, FALSE, 0, [key |-> k, seq |-> s])
       /\ UNCHANGED <<auth, nbr, keySw, swLeft, pend, switches, joins>>

\* zb_secur_send_nwk_key_switch() with a broadcast address: the command goes
\* out under the old key, and the confirm will switch.  Routers drop the
\* command itself.
SendKeySwitch ==
    /\ ~keySw /\ swLeft = {}
    /\ switches < MaxSwitches
    /\ \E R \in Heard : Air(TC, R, FALSE, 0, NoMsg)
    /\ keySw' = TRUE
    /\ switches' = switches + 1
    /\ UNCHANGED <<auth, nbr, swLeft, pend, joins>>

\* zb_apsde_data_confirm() of that command.
KeySwitchConfirm ==
    /\ keySw
    /\ nib' = [nib EXCEPT ![TC] = Switch(@, @.active + 1)]
    /\ keySw' = FALSE
    /\ UNCHANGED <<auth, nbr, q, swLeft, pend, switches, frames, joins>>

\* zb_secur_send_nwk_key_switch() with address 0: switch, then send the
\* command to one neighbor after the other.
SwitchFirst ==
    /\ ~keySw /\ swLeft = {}
    /\ switches < MaxSwitches
    /\ nib' = [nib EXCEPT ![TC] = Switch(@, @.active + 1)]
    /\ swLeft' = {d \in Devices : joins[d] > 0}
    /\ switches' = switches + 1
    /\ UNCHANGED <<auth, nbr, q, keySw, pend, frames, joins>>

\* secur_send_key_sw_next(), each time a buffer is there.
secur_send_key_sw_next ==
    \E d \in swLeft :
        /\ \E R \in Heard : R \subseteq {d} /\ Air(TC, R, FALSE, 0, NoMsg)
        /\ swLeft' = swLeft \ {d}
        /\ UNCHANGED <<auth, nbr, keySw, pend, switches, joins>>

\* A broadcast of the trust center's own.
TcData ==
    /\ \E R \in Heard : Air(TC, R, FALSE, 0, NoMsg)
    /\ UNCHANGED <<auth, nbr, keySw, swLeft, pend, switches, joins>>

\* zb_nwk_forward() of a device's broadcast, under the key it came with.
TcForward ==
    /\ pend.from # TC
    /\ \E R \in Heard : /\ pend.from \notin R
                        /\ Air(TC, R, TRUE, pend.seq, NoMsg)
    /\ pend' = [from |-> TC, seq |-> 0]
    /\ UNCHANGED <<auth, nbr, keySw, swLeft, switches, joins>>

\* secur_authenticate_child(): the key in the active slot, under the active
\* label; an all-zero key for a device that rejoined securely.
HandedKey(secure) ==
    IF secure THEN [key |-> Zero, seq |-> 0]
    ELSE [key |-> nib[TC].key[nib[TC].i], seq |-> nib[TC].active]

\* A device without a key joins or rejoins, and secur_authenticate_child()
\* sends it a key in an unsecured frame.  The request is secured if slot 0
\* holds a key.  The device makes its parent's neighbor entry anew; the trust
\* center keeps the entry of a device it knows.
Join(d) ==
    /\ ~auth[d] /\ ~KeyAhead(d)
    /\ Len(q[d]) < MaxQueue
    /\ q' = [q EXCEPT ![d] = Append(@,
               [secured |-> FALSE, from |-> TC, seq |-> 0, cnt |-> 0,
                k |-> Zero, body |-> HandedKey(nib[d].key[0] # Zero)])]
    /\ nbr' = [nbr EXCEPT ![d][TC] = [seq |-> 0, cnt |-> 0]]
    /\ joins' = [joins EXCEPT ![d] = IF @ = 0 THEN 1 ELSE 2]
    /\ UNCHANGED <<nib, auth, keySw, swLeft, pend, switches, frames>>

-----------------------------------------------------------------------------
(* The devices                                                             *)

\* zb_apsme_transport_key_indication() of the key that answers the join.
TransportKey(d) ==
    /\ q[d] # << >> /\ ~Head(q[d]).secured
    /\ nib' = [nib EXCEPT ![d] =
                 FirstKey(@, Head(q[d]).body.key, Head(q[d]).body.seq)]
    /\ auth' = [auth EXCEPT ![d] = TRUE]
    /\ q' = [q EXCEPT ![d] = Tail(@)]
    /\ UNCHANGED <<nbr, keySw, swLeft, pend, switches, frames, joins>>

\* A broadcast of device d (the announcement after it got the key is one).
DeviceData(d) ==
    /\ auth[d]
    /\ Len(q[TC]) < MaxQueue
    /\ Air(d, {TC}, FALSE, 0, NoMsg)
    /\ UNCHANGED <<auth, nbr, keySw, swLeft, pend, switches, joins>>

-----------------------------------------------------------------------------
(* zb_nwk_unsecure_frame()                                                 *)

\* The neighbor's entry follows the label of the frame.
Entry(n, f) ==
    IF nbr[n][f.from].seq # f.seq THEN [seq |-> f.seq, cnt |-> 0]
                                  ELSE nbr[n][f.from]
\* The counter is refused, the key is there, the frame decrypts.
Stale(n, f) == Entry(n, f).cnt > f.cnt
HasKey(n, f) == KeyBySeq(nib[n], f.seq) # Missing
Decrypts(n, f) == KeyBySeq(nib[n], f.seq) = f.k

\* What the receiver notes before it decrypts.
NotedEntry(n, f) ==
    IF HasKey(n, f) /\ ~Stale(n, f) THEN [Entry(n, f) EXCEPT !.cnt = f.cnt]
                                    ELSE Entry(n, f)

\* Implicit switch to a newer key, then the key the frame may carry.
Newer(m, f) == Diff8(f.seq, m.active) \in 1 .. 126
AfterFrame_Eager(m, f) ==
    IF f.body = NoMsg THEN m
    ELSE Switch(StoreKey(m, f.body.key, f.body.seq), f.body.seq)
AfterFrame(m, f) ==
    LET m1 == IF Newer(m, f) THEN Switch(m, f.seq) ELSE m
    IN IF f.body = NoMsg THEN m1 ELSE StoreKey(m1, f.body.key, f.body.seq)

\* A node without a key drops every secured frame.
DropUnauthenticated(n) ==
    /\ q[n] # << >> /\ ~auth[n] /\ Head(q[n]).secured
    /\ q' = [q EXCEPT ![n] = Tail(@)]
    /\ UNCHANGED <<nib, auth, nbr, keySw, swLeft, pend, switches, frames,
                   joins>>

\* The frame is accepted; the trust center forwards it unless its broadcast
\* table is taken.
Accept(n) ==
    /\ q[n] # << >> /\ auth[n]
    /\ LET f == Head(q[n])
       IN /\ HasKey(n, f) /\ ~Stale(n, f) /\ Decrypts(n, f)
          /\ nib' = [nib EXCEPT ![n] = AfterFrame(@, f)]
          /\ nbr' = [nbr EXCEPT ![n][f.from] = NotedEntry(n, f)]
          /\ pend' = IF n = TC /\ pend.from = TC
                     THEN [from |-> f.from, seq |-> f.seq] ELSE pend
    /\ q' = [q EXCEPT ![n] = Tail(@)]
    /\ UNCHANGED <<auth, keySw, swLeft, switches, frames, joins>>

\* The frame fails.  zb_nlme_status_indication(): a router whose parent sent
\* it forgets the key of slot 0 and that it is authenticated, and rejoins.
\* The trust center asks its child to leave, which zb_nlme_leave_request()
\* refuses for a child that unsecure_frame has just marked unauthenticated.
Forget(m) == [m EXCEPT !.key[0] = Zero]
Refuse(n) ==
    /\ q[n] # << >> /\ auth[n]
    /\ LET f == Head(q[n])
       IN /\ ~(HasKey(n, f) /\ ~Stale(n, f) /\ Decrypts(n, f))
          /\ nbr' = [nbr EXCEPT ![n][f.from] = NotedEntry(n, f)]
    /\ IF n = TC
       THEN UNCHANGED <<nib, auth>>
       ELSE /\ nib' = [nib EXCEPT ![n] = Forget(@)]
            /\ auth' = [auth EXCEPT ![n] = FALSE]
    /\ q' = [q EXCEPT ![n] = Tail(@)]
    /\ UNCHANGED <<keySw, swLeft, pend, switches, frames, joins>>

-----------------------------------------------------------------------------

Next ==
    \/ zb_secur_send_nwk_key_update_br
    \/ SendKeySwitch
    \/ KeySwitchConfirm
    \/ SwitchFirst
    \/ secur_send_key_sw_next
    \/ TcData
    \/ TcForward
    \/ \E d \in Devices :
         \/ Join(d)
         \/ TransportKey(d)
         \/ DeviceData(d)
    \/ \E n \in Nodes :
         \/ DropUnauthenticated(n)
         \/ Accept(n)
         \/ Refuse(n)

Spec == Init /\ [][Next]_vars

-----------------------------------------------------------------------------
(* Properties                                                              *)

Messages == [key : Keys \cup {Zero, Missing}, seq : Labels]
Frames == [secured : BOOLEAN, from : Nodes, seq : Labels, cnt : 0 .. MaxFrames - 1,
           k : Keys \cup {Zero}, body : Messages]

TypeOK ==
    /\ nib \in [Nodes -> [key : [0 .. N - 1 -> Keys \cup {Zero}],
                          seq : [0 .. N - 1 -> Labels],
                          i : 0 .. N - 1, active : Labels,
                          out : 0 .. MaxFrames, prev : 0 .. MaxFrames]]
    /\ auth \in [Nodes -> BOOLEAN]
    /\ nbr \in [Nodes -> [Nodes -> [seq : Labels, cnt : 0 .. MaxFrames - 1]]]
    /\ \A n \in Nodes : /\ Len(q[n]) <= MaxQueue
                        /\ \A j \in 1 .. Len(q[n]) : q[n][j] \in Frames
    /\ keySw \in BOOLEAN
    /\ swLeft \subseteq Devices
    /\ pend \in [from : Nodes, seq : Labels]
    /\ switches \in 0 .. MaxSwitches
    /\ frames \in 0 .. MaxFrames
    /\ joins \in [Devices -> 0 .. 2]

\* The active slot of a node that has a key carries the active label
\* (active_secur_material_i is used to hand the key to a joining device,
\* active_key_seq_number to label it, and only the pair is right).
ActiveIndexMatchesSeq ==
    \A n \in Nodes : auth[n] => nib[n].seq[nib[n].i] = nib[n].active

\* Every key in a store or on its way to a device goes by its own label, and
\* a device that has been given its key can use it: no node keeps a key
\* under the number of another one, whichever of the update, the switch and
\* the answer to the join came first.
KeysLabelled ==
    /\ \A n \in Nodes : \A j \in 0 .. N - 1 :
         nib[n].key[j] # Zero => nib[n].seq[j] = nib[n].key[j]
    /\ \A n \in Nodes : auth[n] => nib[n].key[nib[n].i] = nib[n].active
    /\ \A d \in Devices : \A j \in 1 .. Len(q[d]) :
         q[d][j].body # NoMsg => q[d][j].body.key = q[d][j].body.seq

\* No device secures frames with a key the trust center has not yet switched
\* to: the devices that missed the update would lose the ones that did not
\* while the trust center still counts on the old key.
NotAheadOfTc ==
    /\ \A d \in Devices : auth[d] => nib[d].active <= nib[TC].active
    /\ \A d \in Devices : \A j \in 1 .. Len(q[d]) : q[d][j].seq <= nib[TC].active

\* Trust center and devices agree on the keys: by label, and on which of them
\* may be in use, through lost updates, late switches and joins in between.
KeysAgree == KeysLabelled /\ NotAheadOfTc

\* Frames of one sender under one label carry ever higher counters, below the
\* counter the sender uses next, and the receiver's entry does not run ahead
\* of them: across a switch, and for frames forwarded under the previous key,
\* no frame is refused as a replay.  The exception are devices that have
\* rejoined: their counter starts again while the trust center keeps its own.
CountersAdvance ==
    \A n \in Nodes : \A j \in 1 .. Len(q[n]) :
      LET f == q[n][j]
          m == nib[f.from]
      IN f.secured /\ (f.from = TC \/ joins[f.from] = 1) =>
           /\ f.cnt < (IF f.seq = m.active THEN m.out ELSE m.prev)
           /\ \A l \in j + 1 .. Len(q[n]) :
                q[n][l].secured /\ q[n][l].from = f.from
                /\ q[n][l].seq = f.seq => f.cnt < q[n][l].cnt
           /\ nbr[n][f.from].seq = f.seq => nbr[n][f.from].cnt <= f.cnt
=============================================================================
