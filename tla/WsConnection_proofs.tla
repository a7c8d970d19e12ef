------------------------ MODULE WsConnection_proofs ------------------------
(***************************************************************************)
(* Proofs about WsConnection, for every number of slots, connections and   *)
(* calls: as long as the server closes no connection by itself, as main.c  *)
(* never does, every socket is closed exactly once and no slot is given on *)
(* while a thread is at work on it.                                        *)
(*                                                                         *)
(* A slot and the thread of its connection then belong to each other: the  *)
(* thread's slot holds its socket until the thread itself gives it back,   *)
(* and each slot that is taken has such a thread.  Only a call of          *)
(* ws_close_client or of ws_ping would bring in a second thread that       *)
(* closes, and these leave a mark in asked.                                *)
(*                                                                         *)
(* Whoever closes, the types hold; and as long as no slot was given on     *)
(* while it was in use, the callbacks of a connection come in pairs.       *)
(***************************************************************************)
EXTENDS WsConnection, FiniteSetTheorems, WellFoundedInduction, TLAPS

Connections ==
  [sock : Socks \union {NoSock}, cid : Nat, state : States, close_thrd : BOOLEAN,
   thrd_tout : Socks \union {NoSock}, ping : Int, pong : Int]

Places == {"none", "handshake", "read", "got_close", "set_closing", "send_close",
           "onclose", "closed", "join", "check", "close", "free", "ended"}

(* Where a thread holds a slot whose socket is open.                       *)
Holding == Places \ {"none", "free", "ended"}

Types ==
  /\ slot \in [Slots -> Connections]
  /\ accepted \in 0 .. MaxConns /\ next_cid \in Nat
  /\ cpc \in [Socks -> Places] /\ cat \in [Socks -> Slots]
  /\ closes \in [Socks -> Nat]
  /\ DOMAIN app = {"op", "cid", "at", "todo"}

(* Nothing but the client threads closes.                                  *)
NobodyElse ==
  /\ app.op \notin {"mark", "ping_free", "bping_free"}
  /\ \A n \in Socks : tpc[n] = "none"
  /\ \A i \in Slots : slot[i].close_thrd = FALSE
  /\ \A n \in Socks : cpc[n] # "join"

(* A thread and its slot.                                                  *)
Paired ==
  /\ \A n \in Socks : Alive(n) => slot[cat[n]].sock = n
  /\ \A n \in Socks : cpc[n] \in Holding => slot[cat[n]].state # "CLOSED"
  /\ \A i \in Slots : Valid(i) => Alive(slot[i].sock) /\ cat[slot[i].sock] = i

Closings ==
  \A n \in Socks :
    closes[n] = IF n > accepted \/ cpc[n] \in Holding THEN 0 ELSE 1

NotYet == \A n \in Socks : n > accepted => cpc[n] = "none"

Owned == Types /\ NobodyElse /\ Paired /\ Closings /\ NotYet /\ overlap = FALSE

IInv == asked = {} => Owned

-----------------------------------------------------------------------------
LEMMA Assumed == MAX_CLIENTS \in Nat \ {0} /\ MaxConns \in Nat /\ MaxCalls \in Nat
  BY ConnectionAssumption DEF ConnectionAssumption

(* The first free slot is a free slot.                                     *)
LEMMA FirstOf ==
  ASSUME NEW S \in SUBSET Nat, S # {}
  PROVE  (CHOOSE f \in S : \A j \in S : f <= j) \in S
<1>1. PICK x \in S : \A y \in S : ~(<<y, x>> \in OpToRel(<, Nat))
  BY NatLessThanWellFounded, WFMin
<1>2. OpToRel(<, Nat) = {ss \in Nat \X Nat : ss[1] < ss[2]}
  BY Zenon DEF OpToRel
<1>3. ASSUME NEW y \in S PROVE x <= y
  <2>1. <<y, x>> \notin {ss \in Nat \X Nat : ss[1] < ss[2]}
    BY <1>1, <1>2
  <2>2. y \in Nat /\ x \in Nat
    OBVIOUS
  <2>3. ~(y < x)
    BY <2>1, <2>2
  <2> QED BY <2>2, <2>3
<1> QED BY <1>3

LEMMA InitInv == Init => IInv
<1> SUFFICES ASSUME Init PROVE Owned
  BY DEF IInv
<1>1. NoSlot \in Connections
  BY DEF NoSlot, Connections, States
<1>2. 1 \in Slots /\ 0 \in 0 .. MaxConns
  BY Assumed DEF Slots
<1>3. Types
  <2>1. DOMAIN Idle = {"op", "cid", "at", "todo"}
    BY DEF Idle
  <2> QED BY <1>1, <1>2, <2>1 DEF Init, Types, Places
<1>4. NobodyElse
  BY DEF Init, NobodyElse, Idle, NoSlot
<1>5. Paired
  BY DEF Init, Paired, Alive, Valid, NoSlot, Holding
<1>6. Closings /\ NotYet
  BY DEF Init, Closings, NotYet, Holding, Socks
<1> QED BY <1>3, <1>4, <1>5, <1>6 DEF Init, Owned

-----------------------------------------------------------------------------
(* A step of a client thread that keeps its slot, or of the application:   *)
(* sockets stay in their slots, none is marked closed.                     *)
Keeps ==
  /\ slot' \in [Slots -> Connections]
  /\ \A i \in Slots : slot'[i].sock = slot[i].sock /\ slot'[i].close_thrd = slot[i].close_thrd
  /\ \A i \in Slots : slot'[i].state = "CLOSED" => slot[i].state = "CLOSED"

LEMMA KeepsAll ==
  ASSUME Types, UNCHANGED slot
  PROVE  Keeps
  BY DEF Types, Keeps

LEMMA KeepsState ==
  ASSUME Types, NEW i \in Slots, NEW s \in States \ {"CLOSED"}, SetState(i, s)
  PROVE  Keeps
<1>1. CASE Valid(i)
  <2>1. slot' = [slot EXCEPT ![i].state = s]
    BY <1>1 DEF SetState
  <2>2. \A j \in Slots : slot[j] \in Connections
    BY DEF Types
  <2>3. \A j \in Slots : j # i => slot'[j] = slot[j]
    BY <2>1 DEF Types
  <2>4. slot'[i] = [slot[i] EXCEPT !.state = s]
    BY <2>1 DEF Types
  <2>5. /\ slot'[i] \in Connections /\ slot'[i].sock = slot[i].sock
        /\ slot'[i].close_thrd = slot[i].close_thrd /\ slot'[i].state = s
    BY <2>2, <2>4 DEF Connections
  <2>6. slot' \in [Slots -> Connections]
    BY <2>1, <2>2, <2>3, <2>5 DEF Types
  <2> QED BY <2>3, <2>5, <2>6 DEF Keeps
<1>2. CASE ~Valid(i)
  BY <1>2, KeepsAll DEF SetState
<1> QED BY <1>1, <1>2

LEMMA KeepsPings ==
  ASSUME Types, NEW i, NEW k \in Int,
         slot' = [slot EXCEPT ![i].ping = k] \/ slot' = [slot EXCEPT ![i].pong = k]
  PROVE  Keeps
<1>1. CASE i \in Slots
  <2>1. \A j \in Slots : slot[j] \in Connections
    BY DEF Types
  <2>2. \A j \in Slots : j # i => slot'[j] = slot[j]
    BY DEF Types
  <2>3. slot'[i] = [slot[i] EXCEPT !.ping = k] \/ slot'[i] = [slot[i] EXCEPT !.pong = k]
    BY <1>1 DEF Types
  <2>4. /\ slot'[i] \in Connections /\ slot'[i].sock = slot[i].sock
        /\ slot'[i].close_thrd = slot[i].close_thrd /\ slot'[i].state = slot[i].state
    BY <1>1, <2>1, <2>3 DEF Connections
  <2>5. slot' \in [Slots -> Connections]
    BY <2>1, <2>2, <2>4 DEF Types
  <2> QED BY <2>2, <2>4, <2>5 DEF Keeps
<1>2. CASE i \notin Slots
  <2>1. slot' = slot
    BY <1>2 DEF Types
  <2> QED BY <2>1, KeepsAll
<1> QED BY <1>1, <1>2

LEMMA ThreadMoves ==
  ASSUME Owned, NEW n \in Socks, NEW from \in Holding, NEW to \in Holding \ {"join"},
         Step(n, from, to), Keeps, UNCHANGED <<closes, thrVars, appVars>>
  PROVE  Owned'
<1>1. /\ cpc[n] = from /\ cpc' = [cpc EXCEPT ![n] = to]
      /\ UNCHANGED <<accepted, next_cid, overlap, cat>>
  BY DEF Step
<1>2. /\ \A m \in Socks : m # n => cpc'[m] = cpc[m]
      /\ cpc'[n] = to /\ cpc' \in [Socks -> Places]
  BY <1>1 DEF Owned, Types, Holding
<1>3. \A m \in Socks : /\ cpc'[m] \in Holding <=> cpc[m] \in Holding
                       /\ Alive(m)' <=> Alive(m)
  BY <1>1, <1>2 DEF Alive, Holding
<1>4. Types'
  BY <1>1, <1>2 DEF Owned, Types, Keeps, appVars
<1>5. NobodyElse'
  BY <1>2 DEF Owned, NobodyElse, Keeps, appVars, thrVars
<1>6. Paired'
  <2>1. \A m \in Socks : Alive(m)' => slot'[cat'[m]].sock = m
    BY <1>1, <1>3 DEF Owned, Types, Paired, Keeps
  <2>2. \A m \in Socks : cpc'[m] \in Holding => slot'[cat'[m]].state # "CLOSED"
    BY <1>1, <1>3 DEF Owned, Types, Paired, Keeps
  <2>3. ASSUME NEW i \in Slots, slot'[i].sock # NoSock
        PROVE  Alive(slot[i].sock)' /\ cat'[slot'[i].sock] = i
    <3>1. slot[i].sock = slot'[i].sock /\ slot[i].sock \in Socks
      BY <2>3 DEF Keeps, Owned, Types, Connections
    <3>2. Alive(slot[i].sock) /\ cat[slot[i].sock] = i
      BY <2>3, <3>1 DEF Owned, Paired, Valid
    <3> QED BY <1>1, <1>3, <3>1, <3>2 DEF Alive
  <2> QED BY <2>1, <2>2, <2>3 DEF Paired, Valid, Alive, Keeps
<1>7. Closings' /\ NotYet'
  BY <1>1, <1>2, <1>3 DEF Owned, Closings, NotYet, Holding
<1> QED BY <1>1, <1>4, <1>5, <1>6, <1>7 DEF Owned

LEMMA AppMoves ==
  ASSUME Owned, Keeps, UNCHANGED <<accepted, next_cid, overlap, cpc, cat, closes, thrVars>>,
         DOMAIN app' = {"op", "cid", "at", "todo"},
         app'.op \notin {"mark", "ping_free", "bping_free"}
  PROVE  Owned'
<1>1. Types'
  BY DEF Owned, Types, Keeps
<1>2. NobodyElse'
  BY DEF Owned, NobodyElse, Keeps, thrVars
<1>3. Paired'
  <2>1. \A m \in Socks : Alive(m)' <=> Alive(m)
    BY DEF Alive
  <2>2. \A m \in Socks : cat[m] \in Slots
    BY DEF Owned, Types
  <2>3. \A i \in Slots : Valid(i)' <=> Valid(i)
    BY DEF Valid, Keeps
  <2> QED BY <2>1, <2>2, <2>3 DEF Owned, Paired, Keeps, Alive
<1>4. Closings' /\ NotYet'
  BY DEF Owned, Closings, NotYet
<1> QED BY <1>1, <1>2, <1>3, <1>4 DEF Owned

(* The thread of an open connection has its slot to itself.                *)
LEMMA OwnSlot ==
  ASSUME Owned, NEW n \in Socks, Alive(n)
  PROVE  cat[n] \in Slots /\ slot[cat[n]].sock = n /\ Valid(cat[n]) /\ n <= accepted
<1>1. cat[n] \in Slots /\ slot[cat[n]].sock = n /\ n # NoSock /\ n \in Nat
  BY DEF Owned, Types, Paired, Socks, NoSock
<1>2. n <= accepted
  BY <1>1 DEF Owned, NotYet, Alive, Types
<1> QED BY <1>1, <1>2 DEF Valid

LEMMA AcceptStep ==
  ASSUME Owned, Accept
  PROVE  Owned'
<1> DEFINE i == CHOOSE f \in Free : \A j \in Free : f <= j
           n == accepted + 1
<1>0. accepted < MaxConns /\ Free # {}
  BY Zenon DEF Accept
<1>1. i \in Slots /\ ~Valid(i)
  <2>1. Free \in SUBSET Nat /\ Free # {}
    BY <1>0, Assumed DEF Free, Slots
  <2>2. i \in Free
    BY <2>1, FirstOf
  <2> QED BY <2>2 DEF Free
<1>2. n \in Socks /\ accepted \in Nat
  BY <1>0, Assumed DEF Owned, Types, Socks
<1> HIDE DEF i
<1>3. /\ slot' = [slot EXCEPT ![i].sock = n, ![i].cid = next_cid,
                              ![i].state = "CONNECTING", ![i].close_thrd = FALSE,
                              ![i].ping = -1, ![i].pong = -1]
      /\ accepted' = n /\ overlap' = (overlap \/ InUse(i))
      /\ cpc' = [cpc EXCEPT ![n] = "handshake"] /\ cat' = [cat EXCEPT ![n] = i]
      /\ next_cid' = next_cid + 1
      /\ UNCHANGED <<closes, thrVars, appVars>>
  BY DEF Accept, i
<1>4. /\ \A j \in Slots : j # i => slot'[j] = slot[j]
      /\ slot'[i] = [slot[i] EXCEPT !.sock = n, !.cid = next_cid, !.state = "CONNECTING",
                                    !.close_thrd = FALSE, !.ping = -1, !.pong = -1]
  BY <1>1, <1>3 DEF Owned, Types
<1>5. /\ slot'[i] \in Connections /\ slot'[i].sock = n /\ slot'[i].state = "CONNECTING"
      /\ slot'[i].close_thrd = FALSE
  <2>1. slot[i] \in Connections /\ next_cid \in Nat
    BY <1>1 DEF Owned, Types
  <2>2. \E k \in Int : k = -1
    OBVIOUS
  <2>3. PICK k \in Int : k = -1
    BY <2>2
  <2>4. slot'[i] = [slot[i] EXCEPT !.sock = n, !.cid = next_cid, !.state = "CONNECTING",
                                   !.close_thrd = FALSE, !.ping = k, !.pong = k]
    BY <1>4, <2>3, Zenon
  <2> HIDE DEF n
  <2> QED BY <1>2, <2>1, <2>4 DEF Connections, States
<1>6. slot' \in [Slots -> Connections]
  <2>1. \A j \in Slots : slot'[j] \in Connections
    BY <1>4, <1>5 DEF Owned, Types
  <2> QED BY <1>3, <2>1 DEF Owned, Types
<1>7. /\ cpc[n] = "none" /\ cpc'[n] = "handshake" /\ cat'[n] = i
      /\ \A m \in Socks : m # n => cpc'[m] = cpc[m] /\ cat'[m] = cat[m]
  BY <1>2, <1>3 DEF Owned, Types, NotYet
<1>8. \A m \in Socks : Alive(m) => cat[m] # i /\ m # n
  BY <1>1, <1>7, OwnSlot DEF Alive
<1>9. Types'
  <2>1. accepted' \in 0 .. MaxConns /\ next_cid' \in Nat
    BY <1>2, <1>3 DEF Socks, Owned, Types
  <2> QED BY <1>1, <1>2, <1>3, <1>6, <2>1 DEF Owned, Types, Places, appVars
<1>10. NobodyElse'
  <2>1. app' = app /\ tpc' = tpc
    BY <1>3 DEF thrVars, appVars
  <2>2. \A j \in Slots : slot'[j].close_thrd = FALSE
    BY <1>4, <1>5 DEF Owned, NobodyElse
  <2>3. \A m \in Socks : cpc'[m] # "join"
    BY <1>7 DEF Owned, NobodyElse
  <2> QED BY <2>1, <2>2, <2>3 DEF Owned, NobodyElse
<1>11. Paired'
  <2>1. ASSUME NEW m \in Socks, cpc'[m] \notin {"none", "ended"}
        PROVE  /\ slot'[cat'[m]].sock = m
               /\ cpc'[m] \in Holding => slot'[cat'[m]].state # "CLOSED"
    <3>1. CASE m = n
      BY <1>5, <1>7, <3>1
    <3>2. CASE m # n
      <4>1. Alive(m) /\ cat[m] \in Slots
        BY <1>7, <2>1, <3>2, OwnSlot DEF Alive
      <4>2. slot'[cat'[m]] = slot[cat[m]]
        BY <1>4, <1>7, <1>8, <3>2, <4>1
      <4> QED BY <1>7, <3>2, <4>1, <4>2 DEF Owned, Paired
    <3> QED BY <3>1, <3>2
  <2>2. ASSUME NEW j \in Slots, slot'[j].sock # NoSock
        PROVE  cpc'[slot'[j].sock] \notin {"none", "ended"} /\ cat'[slot'[j].sock] = j
    <3>1. CASE j = i
      BY <1>5, <1>7, <3>1
    <3>2. CASE j # i
      <4>1. slot'[j] = slot[j] /\ Valid(j)
        BY <1>4, <2>2, <3>2 DEF Valid
      <4>2. slot[j].sock \in Socks /\ Alive(slot[j].sock) /\ cat[slot[j].sock] = j
        BY <4>1 DEF Owned, Types, Paired, Valid, Connections
      <4> QED BY <1>7, <1>8, <4>1, <4>2 DEF Alive
    <3> QED BY <3>1, <3>2
  <2>3. \A m \in Socks : cpc'[m] \in Holding => cpc'[m] \notin {"none", "ended"}
    BY DEF Holding
  <2> QED BY <2>1, <2>2, <2>3 DEF Paired, Alive, Valid
<1>12. Closings'
  <2>1. \A m \in Socks : m # n => (m > accepted' <=> m > accepted)
    BY <1>2, <1>3 DEF Socks
  <2>2. closes[n] = 0
    BY <1>2 DEF Owned, Closings
  <2> QED BY <1>3, <1>7, <2>1, <2>2 DEF Owned, Closings, Holding, Places
<1>13. NotYet'
  BY <1>2, <1>3, <1>7 DEF Owned, NotYet, Socks
<1>14. overlap' = FALSE
  <2>1. ~InUse(i)
    BY <1>8 DEF InUse, Owned, NobodyElse
  <2> QED BY <1>3, <2>1 DEF Owned
<1> QED BY <1>9, <1>10, <1>11, <1>12, <1>13, <1>14 DEF Owned

LEMMA RefuseStep ==
  ASSUME Owned, Refuse
  PROVE  Owned'
<1> DEFINE n == accepted + 1
<1>1. n \in Socks /\ accepted \in Nat
  BY Assumed DEF Refuse, Owned, Types, Socks
<1>2. /\ accepted' = n /\ closes' = [closes EXCEPT ![n] = 1]
      /\ UNCHANGED <<slot, next_cid, overlap, cpc, cat, thrVars, appVars>>
  BY DEF Refuse
<1>3. cpc[n] = "none"
  BY <1>1 DEF Owned, NotYet
<1>4. Types'
  <2>1. accepted' \in 0 .. MaxConns
    BY <1>1, <1>2 DEF Socks
  <2> QED BY <1>1, <1>2, <2>1 DEF Owned, Types, appVars
<1>5. NobodyElse' /\ Paired'
  BY <1>2 DEF Owned, NobodyElse, Paired, Alive, Valid, thrVars, appVars
<1>6. Closings'
  <2>1. \A m \in Socks : m # n => (m > accepted' <=> m > accepted) /\ closes'[m] = closes[m]
    BY <1>1, <1>2 DEF Socks, Owned, Types
  <2>2. closes'[n] = 1 /\ ~(n > accepted') /\ cpc'[n] \notin Holding
    BY <1>1, <1>2, <1>3 DEF Owned, Types, Holding
  <2> QED BY <1>2, <2>1, <2>2 DEF Owned, Closings
<1>7. NotYet'
  BY <1>1, <1>2 DEF Owned, NotYet, Socks
<1> QED BY <1>2, <1>4, <1>5, <1>6, <1>7 DEF Owned

(* The thread closes its own socket, which nobody else has closed ...      *)
LEMMA CloseStep ==
  ASSUME Owned, NEW n \in Socks, ClientCloses(n)
  PROVE  Owned'
<1> DEFINE i == cat[n]
<1>1. /\ cpc[n] = "close" /\ cpc' = [cpc EXCEPT ![n] = "free"]
      /\ UNCHANGED <<accepted, next_cid, overlap, cat, thrVars, appVars>>
      /\ slot' = [slot EXCEPT ![i].state = "CLOSED"]
      /\ closes' = [closes EXCEPT ![slot[i].sock] = @ + 1]
  BY DEF ClientCloses, Step, CloseSocket
<1>2. i \in Slots /\ slot[i].sock = n /\ n <= accepted
  BY <1>1, OwnSlot DEF Alive
<1> HIDE DEF i
<1>3. /\ cpc'[n] = "free" /\ \A m \in Socks : m # n => cpc'[m] = cpc[m]
  BY <1>1 DEF Owned, Types
<1>4. /\ \A j \in Slots : j # i => slot'[j] = slot[j]
      /\ slot'[i] = [slot[i] EXCEPT !.state = "CLOSED"]
  BY <1>1, <1>2 DEF Owned, Types
<1>5. /\ slot'[i] \in Connections /\ slot'[i].sock = n
      /\ slot'[i].close_thrd = slot[i].close_thrd
  <2>1. slot[i] \in Connections
    BY <1>2 DEF Owned, Types
  <2> QED BY <1>2, <1>4, <2>1 DEF Connections, States
<1>6. Types'
  <2>1. \A j \in Slots : slot'[j] \in Connections
    BY <1>4, <1>5 DEF Owned, Types
  <2> QED BY <1>1, <1>2, <2>1 DEF Owned, Types, Places, appVars
<1>7. NobodyElse'
  BY <1>1, <1>2, <1>3, <1>4, <1>5 DEF Owned, NobodyElse, thrVars, appVars
<1>8. Paired'
  <2>1. \A m \in Socks : m # n /\ Alive(m) => cat[m] \in Slots /\ cat[m] # i
    BY <1>2, OwnSlot
  <2>2. \A m \in Socks : Alive(m)' => slot'[cat'[m]].sock = m
    <3>1. ASSUME NEW m \in Socks, Alive(m)' PROVE slot'[cat'[m]].sock = m
      <4>1. CASE m = n
        BY <1>1, <1>5, <4>1 DEF i
      <4>2. CASE m # n
        BY <1>1, <1>3, <1>4, <2>1, <3>1, <4>2 DEF Alive, Owned, Paired
      <4> QED BY <4>1, <4>2
    <3> QED BY <3>1
  <2>3. ASSUME NEW m \in Socks, cpc'[m] \in Holding PROVE slot'[cat'[m]].state # "CLOSED"
    <3>1. m # n /\ cpc[m] \in Holding /\ Alive(m)
      BY <1>3, <2>3 DEF Holding, Alive
    <3> QED BY <1>1, <1>4, <2>1, <3>1 DEF Owned, Paired
  <2>4. \A j \in Slots : slot'[j].sock = slot[j].sock
    BY <1>2, <1>4, <1>5
  <2>5. ASSUME NEW j \in Slots, slot'[j].sock # NoSock
        PROVE  cpc'[slot'[j].sock] \notin {"none", "ended"} /\ cat'[slot'[j].sock] = j
    <3>1. slot[j].sock \in Socks /\ Alive(slot[j].sock) /\ cat[slot[j].sock] = j
      BY <2>4, <2>5 DEF Owned, Types, Paired, Valid, Connections
    <3> QED BY <1>1, <1>3, <2>4, <3>1 DEF Alive
  <2> QED BY <2>2, <2>3, <2>5 DEF Paired, Alive, Valid
<1>9. Closings'
  <2>1. closes[n] = 0
    BY <1>1, <1>2 DEF Owned, Closings, Holding, Places
  <2>2. closes'[n] = 1 /\ \A m \in Socks : m # n => closes'[m] = closes[m]
    BY <1>1, <1>2, <2>1 DEF Owned, Types
  <2>3. ~(n > accepted)
    BY <1>2 DEF Owned, Types, Socks
  <2> QED BY <1>1, <1>3, <2>2, <2>3 DEF Owned, Closings, Holding
<1>10. NotYet'
  <2>1. ~(n > accepted)
    BY <1>2 DEF Owned, Types, Socks
  <2> QED BY <1>1, <1>3, <2>1 DEF Owned, NotYet
<1> QED BY <1>1, <1>6, <1>7, <1>8, <1>9, <1>10 DEF Owned

(* ... and then gives its slot back.                                       *)
LEMMA FreeStep ==
  ASSUME Owned, NEW n \in Socks, ClientFrees(n)
  PROVE  Owned'
<1> DEFINE i == cat[n]
<1>1. /\ cpc[n] = "free" /\ cpc' = [cpc EXCEPT ![n] = "ended"]
      /\ UNCHANGED <<accepted, next_cid, overlap, cat, closes, thrVars, appVars>>
      /\ slot' = [slot EXCEPT ![i].sock = NoSock]
  BY DEF ClientFrees, Step, FreeSlot
<1>2. i \in Slots /\ slot[i].sock = n /\ n <= accepted
  BY <1>1, OwnSlot DEF Alive
<1> HIDE DEF i
<1>3. /\ cpc'[n] = "ended" /\ \A m \in Socks : m # n => cpc'[m] = cpc[m]
  BY <1>1 DEF Owned, Types
<1>4. /\ \A j \in Slots : j # i => slot'[j] = slot[j]
      /\ slot'[i] = [slot[i] EXCEPT !.sock = NoSock]
  BY <1>1, <1>2 DEF Owned, Types
<1>5. /\ slot'[i] \in Connections /\ slot'[i].sock = NoSock
      /\ slot'[i].close_thrd = slot[i].close_thrd
  <2>1. slot[i] \in Connections
    BY <1>2 DEF Owned, Types
  <2> QED BY <1>4, <2>1 DEF Connections
<1>6. Types'
  <2>1. \A j \in Slots : slot'[j] \in Connections
    BY <1>4, <1>5 DEF Owned, Types
  <2> QED BY <1>1, <1>2, <2>1 DEF Owned, Types, Places, appVars
<1>7. NobodyElse'
  BY <1>1, <1>2, <1>3, <1>4, <1>5 DEF Owned, NobodyElse, thrVars, appVars
<1>8. Paired'
  <2>1. ASSUME NEW m \in Socks, cpc'[m] \notin {"none", "ended"}
        PROVE  /\ slot'[cat'[m]].sock = m
               /\ cpc'[m] \in Holding => slot'[cat'[m]].state # "CLOSED"
    <3>1. m # n /\ cpc'[m] = cpc[m] /\ Alive(m)
      BY <1>3, <2>1 DEF Alive
    <3>2. cat[m] \in Slots /\ cat[m] # i
      BY <1>2, <3>1, OwnSlot
    <3>3. slot'[cat'[m]] = slot[cat[m]]
      BY <1>1, <1>4, <3>2
    <3> QED BY <3>1, <3>3 DEF Owned, Paired
  <2>2. ASSUME NEW j \in Slots, slot'[j].sock # NoSock
        PROVE  cpc'[slot'[j].sock] \notin {"none", "ended"} /\ cat'[slot'[j].sock] = j
    <3>1. j # i /\ slot'[j] = slot[j]
      BY <1>4, <1>5, <2>2
    <3>2. slot[j].sock \in Socks /\ Alive(slot[j].sock) /\ cat[slot[j].sock] = j
      BY <2>2, <3>1 DEF Owned, Types, Paired, Valid, Connections
    <3>3. slot[j].sock # n
      BY <3>1, <3>2 DEF i
    <3> QED BY <1>1, <1>3, <3>1, <3>2, <3>3 DEF Alive
  <2>3. \A m \in Socks : cpc'[m] \in Holding => cpc'[m] \notin {"none", "ended"}
    BY DEF Holding
  <2> QED BY <2>1, <2>2, <2>3 DEF Paired, Alive, Valid
<1>9. Closings'
  BY <1>1, <1>3 DEF Owned, Closings, Holding
<1>10. NotYet'
  <2>1. ~(n > accepted)
    BY <1>2 DEF Owned, Types, Socks
  <2> QED BY <1>1, <1>3, <2>1 DEF Owned, NotYet
<1> QED BY <1>1, <1>6, <1>7, <1>8, <1>9, <1>10 DEF Owned

-----------------------------------------------------------------------------
(* What a client thread does.                                              *)
LEMMA ThreadStep ==
  ASSUME Owned, NEW n \in Socks, Peer(n) \/ ClientThread(n)
  PROVE  Owned'
<1>1. Types
  BY DEF Owned
<1>2. cpc[n] \in Holding => cat[n] \in Slots /\ Valid(cat[n])
  BY OwnSlot DEF Holding, Alive
<1>3. \A p \in {"handshake", "read", "got_close", "set_closing", "send_close", "onclose",
                "closed", "check", "close"} : p \in Holding \ {"join"}
  BY DEF Holding, Places
<1>4. CASE PeerLeaves(n)
  BY <1>4 DEF PeerLeaves, Owned, Types, NobodyElse, Paired, Closings, NotYet, Alive, Valid,
     thrVars, appVars
<1>5. CASE Handshake(n)
  <2>1. Step(n, "handshake", "read") /\ SetState(cat[n], "OPEN") /\ cpc[n] = "handshake"
    BY <1>5 DEF Handshake, Step
  <2>2. Keeps
    BY <1>1, <1>2, <1>3, <2>1, KeepsState DEF States
  <2>3. UNCHANGED <<closes, thrVars, appVars>>
    BY <1>5 DEF Handshake
  <2> QED BY <1>3, <2>1, <2>2, <2>3, ThreadMoves
<1>6. CASE HandshakeFails(n) \/ HandshakeEnds(n)
  <2>1. Step(n, "handshake", "closed") /\ threadOnly
    BY <1>6 DEF HandshakeFails, HandshakeEnds
  <2> QED BY <1>1, <1>3, <2>1, KeepsAll, ThreadMoves DEF threadOnly
<1>7. CASE ReadMessage(n)
  <2>1. Step(n, "read", "read") /\ UNCHANGED <<slot, closes, thrVars, appVars>>
    BY <1>7 DEF ReadMessage
  <2> QED BY <1>1, <1>3, <2>1, KeepsAll, ThreadMoves
<1>8. CASE ReadPong(n)
  <2>1. Step(n, "read", "read") /\ UNCHANGED <<closes, thrVars, appVars>> /\ cpc[n] = "read"
    BY <1>8 DEF ReadPong, Step
  <2>2. PICK id \in 0 .. slot[cat[n]].ping : slot' = [slot EXCEPT ![cat[n]].pong = id]
    BY <1>8 DEF ReadPong
  <2>3. id \in Int
    BY <2>2
  <2>4. Keeps
    BY <1>1, <2>2, <2>3, KeepsPings
  <2> QED BY <1>3, <2>1, <2>4, ThreadMoves
<1>9. CASE ReadClose(n)
  <2>1. Step(n, "read", "got_close") /\ threadOnly
    BY <1>9 DEF ReadClose
  <2> QED BY <1>1, <1>3, <2>1, KeepsAll, ThreadMoves DEF threadOnly
<1>10. CASE ReadInvalid(n) \/ ReadEnds(n)
  <2>1. Step(n, "read", "onclose") /\ threadOnly
    BY <1>10 DEF ReadInvalid, ReadEnds
  <2> QED BY <1>1, <1>3, <2>1, KeepsAll, ThreadMoves DEF threadOnly
<1>11. CASE CloseAnswered(n)
  <2>1. PICK to \in {"onclose", "set_closing"} : Step(n, "got_close", to) /\ threadOnly
    BY <1>11 DEF CloseAnswered
  <2> QED BY <1>1, <1>3, <2>1, KeepsAll, ThreadMoves DEF threadOnly
<1>12. CASE SetClosing(n)
  <2>1. Step(n, "set_closing", "send_close") /\ SetState(cat[n], "CLOSING")
        /\ cpc[n] = "set_closing" /\ UNCHANGED <<closes, thrVars, appVars>>
    BY <1>12 DEF SetClosing, Step
  <2>2. Keeps
    BY <1>1, <1>2, <1>3, <2>1, KeepsState DEF States
  <2> QED BY <1>3, <2>1, <2>2, ThreadMoves
<1>13. CASE SendClose(n)
  <2>1. Step(n, "send_close", "onclose") /\ UNCHANGED <<slot, closes, thrVars, appVars>>
    BY <1>13 DEF SendClose
  <2> QED BY <1>1, <1>3, <2>1, KeepsAll, ThreadMoves
<1>14. CASE OnClose(n)
  <2>1. Step(n, "onclose", "closed") /\ UNCHANGED <<slot, closes, thrVars, appVars>>
    BY <1>14 DEF OnClose
  <2> QED BY <1>1, <1>3, <2>1, KeepsAll, ThreadMoves
<1>15. CASE ReadCloseThrd(n)
  <2>1. cpc[n] = "closed" /\ threadOnly
    BY <1>15 DEF ReadCloseThrd, Step
  <2>2. slot[cat[n]].close_thrd = FALSE
    BY <1>2, <1>3, <2>1 DEF Owned, NobodyElse
  <2>3. Step(n, "closed", "check")
    BY <1>15, <2>2 DEF ReadCloseThrd
  <2> QED BY <1>1, <1>3, <2>1, <2>3, KeepsAll, ThreadMoves DEF threadOnly
<1>16. CASE Join(n)
  BY <1>16 DEF Join, Step, Owned, NobodyElse
<1>17. CASE CheckState(n)
  <2>1. cpc[n] = "check" /\ threadOnly
    BY <1>17 DEF CheckState, Step
  <2>2. ~StateIs(cat[n], "CLOSED")
    BY <1>3, <2>1 DEF StateIs, Owned, Paired
  <2>3. Step(n, "check", "close")
    BY <1>17, <2>2 DEF CheckState
  <2> QED BY <1>1, <1>3, <2>1, <2>3, KeepsAll, ThreadMoves DEF threadOnly
<1>18. CASE ClientCloses(n)
  BY <1>18, CloseStep
<1>19. CASE ClientFindsClosed(n)
  BY <1>2, <1>3, <1>19 DEF ClientFindsClosed, Step
<1>20. CASE ClientFrees(n)
  BY <1>20, FreeStep
<1> QED
  BY <1>4, <1>5, <1>6, <1>7, <1>8, <1>9, <1>10, <1>11, <1>12, <1>13, <1>14, <1>15, <1>16,
     <1>17, <1>18, <1>19, <1>20
  DEF Peer, ClientThread

(* No timeout thread runs.                                                 *)
LEMMA TimeoutStep ==
  ASSUME Owned, NEW n \in Socks, TimeoutThread(n)
  PROVE  FALSE
<1>1. tpc[n] \in {"wait", "close", "free"}
  BY DEF TimeoutThread, TimeoutPasses, TimeoutCloses, TimeoutFindsClosed, TimeoutFrees, TimerStep
<1> QED BY <1>1 DEF Owned, NobodyElse

(* What the application does, short of closing a connection.               *)
LEMMA CallsStep ==
  ASSUME Owned, Calls
  PROVE  Owned'
<1>1. UNCHANGED <<accepted, next_cid, overlap, cpc, cat, closes, thrVars, slot>>
  BY DEF Calls, Broadcast, SendCall, CloseCall, PingCall, Call, CallStep
<1>2. Keeps
  BY <1>1, KeepsAll DEF Owned
<1>3. /\ DOMAIN app' = {"op", "cid", "at", "todo"}
      /\ app'.op \notin {"mark", "ping_free", "bping_free"}
  <2>1. CASE Broadcast
    BY <2>1 DEF Broadcast, CallStep, Idle
  <2>2. ASSUME NEW c, NEW op \in {"send", "clse", "bping", "ping"}, NEW todo, Call(op, c, todo)
        PROVE  /\ DOMAIN app' = {"op", "cid", "at", "todo"}
               /\ app'.op \notin {"mark", "ping_free", "bping_free"}
    BY <2>2 DEF Call, CallStep
  <2> QED BY <2>1, <2>2 DEF Calls, SendCall, CloseCall, PingCall
<1> QED BY <1>1, <1>2, <1>3, AppMoves

LEMMA ApplicationStep ==
  ASSUME Owned, asked' = {}, Application
  PROVE  Owned'
<1>1. DOMAIN app = {"op", "cid", "at", "todo"} /\ app.op \notin {"mark", "ping_free", "bping_free"}
  BY DEF Owned, Types, NobodyElse
<1>2. DOMAIN Idle = {"op", "cid", "at", "todo"} /\ Idle.op = "idle"
  BY DEF Idle
<1>3. CASE SendFrame \/ CloseFrameFails \/ NoTimeout
  <2>1. UNCHANGED <<accepted, next_cid, overlap, cpc, cat, closes, thrVars, slot>> /\ app' = Idle
    BY <1>3 DEF SendFrame, CloseFrameFails, NoTimeout, CallStep
  <2>2. Keeps
    BY <2>1, KeepsAll DEF Owned
  <2> QED BY <1>2, <2>1, <2>2, AppMoves
<1>4. CASE CloseFrame
  <2>1. /\ UNCHANGED <<accepted, next_cid, overlap, cpc, cat, closes, thrVars, slot>>
        /\ app' = [app EXCEPT !.op = "start"]
    BY <1>4 DEF CloseFrame, CallStep
  <2>2. Keeps
    BY <2>1, KeepsAll DEF Owned
  <2>3. DOMAIN app' = {"op", "cid", "at", "todo"} /\ app'.op = "start"
    BY <1>1, <2>1
  <2> QED BY <2>1, <2>2, <2>3, AppMoves
<1>5. CASE StartTimeout
  <2>1. slot[app.at].sock \in asked'
    BY <1>5 DEF StartTimeout
  <2> QED BY <2>1
<1>6. CASE MarkTimeout \/ PingFrees
  BY <1>1, <1>6 DEF MarkTimeout, PingFrees
<1>7. ASSUME app' = Pinged(app.op)
      PROVE  DOMAIN app' = {"op", "cid", "at", "todo"} /\ app'.op \notin {"mark", "ping_free", "bping_free"}
  <2>1. CASE app' = Idle
    BY <1>2, <2>1
  <2>2. CASE app' = [app EXCEPT !.op = app.op, !.todo = @ \ {PingNext}]
    BY <1>1, <2>2
  <2> QED BY <1>7, <2>1, <2>2 DEF Pinged
<1>8. CASE PingSkips
  <2>1. /\ UNCHANGED <<accepted, next_cid, overlap, cpc, cat, closes, thrVars, slot>>
        /\ app' = Pinged(app.op)
    BY <1>8 DEF PingSkips, CallStep
  <2>2. Keeps
    BY <2>1, KeepsAll DEF Owned
  <2> QED BY <1>7, <2>1, <2>2, AppMoves
<1>9. CASE PingSends
  <2> DEFINE i == PingNext
  <2> HIDE DEF i
  <2>1. /\ UNCHANGED <<accepted, next_cid, overlap, cpc, cat, closes, thrVars>>
        /\ app' = Pinged(app.op) /\ slot' = [slot EXCEPT ![i].ping = @ + 1]
    BY <1>9 DEF PingSends, CallStep, i
  <2>2. Keeps
    <3>1. CASE i \in Slots
      <4>1. slot[i].ping + 1 \in Int
        BY <3>1 DEF Owned, Types, Connections
      <4>2. slot' = [slot EXCEPT ![i].ping = slot[i].ping + 1]
        BY <2>1
      <4> QED BY <4>1, <4>2, KeepsPings DEF Owned
    <3>2. CASE i \notin Slots
      <4>1. slot' = slot
        BY <2>1, <3>2 DEF Owned, Types
      <4> QED BY <4>1, KeepsAll DEF Owned
    <3> QED BY <3>1, <3>2
  <2> QED BY <1>7, <2>1, <2>2, AppMoves
<1>10. CASE PingCloses
  <2>1. slot[PingNext].sock \in asked'
    BY <1>10 DEF PingCloses
  <2> QED BY <2>1
<1> QED
  BY <1>3, <1>4, <1>5, <1>6, <1>8, <1>9, <1>10 DEF Application

LEMMA NextInv == IInv /\ [Next]_vars => IInv'
<1> SUFFICES ASSUME IInv, [Next]_vars, asked' = {} PROVE Owned'
  BY DEF IInv
<1>1. asked \subseteq asked'
  BY DEF Next, vars, Accept, Refuse, Peer, PeerLeaves, Handshake, HandshakeFails, ReadMessage,
     ReadPong, ReadClose, ReadInvalid, ClientThread, HandshakeEnds, ReadEnds, CloseAnswered,
     SetClosing, SendClose, OnClose, ReadCloseThrd, Join, CheckState, ClientCloses,
     ClientFindsClosed, ClientFrees, threadOnly, appVars, TimeoutThread, TimeoutPasses,
     TimeoutCloses, TimeoutFindsClosed, TimeoutFrees, TimerStep, Calls, Broadcast, SendCall,
     CloseCall, PingCall, Call, Application, SendFrame, CloseFrame, CloseFrameFails,
     StartTimeout, NoTimeout, MarkTimeout, PingSkips, PingSends, PingCloses, PingFrees
<1>2. Owned
  BY <1>1 DEF IInv
<1>3. CASE Accept
  BY <1>2, <1>3, AcceptStep
<1>4. CASE Refuse
  BY <1>2, <1>4, RefuseStep
<1>5. ASSUME NEW n \in Socks, Peer(n) \/ ClientThread(n) PROVE Owned'
  BY <1>2, <1>5, ThreadStep
<1>6. ASSUME NEW n \in Socks, TimeoutThread(n) PROVE Owned'
  BY <1>2, <1>6, TimeoutStep
<1>7. CASE Calls
  BY <1>2, <1>7, CallsStep
<1>8. CASE Application
  BY <1>2, <1>8, ApplicationStep
<1>9. CASE UNCHANGED vars
  BY <1>2, <1>9 DEF vars, netVars, thrVars, appVars, Owned, Types, NobodyElse, Paired, Closings,
     NotYet, Alive, Valid
<1> QED BY <1>3, <1>4, <1>5, <1>6, <1>7, <1>8, <1>9 DEF Next

(* The invariant holds throughout.                                         *)
THEOREM Invariance == Spec => []IInv
<1>1. Init => IInv
  BY InitInv
<1>2. IInv /\ [Next]_vars => IInv'
  BY NextInv
<1> QED BY <1>1, <1>2, PTL DEF Spec

(* With any number of slots and connections: as long as the server closes  *)
(* none by itself, every socket that was accepted is closed exactly once,  *)
(* when its thread is done or when there was no slot for it, and no slot   *)
(* is given on while a thread is at work on it.                            *)
THEOREM ClosedOnce == Spec => []OneClose
<1>1. IInv => OneClose
  <2> SUFFICES ASSUME Owned PROVE OneClose
    BY DEF IInv, OneClose
  <2>1. \A n \in Socks : cpc[n] \in Holding <=> (Alive(n) /\ cpc[n] # "free")
    BY DEF Owned, Types, Alive, Holding
  <2> QED BY <2>1 DEF Owned, Closings, OneClose
<1> QED BY <1>1, Invariance, PTL

-----------------------------------------------------------------------------
(* Types, whoever closes.  A ping id stays below the number of calls, as   *)
(* each call numbers one more for a slot; a slot that is taken has a cid.  *)

Apps ==
  [op : {"idle", "send", "clse", "start", "mark", "ping", "bping", "ping_free", "bping_free"},
   cid : Cids \union {0}, at : Slots, todo : SUBSET Slots]

Pinging == {"ping", "bping"}
PingFreeing == {"ping_free", "bping_free"}

CidInv ==
  /\ \A i \in Slots : Valid(i) => slot[i].cid \in Cids
  /\ app.op # "idle" => app.cid \in Cids

PingInv ==
  /\ app.op # "idle" => calls >= 1
  /\ \A i \in Slots : slot[i].ping <= calls - 1
  /\ app.op \in Pinging =>
       app.todo # {} /\ \A i \in app.todo : slot[i].ping <= calls - 2
  /\ app.op \in PingFreeing =>
       app.todo # {} /\ \A i \in app.todo \ {PingNext} : slot[i].ping <= calls - 2

CbOK ==
  /\ opened \in [Cids -> SUBSET Socks] /\ ended \in [Cids -> SUBSET Socks]
  /\ heard \in [cid : Cids, sock : Socks] \union {NoMessage}
  /\ sent \in [cid : Cids, sock : Socks, kind : {"DATA", "CLSE", "PING"}] \union {NoFrame}

TypeInv == TypeOK /\ app \in Apps /\ CidInv /\ PingInv

(* The slots keep their cids and ping ids, and take no new socket.         *)
Same ==
  \A i \in Slots : /\ slot'[i].cid = slot[i].cid /\ slot'[i].ping = slot[i].ping
                   /\ slot'[i].sock \in {slot[i].sock, NoSock}

LEMMA TypeParts ==
  TypeOK <=> /\ SlotOK /\ ThreadsOK /\ AppOK /\ CbOK /\ overlap \in BOOLEAN
             /\ accepted \in 0 .. MaxConns /\ next_cid \in 1 .. accepted + 1
             /\ peer \in [Socks -> {"none", "up", "gone"}] /\ closes \in [Socks -> Nat]
  BY DEF TypeOK, CbOK

LEMMA SlotFields ==
  ASSUME SlotOK, NEW i \in Slots
  PROVE  /\ slot[i].sock \in Socks \union {NoSock} /\ slot[i].cid \in Cids \union {0}
         /\ slot[i].state \in States /\ slot[i].close_thrd \in BOOLEAN
         /\ slot[i].thrd_tout \in Socks \union {NoSock}
         /\ slot[i].ping \in -1 .. MaxCalls - 1 /\ slot[i].pong \in -1 .. MaxCalls - 1
  BY DEF SlotOK

LEMMA SameSlots ==
  ASSUME SlotOK, UNCHANGED slot
  PROVE  SlotOK' /\ Same
  BY DEF SlotOK, Same

LEMMA StateSlots ==
  ASSUME SlotOK, NEW i \in Slots, NEW s \in States, slot' = [slot EXCEPT ![i].state = s]
  PROVE  SlotOK' /\ Same
  BY DEF SlotOK, Same

LEMMA SockSlots ==
  ASSUME SlotOK, NEW i \in Slots, slot' = [slot EXCEPT ![i].sock = NoSock]
  PROVE  SlotOK' /\ Same
  BY DEF SlotOK, Same

LEMMA PongSlots ==
  ASSUME SlotOK, NEW i \in Slots, NEW id \in 0 .. MaxCalls - 1, slot' = [slot EXCEPT ![i].pong = id]
  PROVE  SlotOK' /\ Same
<1>1. id \in -1 .. MaxCalls - 1
  BY Assumed
<1> QED BY <1>1 DEF SlotOK, Same

LEMMA MarkSlots ==
  ASSUME SlotOK, NEW i \in Slots, slot' = [slot EXCEPT ![i].close_thrd = TRUE]
  PROVE  SlotOK' /\ Same
  BY ZenonT(60) DEF SlotOK, Same

LEMMA TimeoutSlots ==
  ASSUME SlotOK, NEW i \in Slots, NEW n \in Socks,
         slot' = [slot EXCEPT ![i].state = "CLOSING", ![i].thrd_tout = n]
  PROVE  SlotOK' /\ Same
  BY ZenonT(60) DEF SlotOK, Same, States

LEMMA CloseTypes ==
  ASSUME SlotOK, closes \in [Socks -> Nat], NEW i \in Slots, Valid(i), CloseSocket(i)
  PROVE  SlotOK' /\ Same /\ closes' \in [Socks -> Nat]
<1>1. "CLOSED" \in States
  BY DEF States
<1>2. SlotOK' /\ Same
  BY <1>1, StateSlots DEF CloseSocket
<1>3. slot[i].sock \in Socks
  BY SlotFields DEF Valid
<1>4. closes' = [closes EXCEPT ![slot[i].sock] = closes[slot[i].sock] + 1]
  BY DEF CloseSocket
<1> QED BY <1>2, <1>3, <1>4

(* A step that leaves the application's call alone.                        *)
LEMMA QuietTypes ==
  ASSUME TypeInv, UNCHANGED <<appVars, accepted, next_cid, overlap>>, SlotOK', Same, ThreadsOK',
         CbOK', peer' \in [Socks -> {"none", "up", "gone"}], closes' \in [Socks -> Nat]
  PROVE  TypeInv'
<1>1. AppOK' /\ app' \in Apps
  BY DEF TypeInv, TypeOK, AppOK, appVars
<1>2. TypeOK'
  BY <1>1 DEF TypeInv, TypeOK, CbOK
<1>3. CidInv'
  BY DEF TypeInv, CidInv, Same, Valid, appVars
<1>4. PingInv'
  BY DEF TypeInv, PingInv, PingNext, Same, appVars, Apps
<1> QED BY <1>1, <1>2, <1>3, <1>4 DEF TypeInv

(* A step of a client thread.                                              *)
LEMMA ClientTypes ==
  ASSUME TypeInv, NEW n \in Socks, NEW from, NEW to \in Places, Step(n, from, to),
         UNCHANGED <<appVars, thrVars>>, SlotOK', Same, CbOK', closes' \in [Socks -> Nat]
  PROVE  TypeInv'
<1>1. ThreadsOK'
  BY DEF TypeInv, TypeOK, ThreadsOK, Step, thrVars, Places
<1>2. peer' \in [Socks -> {"none", "up", "gone"}] /\ UNCHANGED <<accepted, next_cid, overlap>>
  BY DEF TypeInv, TypeOK, Step
<1> QED BY <1>1, <1>2, QuietTypes

LEMMA PeerTypes ==
  ASSUME TypeInv, NEW n \in Socks, Peer(n)
  PROVE  TypeInv'
<1> USE DEF thrVars, cbVars, appVars
<1>0. /\ SlotOK /\ CbOK /\ closes \in [Socks -> Nat] /\ cat[n] \in Slots
      /\ \A i \in Slots : Valid(i) => slot[i].cid \in Cids /\ slot[i].sock \in Socks
  BY TypeParts, SlotFields DEF TypeInv, CidInv, ThreadsOK, Valid
<1>1. CASE PeerLeaves(n)
  <2>1. /\ SlotOK' /\ Same /\ ThreadsOK' /\ CbOK' /\ closes' \in [Socks -> Nat]
        /\ peer' \in [Socks -> {"none", "up", "gone"}]
    BY <1>0, <1>1, SameSlots DEF PeerLeaves, TypeInv, TypeOK, ThreadsOK, CbOK
  <2> QED BY <1>1, <2>1, QuietTypes DEF PeerLeaves
<1>2. CASE Handshake(n)
  <2>1. Valid(cat[n]) /\ "OPEN" \in States /\ "read" \in Places
    BY <1>2 DEF Handshake, Sends, States, Places
  <2>2. SlotOK' /\ Same
    BY <1>0, <1>2, <2>1, StateSlots DEF Handshake, SetState
  <2>3. opened' \in [Cids -> SUBSET Socks]
    BY <1>0, <1>2 DEF Handshake, CbOK
  <2>4. CbOK' /\ closes' \in [Socks -> Nat]
    BY <1>0, <1>2, <2>3 DEF Handshake, CbOK
  <2> QED BY <1>2, <2>1, <2>2, <2>4, ClientTypes DEF Handshake
<1>3. CASE HandshakeFails(n) \/ ReadClose(n) \/ ReadInvalid(n)
  <2>1. /\ threadOnly /\ \E from : \E to \in Places : Step(n, from, to)
    BY <1>3 DEF HandshakeFails, ReadClose, ReadInvalid, Places
  <2>2. SlotOK' /\ Same /\ CbOK' /\ closes' \in [Socks -> Nat]
    BY <1>0, <2>1, SameSlots DEF threadOnly, CbOK
  <2> QED BY <2>1, <2>2, ClientTypes DEF threadOnly
<1>4. CASE ReadMessage(n)
  <2>1. Valid(cat[n]) /\ "read" \in Places
    BY <1>4 DEF ReadMessage, Sends, Places
  <2>2. heard' \in [cid : Cids, sock : Socks]
    BY <1>0, <1>4, <2>1 DEF ReadMessage
  <2>3. SlotOK' /\ Same /\ CbOK' /\ closes' \in [Socks -> Nat]
    BY <1>0, <1>4, <2>2, SameSlots DEF ReadMessage, CbOK
  <2> QED BY <1>4, <2>1, <2>3, ClientTypes DEF ReadMessage
<1>5. CASE ReadPong(n)
  <2>1. "read" \in Places
    BY DEF Places
  <2>2. PICK id \in 0 .. slot[cat[n]].ping : slot' = [slot EXCEPT ![cat[n]].pong = id]
    BY <1>5 DEF ReadPong
  <2>3. id \in 0 .. MaxCalls - 1
    BY <1>0, <2>2, SlotFields, Assumed
  <2>4. SlotOK' /\ Same
    BY <1>0, <2>2, <2>3, PongSlots
  <2>5. CbOK' /\ closes' \in [Socks -> Nat]
    BY <1>0, <1>5 DEF ReadPong, CbOK
  <2> QED BY <1>5, <2>1, <2>4, <2>5, ClientTypes DEF ReadPong
<1> QED BY <1>1, <1>2, <1>3, <1>4, <1>5 DEF Peer

LEMMA ClientThreadTypes ==
  ASSUME TypeInv, NEW n \in Socks, ClientThread(n)
  PROVE  TypeInv'
<1> USE DEF thrVars, cbVars, appVars
<1>0. /\ SlotOK /\ CbOK /\ closes \in [Socks -> Nat] /\ cat[n] \in Slots
      /\ \A i \in Slots : Valid(i) => slot[i].cid \in Cids /\ slot[i].sock \in Socks
  BY TypeParts, SlotFields DEF TypeInv, CidInv, ThreadsOK, Valid
<1>1. CASE \/ HandshakeEnds(n) \/ ReadEnds(n) \/ CloseAnswered(n) \/ ReadCloseThrd(n) \/ Join(n)
           \/ CheckState(n) \/ ClientFindsClosed(n)
  <2>1. threadOnly /\ \E from : \E to \in Places : Step(n, from, to)
    BY <1>1
    DEF HandshakeEnds, ReadEnds, CloseAnswered, ReadCloseThrd, Join, CheckState, ClientFindsClosed,
        Places
  <2>2. SlotOK' /\ Same /\ CbOK' /\ closes' \in [Socks -> Nat]
    BY <1>0, <2>1, SameSlots DEF threadOnly, CbOK
  <2> QED BY <2>1, <2>2, ClientTypes DEF threadOnly
<1>2. CASE SetClosing(n)
  <2>1. "CLOSING" \in States /\ "send_close" \in Places
    BY DEF States, Places
  <2>2. SlotOK' /\ Same
    BY <1>0, <1>2, <2>1, StateSlots, SameSlots DEF SetClosing, SetState
  <2>3. CbOK' /\ closes' \in [Socks -> Nat]
    BY <1>0, <1>2 DEF SetClosing, CbOK
  <2> QED BY <1>2, <2>1, <2>2, <2>3, ClientTypes DEF SetClosing
<1>3. CASE SendClose(n)
  <2>1. "onclose" \in Places
    BY DEF Places
  <2>2. sent' \in [cid : Cids, sock : Socks, kind : {"DATA", "CLSE", "PING"}] \union {NoFrame}
    BY <1>0, <1>3 DEF SendClose, SendTo, CbOK
  <2>3. SlotOK' /\ Same /\ CbOK' /\ closes' \in [Socks -> Nat]
    BY <1>0, <1>3, <2>2, SameSlots DEF SendClose, CbOK
  <2> QED BY <1>3, <2>1, <2>3, ClientTypes DEF SendClose
<1>4. CASE OnClose(n)
  <2>1. "closed" \in Places
    BY DEF Places
  <2>2. ended' \in [Cids -> SUBSET Socks]
    BY <1>0, <1>4 DEF OnClose, CbOK
  <2>3. SlotOK' /\ Same /\ CbOK' /\ closes' \in [Socks -> Nat]
    BY <1>0, <1>4, <2>2, SameSlots DEF OnClose, CbOK
  <2> QED BY <1>4, <2>1, <2>3, ClientTypes DEF OnClose
<1>5. CASE ClientCloses(n)
  <2>1. "free" \in Places
    BY DEF Places
  <2>2. SlotOK' /\ Same /\ closes' \in [Socks -> Nat]
    BY <1>0, <1>5, CloseTypes DEF ClientCloses
  <2>3. CbOK'
    BY <1>0, <1>5 DEF ClientCloses, CbOK
  <2> QED BY <1>5, <2>1, <2>2, <2>3, ClientTypes DEF ClientCloses
<1>6. CASE ClientFrees(n)
  <2>1. "ended" \in Places
    BY DEF Places
  <2>2. SlotOK' /\ Same
    BY <1>0, <1>6, SockSlots DEF ClientFrees, FreeSlot
  <2>3. CbOK' /\ closes' \in [Socks -> Nat]
    BY <1>0, <1>6 DEF ClientFrees, CbOK
  <2> QED BY <1>6, <2>1, <2>2, <2>3, ClientTypes DEF ClientFrees
<1> QED BY <1>1, <1>2, <1>3, <1>4, <1>5, <1>6 DEF ClientThread

LEMMA TimeoutTypes ==
  ASSUME TypeInv, NEW n \in Socks, TimeoutThread(n)
  PROVE  TypeInv'
<1> USE DEF thrVars, cbVars, appVars
<1>0. /\ SlotOK /\ CbOK /\ closes \in [Socks -> Nat] /\ tat[n] \in Slots
      /\ peer \in [Socks -> {"none", "up", "gone"}]
  BY TypeParts DEF TypeInv, ThreadsOK
<1>1. PICK from, to \in {"none", "wait", "close", "free", "ended"} : TimerStep(n, from, to)
  BY DEF TimeoutThread, TimeoutPasses, TimeoutCloses, TimeoutFindsClosed, TimeoutFrees
<1>2. /\ ThreadsOK' /\ CbOK' /\ peer' \in [Socks -> {"none", "up", "gone"}]
      /\ UNCHANGED <<appVars, accepted, next_cid, overlap>>
  BY <1>0, <1>1 DEF TimerStep, TypeInv, TypeOK, ThreadsOK, CbOK
<1>3. CASE TimeoutPasses(n) \/ TimeoutFindsClosed(n)
  <2>1. SlotOK' /\ Same /\ closes' \in [Socks -> Nat]
    BY <1>0, <1>3, SameSlots DEF TimeoutPasses, TimeoutFindsClosed
  <2> QED BY <1>2, <2>1, QuietTypes
<1>4. CASE TimeoutCloses(n)
  <2>1. SlotOK' /\ Same /\ closes' \in [Socks -> Nat]
    BY <1>0, <1>4, CloseTypes DEF TimeoutCloses
  <2> QED BY <1>2, <2>1, QuietTypes
<1>5. CASE TimeoutFrees(n)
  <2>1. SlotOK' /\ Same /\ closes' \in [Socks -> Nat]
    BY <1>0, <1>5, SockSlots DEF TimeoutFrees, FreeSlot
  <2> QED BY <1>2, <2>1, QuietTypes
<1> QED BY <1>3, <1>4, <1>5 DEF TimeoutThread

LEMMA SlotsFirst ==
  ASSUME NEW S \in SUBSET Slots, S # {}
  PROVE  (CHOOSE i \in S : \A j \in S : i <= j) \in S
<1>1. S \in SUBSET Nat
  BY Assumed DEF Slots
<1> QED BY <1>1, FirstOf

LEMMA AcceptTypes ==
  ASSUME TypeInv, Accept
  PROVE  TypeInv'
<1> DEFINE i == CHOOSE f \in Free : \A j \in Free : f <= j
           n == accepted + 1
<1>1. i \in Slots
  <2>1. Free \in SUBSET Slots /\ Free # {}
    BY DEF Accept, Free
  <2> QED BY <2>1, SlotsFirst
<1> HIDE DEF i
<1>2. /\ SlotOK /\ accepted \in Nat /\ n \in Socks /\ next_cid \in Cids /\ next_cid <= n
      /\ calls \in 0 .. MaxCalls
  <2>1. accepted < MaxConns
    BY Zenon DEF Accept
  <2>2. /\ SlotOK /\ accepted \in 0 .. MaxConns /\ next_cid \in 1 .. accepted + 1
        /\ calls \in 0 .. MaxCalls
    BY DEF TypeInv, TypeOK, AppOK
  <2> QED BY <2>1, <2>2, Assumed DEF Socks, Cids
<1>3. slot' = [slot EXCEPT ![i].sock = n, ![i].cid = next_cid, ![i].state = "CONNECTING",
                           ![i].close_thrd = FALSE, ![i].ping = -1, ![i].pong = -1]
  BY DEF Accept, i
<1>4. /\ accepted' = n /\ next_cid' = next_cid + 1 /\ overlap' = (overlap \/ InUse(i))
      /\ peer' = [peer EXCEPT ![n] = "up"] /\ cpc' = [cpc EXCEPT ![n] = "handshake"]
      /\ cat' = [cat EXCEPT ![n] = i] /\ UNCHANGED <<closes, thrVars, appVars, cbVars, sent>>
  BY DEF Accept, i
<1>5. /\ \A j \in Slots : j # i => slot'[j] = slot[j]
      /\ slot'[i].cid = next_cid /\ slot'[i].ping = -1
  BY <1>1, <1>2, <1>3 DEF SlotOK
<1>6. SlotOK'
  <2>1. -1 \in -1 .. MaxCalls - 1 /\ "CONNECTING" \in States
    BY Assumed DEF States
  <2> HIDE DEF n
  <2>2. PICK k \in -1 .. MaxCalls - 1 : k = -1
    BY <2>1
  <2>3. slot' = [slot EXCEPT ![i].sock = n, ![i].cid = next_cid, ![i].state = "CONNECTING",
                             ![i].close_thrd = FALSE, ![i].ping = k, ![i].pong = k]
    BY <1>3, <2>2, Zenon
  <2> DEFINE s == [slot[i] EXCEPT !.sock = n, !.cid = next_cid, !.state = "CONNECTING",
                                  !.close_thrd = FALSE, !.ping = k, !.pong = k]
  <2>4. slot' = [slot EXCEPT ![i] = s]
    BY <1>1, <1>2, <2>3 DEF SlotOK
  <2>5. s \in [sock : Socks \union {NoSock}, cid : Cids \union {0}, state : States,
               close_thrd : BOOLEAN, thrd_tout : Socks \union {NoSock},
               ping : -1 .. MaxCalls - 1, pong : -1 .. MaxCalls - 1]
    BY <1>1, <1>2, <2>1 DEF SlotOK
  <2> HIDE DEF s
  <2> QED BY <1>1, <1>2, <2>4, <2>5 DEF SlotOK
<1>7. TypeOK'
  <2>1. ThreadsOK'
    BY <1>1, <1>2, <1>4 DEF TypeInv, TypeOK, ThreadsOK, thrVars
  <2>2. AppOK' /\ CbOK'
    BY <1>4 DEF TypeInv, TypeOK, AppOK, CbOK, appVars, cbVars
  <2>3. accepted' \in 0 .. MaxConns /\ next_cid' \in 1 .. accepted' + 1
    BY <1>2, <1>4 DEF Socks, Cids
  <2>4. overlap' \in BOOLEAN
    BY <1>4 DEF TypeInv, TypeOK, InUse
  <2>5. peer' \in [Socks -> {"none", "up", "gone"}] /\ closes' \in [Socks -> Nat]
    BY <1>2, <1>4 DEF TypeInv, TypeOK
  <2> QED BY <1>6, <2>1, <2>2, <2>3, <2>4, <2>5 DEF TypeOK, CbOK
<1>8. CidInv'
  BY <1>2, <1>4, <1>5 DEF TypeInv, CidInv, Valid, appVars
<1>9. PingInv'
  <2>1. UNCHANGED <<app, calls>> /\ PingNext' = PingNext
    BY <1>4 DEF appVars, PingNext
  <2>2. app.todo \subseteq Slots /\ app.op \in Pinging \union PingFreeing => calls >= 1
    BY DEF TypeInv, PingInv, Apps, Pinging, PingFreeing
  <2>3. \A j \in Slots : slot'[j].ping = slot[j].ping \/ slot'[j].ping = -1
    BY <1>5
  <2>4. \A j \in Slots : slot[j].ping <= calls - 1 => slot'[j].ping <= calls - 1
    BY <1>2, <2>3
  <2>5. \A j \in Slots : calls >= 1 /\ slot[j].ping <= calls - 2 => slot'[j].ping <= calls - 2
    BY <1>2, <2>3
  <2>6. PingInv /\ app.todo \subseteq Slots
    BY DEF TypeInv, Apps
  <2>7. \A j \in Slots : slot'[j].ping <= calls - 1
    BY <2>4, <2>6 DEF PingInv
  <2>8. app.op \in Pinging => app.todo # {} /\ \A j \in app.todo : slot'[j].ping <= calls - 2
    BY <2>2, <2>5, <2>6 DEF PingInv
  <2>9. app.op \in PingFreeing =>
          app.todo # {} /\ \A j \in app.todo \ {PingNext} : slot'[j].ping <= calls - 2
    BY <2>2, <2>5, <2>6 DEF PingInv
  <2>10. app.op # "idle" => calls >= 1
    BY <2>6 DEF PingInv
  <2> HIDE DEF n
  <2> QED BY <2>1, <2>7, <2>8, <2>9, <2>10 DEF PingInv
<1> QED BY <1>4, <1>7, <1>8, <1>9 DEF TypeInv, appVars

LEMMA RefuseTypes ==
  ASSUME TypeInv, Refuse
  PROVE  TypeInv'
<1>1. accepted \in Nat /\ accepted + 1 \in Socks
  BY Assumed DEF TypeInv, TypeOK, Refuse, Socks
<1>2. /\ accepted' \in 0 .. MaxConns /\ next_cid' \in 1 .. accepted' + 1
      /\ peer' \in [Socks -> {"none", "up", "gone"}] /\ closes' \in [Socks -> Nat]
  BY <1>1 DEF TypeInv, TypeOK, Refuse, Socks
<1>3. /\ SlotOK' /\ ThreadsOK' /\ AppOK' /\ CbOK' /\ overlap' \in BOOLEAN
      /\ UNCHANGED <<slot, app, calls>>
  BY DEF Refuse, TypeInv, TypeOK, SlotOK, ThreadsOK, AppOK, CbOK, thrVars, appVars, cbVars
<1>4. TypeOK'
  BY <1>2, <1>3 DEF TypeOK, CbOK
<1> QED BY <1>3, <1>4 DEF TypeInv, CidInv, PingInv, PingNext, Valid

(* A step of the application that leaves the ping ids alone.               *)
LEMMA AppTypes ==
  ASSUME TypeInv, UNCHANGED <<accepted, next_cid, overlap, peer, cpc, cat, cbVars>>,
         app' \in Apps, app'.op # "idle" => app'.cid \in Cids, SlotOK', asked' \subseteq Socks,
         calls' \in 0 .. MaxCalls, closes' \in [Socks -> Nat],
         tpc' \in [Socks -> {"none", "wait", "close", "free", "ended"}],
         tat' \in [Socks -> Slots],
         sent' \in [cid : Cids, sock : Socks, kind : {"DATA", "CLSE", "PING"}] \union {NoFrame},
         \A i \in Slots : slot'[i].cid = slot[i].cid /\ slot'[i].sock \in {slot[i].sock, NoSock},
         PingInv'
  PROVE  TypeInv'
<1>1. AppOK'
  BY DEF AppOK, Apps
<1>2. ThreadsOK' /\ CbOK'
  BY DEF TypeInv, TypeOK, ThreadsOK, CbOK, cbVars
<1>3. TypeOK'
  BY <1>1, <1>2 DEF TypeInv, TypeOK, CbOK
<1>4. CidInv'
  BY DEF TypeInv, CidInv, Valid
<1> QED BY <1>3, <1>4 DEF TypeInv

LEMMA SendTypes ==
  ASSUME TypeInv, NEW i \in Slots, NEW c \in Cids, NEW kind \in {"DATA", "CLSE", "PING"},
         SendTo(i, c, kind)
  PROVE  sent' \in [cid : Cids, sock : Socks, kind : {"DATA", "CLSE", "PING"}] \union {NoFrame}
<1>1. /\ Valid(i) => slot[i].sock \in Socks
      /\ sent \in [cid : Cids, sock : Socks, kind : {"DATA", "CLSE", "PING"}] \union {NoFrame}
  BY SlotFields, TypeParts DEF TypeInv, Valid, CbOK
<1> QED BY <1>1 DEF SendTo

LEMMA ByCidSlot ==
  ASSUME NEW c, Found(c) # {}
  PROVE  ByCid(c) \in Slots /\ slot[ByCid(c)].cid = c
<1>1. Found(c) \in SUBSET Slots
  BY DEF Found
<1>2. ByCid(c) \in Found(c)
  BY <1>1, SlotsFirst DEF ByCid
<1> QED BY <1>2 DEF Found

LEMMA CallTypes ==
  ASSUME TypeInv, NEW op \in {"send", "clse", "ping", "bping"}, NEW c \in Cids,
         NEW todo \in SUBSET Slots, op \in Pinging => todo # {}, Call(op, c, todo)
  PROVE  TypeInv'
<1>1. 1 \in Slots
  BY Assumed DEF Slots
<1>2. /\ app' \in Apps /\ app'.op = op /\ app'.cid = c /\ app'.todo = todo
  BY <1>1, ByCidSlot DEF Call, CallStep, Apps
<1>3. /\ calls' = calls + 1 /\ calls \in Nat /\ calls' \in 0 .. MaxCalls
      /\ UNCHANGED <<slot, closes, thrVars, asked, sent, accepted, next_cid, overlap, peer, cpc,
                     cat, cbVars>>
  <2>1. calls \in 0 .. MaxCalls
    BY DEF TypeInv, TypeOK, AppOK
  <2>2. calls' = calls + 1 /\ calls < MaxCalls
    BY DEF Call
  <2>3. UNCHANGED <<slot, closes, thrVars, asked, sent, accepted, next_cid, overlap, peer, cpc,
                    cat, cbVars>>
    BY DEF Call, CallStep
  <2> QED BY <2>1, <2>2, <2>3, Assumed
<1>4. PingInv'
  <2>1. \A i \in Slots : slot[i].ping \in Int /\ slot[i].ping <= calls - 1
    BY SlotFields DEF TypeInv, TypeOK, PingInv
  <2>2. op \notin PingFreeing
    BY DEF PingFreeing
  <2>3. \A i \in Slots : slot'[i].ping <= calls' - 1 /\ slot'[i].ping <= calls' - 2
    BY <1>3, <2>1, Assumed
  <2>4. calls' >= 1
    BY <1>3
  <2> QED BY <1>2, <2>2, <2>3, <2>4 DEF PingInv
<1>5. /\ SlotOK' /\ asked' \subseteq Socks /\ closes' \in [Socks -> Nat]
      /\ tpc' \in [Socks -> {"none", "wait", "close", "free", "ended"}]
      /\ tat' \in [Socks -> Slots]
      /\ sent' \in [cid : Cids, sock : Socks, kind : {"DATA", "CLSE", "PING"}] \union {NoFrame}
  BY <1>3 DEF TypeInv, TypeOK, SlotOK, ThreadsOK, AppOK, thrVars
<1> QED BY <1>2, <1>3, <1>4, <1>5, AppTypes

LEMMA CallsTypes ==
  ASSUME TypeInv, Calls
  PROVE  TypeInv'
<1>1. ASSUME NEW c \in Cids, SendCall(c) PROVE TypeInv'
  BY <1>1, CallTypes DEF SendCall, Pinging
<1>2. ASSUME NEW c \in Cids, CloseCall(c) PROVE TypeInv'
  BY <1>2, CallTypes DEF CloseCall, Pinging
<1>3. ASSUME NEW c \in Cids, PingCall(c) PROVE TypeInv'
  <2>1. Slots # {}
    BY Assumed DEF Slots
  <2> QED BY <1>3, <2>1, ByCidSlot, CallTypes DEF PingCall
<1>4. CASE Broadcast
  <2>1. PICK i \in Slots : StateIs(i, "OPEN") /\ SendTo(i, slot[i].cid, "DATA")
    BY <1>4 DEF Broadcast
  <2>2. slot[i].cid \in Cids
    BY <2>1 DEF TypeInv, CidInv, StateIs
  <2>3. sent' \in [cid : Cids, sock : Socks, kind : {"DATA", "CLSE", "PING"}] \union {NoFrame}
    BY <2>1, <2>2, SendTypes
  <2>4. app' = Idle /\ Idle \in Apps /\ Idle.op = "idle"
    BY <1>4, Assumed DEF Broadcast, CallStep, Idle, Apps, Slots
  <2>5. /\ calls' = calls + 1 /\ calls \in Nat /\ calls' \in 0 .. MaxCalls
        /\ UNCHANGED <<slot, closes, thrVars, asked, accepted, next_cid, overlap, peer, cpc,
                       cat, cbVars>>
    <3>1. calls \in 0 .. MaxCalls
      BY DEF TypeInv, TypeOK, AppOK
    <3>2. calls' = calls + 1 /\ calls < MaxCalls
      BY <1>4 DEF Broadcast
    <3>3. UNCHANGED <<slot, closes, thrVars, asked, accepted, next_cid, overlap, peer, cpc,
                      cat, cbVars>>
      BY <1>4 DEF Broadcast, CallStep
    <3> QED BY <3>1, <3>2, <3>3, Assumed
  <2>6. PingInv'
    <3>1. \A i_1 \in Slots : slot[i_1].ping \in Int /\ slot[i_1].ping <= calls - 1
      BY SlotFields DEF TypeInv, TypeOK, PingInv
    <3> QED BY <2>4, <2>5, <3>1 DEF PingInv, Pinging, PingFreeing
  <2>7. /\ SlotOK' /\ asked' \subseteq Socks /\ closes' \in [Socks -> Nat]
        /\ tpc' \in [Socks -> {"none", "wait", "close", "free", "ended"}]
        /\ tat' \in [Socks -> Slots]
    BY <2>5 DEF TypeInv, TypeOK, SlotOK, ThreadsOK, AppOK, thrVars
  <2> QED BY <2>3, <2>4, <2>5, <2>6, <2>7, AppTypes
<1> QED BY <1>1, <1>2, <1>3, <1>4 DEF Calls

(* The ping of the next slot of a call.                                    *)
LEMMA PingedTypes ==
  ASSUME TypeInv, app.op \in Pinging \union PingFreeing, NEW op \in Pinging
  PROVE  /\ PingNext \in app.todo /\ PingNext \in Slots /\ app.cid \in Cids
         /\ Pinged(op) \in Apps
         /\ \/ Pinged(op) = Idle /\ Idle.op = "idle"
            \/ /\ Pinged(op).op = op /\ Pinged(op).cid = app.cid
               /\ Pinged(op).todo = app.todo \ {PingNext} /\ app.todo \ {PingNext} # {}
<1>1. /\ app \in Apps /\ app.todo # {} /\ app.cid \in Cids
  BY DEF TypeInv, PingInv, CidInv, Pinging, PingFreeing
<1>2. app.todo \in SUBSET Slots
  BY <1>1 DEF Apps
<1>3. PingNext \in app.todo
  BY <1>1, <1>2, SlotsFirst DEF PingNext
<1>4. CASE app.todo = {PingNext}
  <2>1. Idle \in Apps /\ Idle.op = "idle"
    BY Assumed DEF Idle, Apps, Slots
  <2> QED BY <1>1, <1>2, <1>3, <1>4, <2>1 DEF Pinged
<1>5. CASE app.todo # {PingNext}
  <2>1. Pinged(op) = [app EXCEPT !.op = op, !.todo = app.todo \ {PingNext}]
    BY <1>5 DEF Pinged
  <2>2. app.todo \ {PingNext} # {}
    BY <1>1, <1>3, <1>5
  <2>3. /\ Pinged(op) \in Apps /\ Pinged(op).op = op /\ Pinged(op).cid = app.cid
        /\ Pinged(op).todo = app.todo \ {PingNext}
    BY <1>1, <1>2, <2>1 DEF Apps, Pinging
  <2> QED BY <1>1, <1>2, <1>3, <2>2, <2>3
<1> QED BY <1>4, <1>5

(* What a step leaves that meets the variables of the threads no more.     *)
LEMMA AppSteps ==
  ASSUME TypeInv, Application
  PROVE  /\ app' \in Apps /\ (app'.op # "idle" => app'.cid \in Cids) /\ calls' = calls
         /\ UNCHANGED <<accepted, next_cid, overlap, peer, cpc, cat, cbVars>>
         /\ app'.op \in Pinging \union PingFreeing => app.op \in Pinging \union PingFreeing
<1>1. /\ app \in Apps /\ (app.op # "idle" => app.cid \in Cids)
      /\ Idle \in Apps /\ Idle.op = "idle"
  BY Assumed DEF TypeInv, CidInv, Idle, Apps, Slots
<1>2. CASE \/ SendFrame \/ CloseFrameFails \/ NoTimeout \/ MarkTimeout
  BY <1>1, <1>2
  DEF SendFrame, CloseFrameFails, NoTimeout, MarkTimeout, CallStep, Pinging, PingFreeing
<1>3. CASE CloseFrame \/ StartTimeout
  <2>1. PICK op \in {"start", "mark"} : app' = [app EXCEPT !.op = op]
    BY <1>3 DEF CloseFrame, StartTimeout, CallStep
  <2>2. app' \in Apps /\ app'.op = op /\ app'.cid = app.cid
    BY <1>1, <2>1 DEF Apps
  <2> QED BY <1>1, <1>3, <2>2 DEF CloseFrame, StartTimeout, CallStep, Pinging, PingFreeing
<1>4. CASE PingSkips \/ PingSends \/ PingFrees
  <2>1. app.op \in Pinging \union PingFreeing
    BY <1>4 DEF PingSkips, PingSends, PingFrees, Pinging, PingFreeing
  <2>2. PICK op \in Pinging : app' = Pinged(op)
    BY <1>4 DEF PingSkips, PingSends, PingFrees, CallStep, Pinging
  <2> QED BY <1>4, <2>1, <2>2, PingedTypes DEF PingSkips, PingSends, PingFrees, CallStep
<1>5. CASE PingCloses
  <2>1. PICK op \in PingFreeing : app' = [app EXCEPT !.op = op]
    BY <1>5 DEF PingCloses, CallStep, PingFreeing
  <2>2. app' \in Apps /\ app'.op = op /\ app'.cid = app.cid
    BY <1>1, <2>1 DEF Apps, PingFreeing
  <2>3. app.op \in Pinging /\ app.op # "idle"
    BY <1>5 DEF PingCloses, Pinging
  <2> QED BY <1>1, <1>5, <2>2, <2>3 DEF PingCloses, CallStep
<1> QED BY <1>2, <1>3, <1>4, <1>5 DEF Application

(* ... and what is left to show for one that is no ping.                   *)
LEMMA PlainTypes ==
  ASSUME TypeInv, Application, app'.op \notin Pinging \union PingFreeing, SlotOK', Same,
         asked' \subseteq Socks, closes' \in [Socks -> Nat],
         tpc' \in [Socks -> {"none", "wait", "close", "free", "ended"}],
         tat' \in [Socks -> Slots],
         sent' \in [cid : Cids, sock : Socks, kind : {"DATA", "CLSE", "PING"}] \union {NoFrame},
         app.op # "idle"
  PROVE  TypeInv'
<1>1. /\ app' \in Apps /\ (app'.op # "idle" => app'.cid \in Cids) /\ calls' = calls
      /\ UNCHANGED <<accepted, next_cid, overlap, peer, cpc, cat, cbVars>>
  BY AppSteps
<1>2. PingInv'
  BY <1>1 DEF TypeInv, PingInv, Same
<1>3. calls' \in 0 .. MaxCalls
  BY <1>1 DEF TypeInv, TypeOK, AppOK
<1> QED BY <1>1, <1>2, <1>3, AppTypes DEF Same

(* The ping of a slot that is open.                                        *)
LEMMA PingSlots ==
  ASSUME SlotOK, PingInv, NEW i \in Slots, slot[i].ping <= calls - 2, calls \in 0 .. MaxCalls,
         NEW st \in States,
         slot' = [slot EXCEPT ![i].ping = @ + 1, ![i].state = st]
  PROVE  /\ SlotOK' /\ slot'[i].ping <= calls - 1
         /\ \A j \in Slots : /\ slot'[j].cid = slot[j].cid /\ slot'[j].sock = slot[j].sock
                             /\ j # i => slot'[j] = slot[j]
<1>1. slot[i].ping \in -1 .. MaxCalls - 1
  BY SlotFields
<1>2. slot[i].ping + 1 \in -1 .. MaxCalls - 1 /\ slot[i].ping + 1 <= calls - 1
  BY <1>1, Assumed
<1>3. PICK k : k = slot[i].ping + 1
  OBVIOUS
<1>4. slot' = [slot EXCEPT ![i].ping = k, ![i].state = st]
  BY <1>3
<1>5. SlotOK' /\ slot'[i].ping = k
  <2> DEFINE s == [slot[i] EXCEPT !.ping = k, !.state = st]
  <2>1. slot' = [slot EXCEPT ![i] = s]
    BY <1>4 DEF SlotOK
  <2>2. s \in [sock : Socks \union {NoSock}, cid : Cids \union {0}, state : States,
               close_thrd : BOOLEAN, thrd_tout : Socks \union {NoSock},
               ping : -1 .. MaxCalls - 1, pong : -1 .. MaxCalls - 1]
        /\ s.ping = k
    BY <1>2, <1>3 DEF SlotOK
  <2> HIDE DEF s
  <2> QED BY <2>1, <2>2 DEF SlotOK
<1>6. \A j \in Slots : /\ slot'[j].cid = slot[j].cid /\ slot'[j].sock = slot[j].sock
                       /\ j # i => slot'[j] = slot[j]
  BY <1>4 DEF SlotOK
<1> QED BY <1>2, <1>3, <1>5, <1>6

LEMMA ApplicationTypes ==
  ASSUME TypeInv, Application
  PROVE  TypeInv'
<1> DEFINE Sent == [cid : Cids, sock : Socks, kind : {"DATA", "CLSE", "PING"}] \union {NoFrame}
           Timers == {"none", "wait", "close", "free", "ended"}
           Threads == tpc' \in [Socks -> Timers] /\ tat' \in [Socks -> Slots]
<1>0. /\ SlotOK /\ closes \in [Socks -> Nat] /\ asked \subseteq Socks /\ sent \in Sent
      /\ tpc \in [Socks -> Timers] /\ tat \in [Socks -> Slots] /\ calls \in 0 .. MaxCalls
      /\ app.at \in Slots /\ (app.op # "idle" => app.cid \in Cids) /\ PingInv
      /\ \A i \in Slots : Valid(i) => slot[i].cid \in Cids /\ slot[i].sock \in Socks
  BY TypeParts, SlotFields DEF TypeInv, CidInv, ThreadsOK, AppOK, CbOK, Valid
<1>1. CASE SendFrame
  <2>1. app.op # "idle" /\ app' = Idle /\ SendTo(app.at, app.cid, "DATA")
    BY <1>1 DEF SendFrame, CallStep
  <2>2. sent' \in Sent
    BY <1>0, <2>1, SendTypes
  <2>3. SlotOK' /\ Same /\ closes' \in [Socks -> Nat] /\ asked' \subseteq Socks /\ Threads
    BY <1>0, <1>1, SameSlots DEF SendFrame, thrVars
  <2> QED BY <2>1, <2>2, <2>3, PlainTypes DEF Idle, Pinging, PingFreeing
<1>2. CASE CloseFrame
  <2>1. /\ app.op # "idle" /\ ByCid(app.cid) \in Slots /\ SendTo(ByCid(app.cid), app.cid, "CLSE")
    BY <1>2, ByCidSlot DEF CloseFrame, Known
  <2>2. app'.op = "start"
    BY <1>2 DEF CloseFrame, CallStep, TypeInv, Apps
  <2>3. sent' \in Sent
    BY <1>0, <2>1, SendTypes
  <2>4. SlotOK' /\ Same /\ closes' \in [Socks -> Nat] /\ asked' \subseteq Socks /\ Threads
    BY <1>0, <1>2, SameSlots DEF CloseFrame, thrVars
  <2> QED BY <2>1, <2>2, <2>3, <2>4, PlainTypes DEF Pinging, PingFreeing
<1>3. CASE CloseFrameFails \/ NoTimeout
  <2>1. app.op # "idle" /\ app' = Idle
    BY <1>3 DEF CloseFrameFails, NoTimeout, CallStep
  <2>2. /\ SlotOK' /\ Same /\ closes' \in [Socks -> Nat] /\ asked' \subseteq Socks /\ Threads
        /\ sent' \in Sent
    BY <1>0, <1>3, SameSlots DEF CloseFrameFails, NoTimeout, thrVars
  <2> QED BY <2>1, <2>2, PlainTypes DEF Idle, Pinging, PingFreeing
<1>4. CASE StartTimeout
  <2> DEFINE n == slot[app.at].sock
  <2>1. app.op # "idle" /\ n \in Socks
    BY <1>0, <1>4 DEF StartTimeout, StateIs
  <2>2. app'.op = "mark"
    BY <1>4 DEF StartTimeout, CallStep, TypeInv, Apps
  <2>3. SlotOK' /\ Same
    BY <1>0, <1>4, <2>1, TimeoutSlots DEF StartTimeout
  <2>4. closes' \in [Socks -> Nat] /\ asked' \subseteq Socks /\ Threads /\ sent' \in Sent
    BY <1>0, <1>4, <2>1 DEF StartTimeout
  <2> QED BY <2>1, <2>2, <2>3, <2>4, PlainTypes DEF Pinging, PingFreeing
<1>5. CASE MarkTimeout
  <2>1. app.op # "idle" /\ app' = Idle
    BY <1>5 DEF MarkTimeout, CallStep
  <2>2. SlotOK' /\ Same
    BY <1>0, <1>5, MarkSlots DEF MarkTimeout
  <2>3. closes' \in [Socks -> Nat] /\ asked' \subseteq Socks /\ Threads /\ sent' \in Sent
    BY <1>0, <1>5 DEF MarkTimeout, thrVars
  <2> QED BY <2>1, <2>2, <2>3, PlainTypes DEF Idle, Pinging, PingFreeing
<1>6. ASSUME app.op \in Pinging, NEW op \in Pinging, app' = Pinged(op), SlotOK',
             \A i \in Slots : /\ slot'[i].cid = slot[i].cid /\ slot'[i].sock = slot[i].sock
                              /\ i # PingNext => slot'[i].ping = slot[i].ping,
             slot'[PingNext].ping <= calls - 1
      PROVE  PingInv' /\ PingNext \in Slots /\ slot[PingNext].ping <= calls - 2
  <2>1. /\ PingNext \in app.todo /\ PingNext \in Slots
        /\ \/ app' = Idle /\ Idle.op = "idle"
           \/ app'.op = op /\ app'.todo = app.todo \ {PingNext} /\ app.todo \ {PingNext} # {}
    BY <1>6, PingedTypes
  <2>2. calls' = calls
    BY AppSteps
  <2>3. /\ calls >= 1 /\ \A i \in Slots : slot'[i].ping <= calls - 1
        /\ \A i \in app.todo \ {PingNext} : slot'[i].ping <= calls - 2
        /\ slot[PingNext].ping <= calls - 2
    BY <1>0, <1>6, <2>1 DEF PingInv, Pinging, TypeInv, Apps
  <2>4. op \notin PingFreeing
    BY DEF Pinging, PingFreeing
  <2> QED BY <2>1, <2>2, <2>3, <2>4 DEF PingInv, Pinging, PingFreeing
<1>7. CASE PingSkips
  <2>1. app.op \in Pinging /\ app' = Pinged(app.op)
    BY <1>7 DEF PingSkips, CallStep, Pinging
  <2>2. /\ SlotOK' /\ Same /\ closes' \in [Socks -> Nat] /\ asked' \subseteq Socks /\ Threads
        /\ sent' \in Sent /\ UNCHANGED slot
    BY <1>0, <1>7, SameSlots DEF PingSkips, thrVars
  <2>3. slot[PingNext].ping <= calls - 1
    BY <1>0, <2>1, PingedTypes DEF PingInv
  <2>4. PingInv'
    BY <1>6, <2>1, <2>2, <2>3
  <2> QED BY <1>0, <2>2, <2>4, AppSteps, AppTypes DEF Same
<1>8. CASE PingSends
  <2>1. /\ app.op \in Pinging /\ app' = Pinged(app.op) /\ StateIs(PingNext, "OPEN")
        /\ slot' = [slot EXCEPT ![PingNext].ping = @ + 1]
        /\ SendTo(PingNext, slot[PingNext].cid, "PING")
    BY <1>8 DEF PingSends, CallStep, Pinging
  <2>2. PingNext \in Slots /\ PingNext \in app.todo
    BY <2>1, PingedTypes
  <2>3. slot[PingNext].ping <= calls - 2
    BY <1>0, <2>1, <2>2 DEF PingInv
  <2>4. slot' = [slot EXCEPT ![PingNext].ping = @ + 1, ![PingNext].state = slot[PingNext].state]
    BY <1>0, <2>1, <2>2 DEF SlotOK
  <2>5. slot[PingNext].state \in States
    BY <1>0, <2>2, SlotFields
  <2>6. /\ SlotOK' /\ slot'[PingNext].ping <= calls - 1
        /\ \A i \in Slots : /\ slot'[i].cid = slot[i].cid /\ slot'[i].sock = slot[i].sock
                            /\ i # PingNext => slot'[i] = slot[i]
    BY <1>0, <2>2, <2>3, <2>4, <2>5, PingSlots
  <2>7. PingInv'
    BY <1>6, <2>1, <2>6
  <2>8. sent' \in Sent
    BY <1>0, <2>1, <2>2, SendTypes DEF StateIs
  <2>9. closes' \in [Socks -> Nat] /\ asked' \subseteq Socks /\ Threads
    BY <1>0, <1>8 DEF PingSends, thrVars
  <2> QED BY <1>0, <2>6, <2>7, <2>8, <2>9, AppSteps, AppTypes
<1>9. CASE PingCloses
  <2>1. /\ app.op \in Pinging /\ StateIs(PingNext, "OPEN")
        /\ slot' = [slot EXCEPT ![PingNext].ping = @ + 1, ![PingNext].state = "CLOSED"]
        /\ SendTo(PingNext, slot[PingNext].cid, "PING")
        /\ closes' = [closes EXCEPT ![slot[PingNext].sock] = @ + 1]
        /\ asked' = asked \union {slot[PingNext].sock}
        /\ Threads
    BY <1>0, <1>9 DEF PingCloses, CallStep, Pinging, thrVars
  <2>2. PingNext \in Slots /\ PingNext \in app.todo
    BY <2>1, PingedTypes
  <2>3. slot[PingNext].ping <= calls - 2 /\ app.todo # {} /\ calls >= 1
    BY <1>0, <2>1, <2>2 DEF PingInv, Pinging
  <2>4. /\ SlotOK' /\ slot'[PingNext].ping <= calls - 1
        /\ \A i \in Slots : /\ slot'[i].cid = slot[i].cid /\ slot'[i].sock = slot[i].sock
                            /\ i # PingNext => slot'[i] = slot[i]
    BY <1>0, <2>1, <2>2, <2>3, PingSlots DEF States
  <2>5. app'.op \in PingFreeing /\ app'.todo = app.todo /\ PingNext' = PingNext
    BY <1>9 DEF PingCloses, CallStep, TypeInv, Apps, PingFreeing, PingNext
  <2>6. PingInv'
    <3>1. calls' = calls
      BY AppSteps
    <3>2. \A i \in app.todo : i \in Slots
      BY DEF TypeInv, Apps
    <3>3. app'.op \notin Pinging /\ app'.op # "idle"
      BY <2>5 DEF Pinging, PingFreeing
    <3>4. \A i \in Slots : slot'[i].ping <= calls - 1
      BY <1>0, <2>4 DEF PingInv
    <3>5. \A i \in app.todo \ {PingNext} : slot'[i].ping <= calls - 2
      BY <1>0, <2>1, <2>4, <3>2 DEF PingInv
    <3> QED BY <2>3, <2>5, <3>1, <3>3, <3>4, <3>5 DEF PingInv
  <2>7. sent' \in Sent
    BY <1>0, <2>1, <2>2, SendTypes DEF StateIs
  <2>8. closes' \in [Socks -> Nat] /\ asked' \subseteq Socks
    BY <1>0, <2>1, <2>2 DEF StateIs
  <2> QED BY <1>0, <2>1, <2>4, <2>6, <2>7, <2>8, AppSteps, AppTypes
<1>10. CASE PingFrees
  <2>1. PICK op \in Pinging : app' = Pinged(op)
    BY <1>10 DEF PingFrees, CallStep, Pinging
  <2>2. app.op \in PingFreeing
    BY <1>10 DEF PingFrees, PingFreeing
  <2>3. /\ PingNext \in app.todo /\ PingNext \in Slots
        /\ \/ app' = Idle /\ Idle.op = "idle"
           \/ app'.op = op /\ app'.todo = app.todo \ {PingNext} /\ app.todo \ {PingNext} # {}
    BY <2>1, <2>2, PingedTypes
  <2>4. SlotOK' /\ Same
    BY <1>0, <1>10, <2>3, SockSlots DEF PingFrees, FreeSlot
  <2>5. PingInv'
    <3>1. calls' = calls /\ op \notin PingFreeing
      BY AppSteps DEF Pinging, PingFreeing
    <3>2. calls >= 1 /\ \A i \in app.todo \ {PingNext} : slot[i].ping <= calls - 2
      BY <1>0, <2>2 DEF PingInv, PingFreeing
    <3>3. \A i \in Slots : slot'[i].ping <= calls - 1
      BY <1>0, <2>4 DEF PingInv, Same
    <3>4. app.todo \subseteq Slots
      BY DEF TypeInv, Apps
    <3> QED BY <2>3, <2>4, <3>1, <3>2, <3>3, <3>4 DEF PingInv, Same, Pinging, PingFreeing
  <2>6. closes' \in [Socks -> Nat] /\ asked' \subseteq Socks /\ Threads /\ sent' \in Sent
    BY <1>0, <1>10 DEF PingFrees, thrVars
  <2> QED BY <1>0, <2>4, <2>5, <2>6, AppSteps, AppTypes DEF Same
<1> QED BY <1>1, <1>2, <1>3, <1>4, <1>5, <1>7, <1>8, <1>9, <1>10 DEF Application

LEMMA TypeInit == Init => TypeInv
<1> SUFFICES ASSUME Init PROVE TypeInv
  OBVIOUS
<1>1. 1 \in Slots
  BY Assumed DEF Slots
<1>2. SlotOK
  <2>1. -1 \in -1 .. MaxCalls - 1 /\ NoSock \in Socks \union {NoSock} /\ 0 \in Cids \union {0}
    BY Assumed
  <2>2. NoSlot \in [sock : Socks \union {NoSock}, cid : Cids \union {0}, state : States,
                    close_thrd : BOOLEAN, thrd_tout : Socks \union {NoSock},
                    ping : -1 .. MaxCalls - 1, pong : -1 .. MaxCalls - 1]
    BY <2>1 DEF NoSlot, States
  <2> QED BY <2>2 DEF Init, SlotOK
<1>3. ThreadsOK
  BY <1>1 DEF Init, ThreadsOK
<1>4. app \in Apps
  BY <1>1 DEF Init, Idle, Apps
<1>5. AppOK
  BY <1>1, Assumed DEF Init, AppOK, Idle
<1>6. CbOK
  BY DEF Init, CbOK
<1>7. TypeOK
  <2>1. /\ accepted \in 0 .. MaxConns /\ next_cid \in 1 .. accepted + 1
        /\ overlap \in BOOLEAN
    <3>1. accepted = 0 /\ next_cid = 1 /\ overlap = FALSE
      BY Zenon DEF Init
    <3>2. 0 \in 0 .. MaxConns /\ 1 \in 1 .. 0 + 1 /\ FALSE \in BOOLEAN
      BY Assumed
    <3> QED BY <3>1, <3>2, Zenon
  <2>2. peer \in [Socks -> {"none", "up", "gone"}] /\ closes \in [Socks -> Nat]
    BY DEF Init
  <2> QED BY <1>2, <1>3, <1>5, <1>6, <2>1, <2>2, TypeParts
<1>8. CidInv /\ PingInv
  BY DEF Init, CidInv, PingInv, Valid, NoSlot, Idle, Pinging, PingFreeing
<1> QED BY <1>4, <1>7, <1>8 DEF TypeInv

LEMMA TypeStep == TypeInv /\ [Next]_vars => TypeInv'
<1> SUFFICES ASSUME TypeInv, [Next]_vars PROVE TypeInv'
  OBVIOUS
<1>1. ASSUME NEW n \in Socks, Peer(n) \/ ClientThread(n) \/ TimeoutThread(n) PROVE TypeInv'
  BY <1>1, PeerTypes, ClientThreadTypes, TimeoutTypes
<1>2. CASE UNCHANGED vars
  <2>1. SlotOK' /\ Same
    BY <1>2, SameSlots DEF vars, TypeInv, TypeOK
  <2>2. ThreadsOK' /\ CbOK' /\ UNCHANGED <<appVars, accepted, next_cid, overlap, peer, closes>>
    BY <1>2 DEF vars, netVars, thrVars, cbVars, TypeInv, TypeOK, ThreadsOK, CbOK
  <2> QED BY <2>1, <2>2, QuietTypes DEF TypeInv, TypeOK
<1> QED BY <1>1, <1>2, AcceptTypes, RefuseTypes, CallsTypes, ApplicationTypes DEF Next

LEMMA TypeInvariance == Spec => []TypeInv
<1> QED BY TypeInit, TypeStep, PTL DEF Spec

(* With any number of slots, connections and calls, whoever closes and     *)
(* however slots are given on: every field keeps to its type, no ping id   *)
(* passes the number of pings, no pong id is believed that was never sent, *)
(* and callbacks and frames only ever name connections that exist.         *)
THEOREM TypeCorrect == Spec => []TypeOK
<1>1. TypeInv => TypeOK
  BY DEF TypeInv
<1> QED BY <1>1, TypeInvariance, PTL

-----------------------------------------------------------------------------
(* Callbacks, as long as no slot was given on while it was in use: a       *)
(* thread's slot then keeps its cid until the thread ends, no two threads  *)
(* that live have the same slot, and no two slots have the same cid.       *)

Open == {"read", "got_close", "set_closing", "send_close", "onclose"}
Past == {"closed", "join", "check", "close", "free"}

Owner ==
  /\ \A i \in Slots : slot[i].cid < next_cid
  /\ \A i, j \in Slots : i # j /\ slot[i].cid = slot[j].cid => slot[i].cid = 0
  /\ \A n \in Socks : n > accepted => cpc[n] = "none"
  /\ \A n, m \in Socks : Alive(n) /\ Alive(m) /\ cat[n] = cat[m] => n = m
  /\ \A n \in Socks : Alive(n) => slot[cat[n]].sock \in {n, NoSock} /\ slot[cat[n]].cid \in Cids

(* What was called back so far, by the place of a connection's thread.     *)
CalledBack(n, c) ==
  /\ cpc[n] = "handshake" => opened[c] = {}
  /\ cpc[n] \in Open => opened[c] = {n}
  /\ cpc[n] \in Past => ended[c] = opened[c]

Callbacks ==
  /\ \A c \in Cids : c >= next_cid => opened[c] = {} /\ ended[c] = {}
  /\ \A c \in Cids : ended[c] \subseteq opened[c] /\ \A m, n \in opened[c] : m = n
  /\ \A n \in Socks : Alive(n) => CalledBack(n, slot[cat[n]].cid)
  /\ \A c \in Cids : \A n \in opened[c] :
       /\ cpc[n] # "none" /\ (cpc[n] = "ended" => n \in ended[c])
       /\ Alive(n) => slot[cat[n]].cid = c
  /\ heard # NoMessage => heard.sock \in opened[heard.cid]

CbInv == overlap \/ (Owner /\ Callbacks)

SameCids ==
  \A i \in Slots : slot'[i].cid = slot[i].cid /\ slot'[i].sock \in {slot[i].sock, NoSock}

LEMMA CidsKept ==
  ASSUME TypeInv,
         \/ \E n \in Socks : Peer(n) \/ ClientThread(n) \/ TimeoutThread(n)
         \/ Calls \/ Application \/ Refuse
  PROVE  SameCids
<1>0. SlotOK /\ \A n \in Socks : cat[n] \in Slots /\ tat[n] \in Slots
  BY DEF TypeInv, TypeOK, ThreadsOK
<1>1. ASSUME UNCHANGED slot PROVE SameCids
  BY <1>1 DEF SameCids
<1>2. ASSUME NEW i \in Slots, NEW st, slot' = [slot EXCEPT ![i].state = st] PROVE SameCids
  BY <1>0, <1>2 DEF SlotOK, SameCids
<1>3. ASSUME NEW i \in Slots, FreeSlot(i) PROVE SameCids
  BY <1>0, <1>3 DEF SlotOK, SameCids, FreeSlot
<1>4. ASSUME NEW n \in Socks, Peer(n) PROVE SameCids
  <2>1. CASE Handshake(n)
    BY <1>0, <1>1, <1>2, <2>1 DEF Handshake, SetState
  <2>2. CASE ReadPong(n)
    BY <1>0, <2>2 DEF ReadPong, SlotOK, SameCids
  <2>3. CASE ~Handshake(n) /\ ~ReadPong(n)
    BY <1>1, <1>4, <2>3
    DEF Peer, PeerLeaves, HandshakeFails, ReadMessage, ReadClose, ReadInvalid, threadOnly
  <2> QED BY <2>1, <2>2, <2>3
<1>5. ASSUME NEW n \in Socks, ClientThread(n) PROVE SameCids
  <2>1. CASE SetClosing(n)
    BY <1>0, <1>1, <1>2, <2>1 DEF SetClosing, SetState
  <2>2. CASE ClientCloses(n) \/ ClientFrees(n)
    BY <1>0, <1>2, <1>3, <2>2 DEF ClientCloses, ClientFrees, CloseSocket
  <2>3. CASE ~SetClosing(n) /\ ~ClientCloses(n) /\ ~ClientFrees(n)
    BY <1>1, <1>5, <2>3
    DEF ClientThread, HandshakeEnds, ReadEnds, CloseAnswered, SendClose, OnClose, ReadCloseThrd,
        Join, CheckState, ClientFindsClosed, threadOnly
  <2> QED BY <2>1, <2>2, <2>3
<1>6. ASSUME NEW n \in Socks, TimeoutThread(n) PROVE SameCids
  BY <1>0, <1>1, <1>2, <1>3, <1>6
  DEF TimeoutThread, TimeoutPasses, TimeoutCloses, TimeoutFindsClosed, TimeoutFrees, CloseSocket
<1>7. ASSUME Calls PROVE SameCids
  BY <1>1, <1>7 DEF Calls, Broadcast, SendCall, CloseCall, PingCall, Call
<1>8. ASSUME Application PROVE SameCids
  <2>1. app.at \in Slots
    BY DEF TypeInv, TypeOK, AppOK
  <2>2. CASE StartTimeout \/ MarkTimeout
    BY <1>0, <2>1, <2>2 DEF StartTimeout, MarkTimeout, SlotOK, SameCids
  <2>3. CASE PingSends \/ PingCloses
    BY <1>0, <2>3 DEF PingSends, PingCloses, SlotOK, SameCids
  <2>4. CASE PingFrees
    <3>1. PingNext \in Slots
      BY <2>4, PingedTypes DEF PingFrees, Pinging, PingFreeing
    <3> QED BY <1>3, <2>4, <3>1 DEF PingFrees
  <2>5. CASE SendFrame \/ CloseFrame \/ CloseFrameFails \/ NoTimeout \/ PingSkips
    BY <1>1, <2>5 DEF SendFrame, CloseFrame, CloseFrameFails, NoTimeout, PingSkips
  <2> QED BY <1>8, <2>2, <2>3, <2>4, <2>5 DEF Application
<1>9. ASSUME Refuse PROVE SameCids
  BY <1>1, <1>9 DEF Refuse
<1> QED BY <1>4, <1>5, <1>6, <1>7, <1>8, <1>9

LEMMA OwnerKept ==
  ASSUME TypeInv, Owner, SameCids, UNCHANGED <<cat, next_cid>>,
         accepted' \in {accepted, accepted + 1},
         \A m \in Socks : Alive(m)' => Alive(m),
         \A m \in Socks : cpc'[m] = "none" <=> cpc[m] = "none"
  PROVE  Owner'
<1>1. accepted \in Nat /\ \A m \in Socks : cat[m] \in Slots
  BY Assumed DEF TypeInv, TypeOK, ThreadsOK
<1>2. /\ \A i \in Slots : slot'[i].cid < next_cid'
      /\ \A i, j \in Slots : i # j /\ slot'[i].cid = slot'[j].cid => slot'[i].cid = 0
  BY DEF Owner, SameCids
<1>3. \A m \in Socks : m > accepted' => cpc'[m] = "none"
  BY <1>1 DEF Owner, Socks
<1>4. \A n, m \in Socks : Alive(n)' /\ Alive(m)' /\ cat'[n] = cat'[m] => n = m
  BY DEF Owner
<1>5. \A n \in Socks :
        Alive(n)' => slot'[cat'[n]].sock \in {n, NoSock} /\ slot'[cat'[n]].cid \in Cids
  BY <1>1 DEF Owner, SameCids
<1> QED BY <1>2, <1>3, <1>4, <1>5 DEF Owner, Alive

(* A step that calls nothing back and moves no client thread.              *)
LEMMA QuietCallbacks ==
  ASSUME TypeInv, Owner, Callbacks, SameCids, UNCHANGED <<cpc, cat, next_cid, cbVars>>,
         accepted' \in {accepted, accepted + 1}
  PROVE  Owner' /\ Callbacks'
<1>1. \A m \in Socks : (Alive(m)' <=> Alive(m)) /\ cat[m] \in Slots
  BY DEF Alive, TypeInv, TypeOK, ThreadsOK
<1>2. Owner'
  BY <1>1, OwnerKept
<1>3. \A m \in Socks : slot'[cat'[m]].cid = slot[cat[m]].cid
  BY <1>1 DEF SameCids
<1>4. \A m \in Socks : Alive(m)' => CalledBack(m, slot[cat[m]].cid)'
  BY <1>1, <1>3 DEF Callbacks, CalledBack, cbVars
<1>5. \A c \in Cids : \A m \in opened'[c] :
        /\ cpc'[m] # "none" /\ (cpc'[m] = "ended" => m \in ended'[c])
        /\ Alive(m)' => slot'[cat'[m]].cid = c
  <2>1. \A c \in Cids : opened[c] \subseteq Socks
    BY TypeParts DEF TypeInv, CbOK
  <2> QED BY <1>1, <1>3, <2>1 DEF Callbacks, cbVars
<1> QED BY <1>2, <1>4, <1>5 DEF Callbacks, cbVars

(* A thread that moves on without a call back.                             *)
LEMMA MovesCallbacks ==
  ASSUME TypeInv, Owner, Callbacks, SameCids, UNCHANGED cbVars,
         NEW n \in Socks, NEW from, NEW to, Step(n, from, to),
         \/ from \in Open /\ to \in Open
         \/ from \in Past \union {"handshake"} /\ to \in Past
         \/ from \in Past /\ to = "ended"
  PROVE  Owner' /\ Callbacks'
<1>1. /\ cpc[n] = from /\ Alive(n) /\ cpc'[n] = to /\ to # "none"
      /\ \A m \in Socks : m # n => cpc'[m] = cpc[m]
      /\ UNCHANGED <<accepted, next_cid, cat>>
  BY DEF Step, TypeInv, TypeOK, ThreadsOK, Alive, Open, Past
<1>2. \A m \in Socks : /\ Alive(m)' => Alive(m)
                       /\ cpc'[m] = "none" <=> cpc[m] = "none"
                       /\ cat[m] \in Slots
  BY <1>1 DEF Alive, TypeInv, TypeOK, ThreadsOK
<1>3. Owner'
  BY <1>1, <1>2, OwnerKept
<1>4. \A m \in Socks : slot'[cat'[m]].cid = slot[cat[m]].cid
  BY <1>1, <1>2 DEF SameCids
<1>5. \A c \in Cids : opened[c] \subseteq Socks /\ ended[c] \subseteq opened[c]
  BY TypeParts DEF TypeInv, CbOK, Callbacks
<1>6. slot[cat[n]].cid \in Cids
  BY <1>1 DEF Owner
<1>7. ASSUME NEW m \in Socks, Alive(m)' PROVE CalledBack(m, slot[cat[m]].cid)'
  <2>1. Alive(m) /\ CalledBack(m, slot[cat[m]].cid)
    BY <1>2, <1>7 DEF Callbacks
  <2>2. CASE m # n
    BY <1>1, <1>4, <2>1, <2>2 DEF CalledBack, cbVars
  <2>3. CASE m = n
    <3>1. from = "handshake" => ended[slot[cat[n]].cid] = opened[slot[cat[n]].cid]
      BY <1>1, <1>5, <1>6, <2>1, <2>3 DEF CalledBack
    <3> QED BY <1>1, <1>4, <2>1, <2>3, <3>1 DEF CalledBack, cbVars, Open, Past
  <2> QED BY <2>2, <2>3
<1>8. ASSUME NEW c \in Cids, NEW m \in opened[c]
      PROVE  /\ cpc'[m] # "none" /\ (cpc'[m] = "ended" => m \in ended[c])
             /\ Alive(m)' => slot'[cat'[m]].cid = c
  <2>1. m \in Socks /\ cpc[m] # "none" /\ (cpc[m] = "ended" => m \in ended[c])
        /\ (Alive(m) => slot[cat[m]].cid = c)
    BY <1>5 DEF Callbacks
  <2>2. CASE m # n
    BY <1>1, <1>2, <1>4, <2>1, <2>2
  <2>3. CASE m = n
    <3>1. slot[cat[n]].cid = c /\ CalledBack(n, c)
      BY <1>1, <2>1, <2>3 DEF Callbacks
    <3>2. to = "ended" => n \in ended[c]
      BY <1>1, <2>3, <3>1 DEF CalledBack, Open, Past
    <3> QED BY <1>1, <1>2, <1>4, <2>3, <3>1, <3>2
  <2> QED BY <2>2, <2>3
<1> QED BY <1>1, <1>3, <1>4, <1>7, <1>8 DEF Callbacks, cbVars

LEMMA HandshakeCallbacks ==
  ASSUME TypeInv, Owner, Callbacks, SameCids, NEW n \in Socks, Handshake(n)
  PROVE  Owner' /\ Callbacks'
<1> DEFINE d == slot[cat[n]].cid
<1>1. /\ cpc[n] = "handshake" /\ Alive(n) /\ cpc'[n] = "read"
      /\ \A m \in Socks : m # n => cpc'[m] = cpc[m]
      /\ UNCHANGED <<accepted, next_cid, cat, ended, heard>>
  BY DEF Handshake, Step, TypeInv, TypeOK, ThreadsOK, Alive
<1>2. \A m \in Socks : /\ Alive(m)' <=> Alive(m)
                       /\ cpc'[m] = "none" <=> cpc[m] = "none"
                       /\ cat[m] \in Slots
  BY <1>1 DEF Alive, TypeInv, TypeOK, ThreadsOK
<1>3. Owner'
  BY <1>1, <1>2, OwnerKept
<1>4. \A m \in Socks : slot'[cat'[m]].cid = slot[cat[m]].cid
  BY <1>1, <1>2 DEF SameCids
<1>5. /\ \A c \in Cids : opened[c] \subseteq Socks /\ ended[c] \subseteq opened[c]
      /\ heard # NoMessage => heard.cid \in Cids
  BY TypeParts DEF TypeInv, CbOK, Callbacks
<1>6. d \in Cids /\ opened[d] = {} /\ d < next_cid
  BY <1>1, <1>2 DEF Owner, Callbacks, CalledBack
<1>7. opened'[d] = {n} /\ \A c \in Cids : c # d => opened'[c] = opened[c]
  <2>1. opened \in [Cids -> SUBSET Socks] /\ opened' = [opened EXCEPT ![d] = @ \union {n}]
    BY TypeParts DEF TypeInv, CbOK, Handshake
  <2> QED BY <1>6, <2>1
<1>8. \A m \in Socks : Alive(m) /\ m # n => slot[cat[m]].cid \in Cids /\ slot[cat[m]].cid # d
  BY <1>1, <1>2 DEF Owner, Cids
<1> HIDE DEF d
<1>9. ASSUME NEW m \in Socks, Alive(m)' PROVE CalledBack(m, slot[cat[m]].cid)'
  <2>1. CASE m # n
    BY <1>1, <1>2, <1>4, <1>7, <1>8, <1>9, <2>1 DEF Callbacks, CalledBack
  <2>2. CASE m = n
    BY <1>1, <1>4, <1>7, <2>2 DEF CalledBack, Open, Past, d
  <2> QED BY <2>1, <2>2
<1>10. ASSUME NEW c \in Cids, NEW m \in opened'[c]
       PROVE  /\ cpc'[m] # "none" /\ (cpc'[m] = "ended" => m \in ended'[c])
              /\ Alive(m)' => slot'[cat'[m]].cid = c
  <2>1. CASE c = d
    BY <1>1, <1>2, <1>4, <1>7, <2>1 DEF d
  <2>2. CASE c # d
    <3>1. m \in opened[c] /\ m \in Socks
      BY <1>5, <1>7, <2>2
    <3> QED BY <1>1, <1>2, <1>4, <1>6, <2>2, <3>1 DEF Callbacks, d
  <2> QED BY <2>1, <2>2
<1>11. /\ \A c \in Cids : c >= next_cid => opened'[c] = {} /\ ended[c] = {}
       /\ \A c \in Cids : ended[c] \subseteq opened'[c] /\ \A m, k \in opened'[c] : m = k
       /\ heard # NoMessage => heard.sock \in opened'[heard.cid]
  <2>1. next_cid \in Int /\ \A c \in Cids : c \in Int
    BY Assumed DEF TypeInv, TypeOK, Cids
  <2>2. \A c \in Cids : c >= next_cid => opened'[c] = {} /\ ended[c] = {}
    BY <1>6, <1>7, <2>1 DEF Callbacks
  <2>3. \A c \in Cids : ended[c] \subseteq opened'[c] /\ \A m, k \in opened'[c] : m = k
    BY <1>5, <1>6, <1>7 DEF Callbacks
  <2>4. heard # NoMessage => heard.sock \in opened'[heard.cid]
    BY <1>5, <1>6, <1>7 DEF Callbacks
  <2> QED BY <2>2, <2>3, <2>4
<1> QED BY <1>1, <1>3, <1>4, <1>9, <1>10, <1>11 DEF Callbacks

LEMMA OnCloseCallbacks ==
  ASSUME TypeInv, Owner, Callbacks, SameCids, NEW n \in Socks, OnClose(n)
  PROVE  Owner' /\ Callbacks'
<1> DEFINE d == slot[cat[n]].cid
<1>1. /\ cpc[n] = "onclose" /\ Alive(n) /\ cpc'[n] = "closed"
      /\ \A m \in Socks : m # n => cpc'[m] = cpc[m]
      /\ UNCHANGED <<accepted, next_cid, cat, opened, heard>>
  BY DEF OnClose, Step, TypeInv, TypeOK, ThreadsOK, Alive
<1>2. \A m \in Socks : /\ Alive(m)' <=> Alive(m)
                       /\ cpc'[m] = "none" <=> cpc[m] = "none"
                       /\ cat[m] \in Slots
  BY <1>1 DEF Alive, TypeInv, TypeOK, ThreadsOK
<1>3. Owner'
  BY <1>1, <1>2, OwnerKept
<1>4. \A m \in Socks : slot'[cat'[m]].cid = slot[cat[m]].cid
  BY <1>1, <1>2 DEF SameCids
<1>5. \A c \in Cids : opened[c] \subseteq Socks /\ ended[c] \subseteq opened[c]
  BY TypeParts DEF TypeInv, CbOK, Callbacks
<1>6. d \in Cids /\ opened[d] = {n}
  BY <1>1 DEF Owner, Callbacks, CalledBack, Open
<1>7. ended'[d] = {n} /\ \A c \in Cids : c # d => ended'[c] = ended[c]
  <2>1. ended \in [Cids -> SUBSET Socks] /\ ended' = [ended EXCEPT ![d] = @ \union {n}]
    BY TypeParts DEF TypeInv, CbOK, OnClose
  <2> QED BY <1>5, <1>6, <2>1
<1>8. \A m \in Socks : Alive(m) /\ m # n => slot[cat[m]].cid \in Cids /\ slot[cat[m]].cid # d
  BY <1>1, <1>2 DEF Owner, Cids
<1> HIDE DEF d
<1>9. ASSUME NEW m \in Socks, Alive(m)' PROVE CalledBack(m, slot[cat[m]].cid)'
  <2>1. CASE m # n
    BY <1>1, <1>2, <1>4, <1>7, <1>8, <1>9, <2>1 DEF Callbacks, CalledBack
  <2>2. CASE m = n
    BY <1>1, <1>4, <1>6, <1>7, <2>2 DEF CalledBack, Open, Past, d
  <2> QED BY <2>1, <2>2
<1>10. ASSUME NEW c \in Cids, NEW m \in opened[c]
       PROVE  /\ cpc'[m] # "none" /\ (cpc'[m] = "ended" => m \in ended'[c])
              /\ Alive(m)' => slot'[cat'[m]].cid = c
  <2>1. m \in Socks
    BY <1>5
  <2>2. m \in ended[c] => m \in ended'[c]
    BY <1>5, <1>6, <1>7
  <2> QED BY <1>1, <1>2, <1>4, <2>1, <2>2 DEF Callbacks
<1>11. /\ \A c \in Cids : c >= next_cid => opened[c] = {} /\ ended'[c] = {}
       /\ \A c \in Cids : ended'[c] \subseteq opened[c] /\ \A m, k \in opened[c] : m = k
  BY <1>5, <1>6, <1>7 DEF Callbacks
<1> QED BY <1>1, <1>3, <1>4, <1>9, <1>10, <1>11 DEF Callbacks

(* A message comes from the connection it names.                           *)
LEMMA MessageCallbacks ==
  ASSUME TypeInv, Owner, Callbacks, SameCids, NEW n \in Socks, ReadMessage(n)
  PROVE  Owner' /\ Callbacks'
<1>1. /\ cpc[n] = "read" /\ Alive(n) /\ Valid(cat[n]) /\ cpc' = cpc
      /\ UNCHANGED <<accepted, next_cid, cat, slot, opened, ended>>
      /\ heard' = [cid |-> slot[cat[n]].cid, sock |-> slot[cat[n]].sock]
  BY DEF ReadMessage, Step, Sends, TypeInv, TypeOK, ThreadsOK, Alive
<1>2. slot[cat[n]].sock = n /\ opened[slot[cat[n]].cid] = {n}
  BY <1>1 DEF Owner, Valid, Callbacks, CalledBack, Open
<1>3. heard'.sock \in opened[heard'.cid]
  BY <1>1, <1>2
<1>4. Owner'
  BY <1>1 DEF Owner, Alive
<1> QED BY <1>1, <1>3, <1>4 DEF Callbacks, CalledBack, Alive

(* A slot that nobody uses goes to the next connection, with a cid that    *)
(* none had.                                                               *)
LEMMA AcceptCallbacks ==
  ASSUME TypeInv, Owner, Callbacks, Accept, ~overlap'
  PROVE  Owner' /\ Callbacks'
<1> DEFINE i == CHOOSE f \in Free : \A j \in Free : f <= j
           n == accepted + 1
<1>1. i \in Slots
  <2>1. Free \in SUBSET Slots /\ Free # {}
    BY DEF Accept, Free
  <2> QED BY <2>1, SlotsFirst
<1> HIDE DEF i
<1>2. /\ slot' = [slot EXCEPT ![i].sock = n, ![i].cid = next_cid, ![i].state = "CONNECTING",
                              ![i].close_thrd = FALSE, ![i].ping = -1, ![i].pong = -1]
      /\ accepted' = n /\ next_cid' = next_cid + 1 /\ ~InUse(i)
      /\ cpc' = [cpc EXCEPT ![n] = "handshake"] /\ cat' = [cat EXCEPT ![n] = i]
      /\ UNCHANGED cbVars
  BY DEF Accept, i
<1>3. accepted \in Nat /\ n \in Socks /\ next_cid \in Nat /\ next_cid \in Cids
  <2>1. accepted < MaxConns
    BY Zenon DEF Accept
  <2>2. accepted \in 0 .. MaxConns /\ next_cid \in 1 .. accepted + 1
    BY DEF TypeInv, TypeOK
  <2> QED BY <2>1, <2>2, Assumed DEF Socks, Cids
<1>4. /\ \A j \in Slots : j # i => slot'[j] = slot[j]
      /\ slot'[i].cid = next_cid /\ slot'[i].sock = n
  BY <1>1, <1>2 DEF TypeInv, TypeOK, SlotOK
<1> HIDE DEF n
<1>5. /\ cpc'[n] = "handshake" /\ cat'[n] = i /\ cpc[n] = "none"
      /\ \A m \in Socks : m # n => cpc'[m] = cpc[m] /\ cat'[m] = cat[m]
      /\ \A m \in Socks : m > n => m > accepted
      /\ \A m \in Socks : cat[m] \in Slots
  <2>1. cpc \in [Socks -> Places] /\ cat \in [Socks -> Slots]
    BY DEF TypeInv, TypeOK, ThreadsOK, Places
  <2>2. n > accepted /\ \A m \in Socks : m > n => m > accepted
    BY <1>3 DEF Socks, n
  <2> QED BY <1>2, <1>3, <2>1, <2>2 DEF Owner
<1>6. \A m \in Socks : Alive(m) => m # n /\ cat[m] # i
  BY <1>2, <1>5 DEF InUse, Alive
<1>7. \A m \in Socks : m # n => (Alive(m)' <=> Alive(m))
  BY <1>5 DEF Alive
<1>8. \A m \in Socks : Alive(m) => slot'[cat'[m]] = slot[cat[m]]
  BY <1>4, <1>5, <1>6
<1>9. \A c \in Cids : opened[c] \subseteq Socks /\ (opened[c] = {} \/ c < next_cid)
  BY <1>3, TypeParts DEF TypeInv, CbOK, Callbacks, Cids
<1>10. Owner'
  <2>1. \A j \in Slots : slot[j].cid < next_cid /\ slot[j].cid \in Nat
    BY SlotFields DEF Owner, TypeInv, TypeOK, Cids
  <2>2. \A j \in Slots : slot'[j].cid < next_cid'
    <3>1. next_cid' = next_cid + 1
      BY <1>2
    <3>2. \A j \in Slots : slot'[j].cid = next_cid \/ slot'[j].cid = slot[j].cid
      BY <1>4
    <3> QED BY <1>3, <2>1, <3>1, <3>2
  <2>3. \A j, k \in Slots : j # k /\ slot'[j].cid = slot'[k].cid => slot'[j].cid = 0
    BY <1>3, <1>4, <2>1 DEF Owner
  <2>4. \A m \in Socks : m > accepted' => cpc'[m] = "none"
    BY <1>2, <1>3, <1>5 DEF Owner, Socks
  <2>5. \A m, k \in Socks : Alive(m)' /\ Alive(k)' /\ cat'[m] = cat'[k] => m = k
    BY <1>5, <1>6, <1>7 DEF Owner
  <2>6. ASSUME NEW m \in Socks, Alive(m)'
        PROVE  slot'[cat'[m]].sock \in {m, NoSock} /\ slot'[cat'[m]].cid \in Cids
    <3>1. CASE m = n
      BY <1>3, <1>4, <1>5, <3>1
    <3>2. CASE m # n
      BY <1>7, <1>8, <2>6, <3>2 DEF Owner
    <3> QED BY <3>1, <3>2
  <2> QED BY <2>2, <2>3, <2>4, <2>5, <2>6 DEF Owner, Alive
<1>11. ASSUME NEW m \in Socks, Alive(m)' PROVE CalledBack(m, slot[cat[m]].cid)'
  <2>1. CASE m = n
    <3>1. opened'[next_cid] = {}
      BY <1>2, <1>3 DEF Callbacks, cbVars
    <3>2. cpc'[m] = "handshake" /\ slot'[cat'[m]].cid = next_cid
      BY <1>4, <1>5, <2>1
    <3> QED BY <3>1, <3>2 DEF CalledBack, Open, Past
  <2>2. CASE m # n
    <3>1. Alive(m) /\ cpc'[m] = cpc[m] /\ slot'[cat'[m]] = slot[cat[m]]
      BY <1>5, <1>7, <1>8, <1>11, <2>2
    <3>2. CalledBack(m, slot[cat[m]].cid) /\ UNCHANGED <<opened, ended>>
      BY <1>2, <3>1 DEF Callbacks, cbVars
    <3> QED BY <3>1, <3>2 DEF CalledBack
  <2> QED BY <2>1, <2>2
<1>12. ASSUME NEW c \in Cids, NEW m \in opened[c]
       PROVE  /\ cpc'[m] # "none" /\ (cpc'[m] = "ended" => m \in ended[c])
              /\ Alive(m)' => slot'[cat'[m]].cid = c
  <2>1. m \in Socks /\ cpc[m] # "none" /\ m # n
    BY <1>5, <1>9 DEF Callbacks
  <2> QED BY <1>5, <1>7, <1>8, <2>1 DEF Callbacks
<1>13. \A c \in Cids : c >= next_cid' => opened[c] = {} /\ ended[c] = {}
  BY <1>2, <1>3 DEF Callbacks, Cids
<1>14. UNCHANGED <<opened, ended, heard>>
  BY <1>2 DEF cbVars
<1>15. /\ \A c \in Cids : ended[c] \subseteq opened[c] /\ \A m, k \in opened[c] : m = k
       /\ heard # NoMessage => heard.sock \in opened[heard.cid]
  BY DEF Callbacks
<1> QED BY <1>10, <1>11, <1>12, <1>13, <1>14, <1>15 DEF Callbacks

LEMMA CbInit == Init => CbInv
<1> SUFFICES ASSUME Init PROVE Owner /\ Callbacks
  BY DEF CbInv
<1>1. \A n \in Socks : ~Alive(n)
  BY DEF Init, Alive
<1>2. \A i \in Slots : slot[i].cid = 0
  BY DEF Init, NoSlot
<1>3. next_cid = 1 /\ \A n \in Socks : cpc[n] = "none"
  BY DEF Init
<1>4. heard = NoMessage /\ \A c \in Cids : opened[c] = {} /\ ended[c] = {}
  BY DEF Init
<1> QED BY <1>1, <1>2, <1>3, <1>4 DEF Owner, Callbacks

LEMMA CbStep == TypeInv /\ CbInv /\ [Next]_vars => CbInv'
<1> SUFFICES ASSUME TypeInv, CbInv, [Next]_vars, ~overlap' PROVE Owner' /\ Callbacks'
  BY DEF CbInv
<1>1. overlap' = overlap \/ Accept
  BY ZenonT(60) DEF Next, vars, Refuse, Peer, PeerLeaves, ClientThread, TimeoutThread, Step, Handshake,
     HandshakeFails, ReadMessage, ReadPong, ReadClose, ReadInvalid, HandshakeEnds, ReadEnds,
     CloseAnswered, SetClosing, SendClose, OnClose, ReadCloseThrd, Join, CheckState,
     ClientCloses, ClientFindsClosed, ClientFrees, TimerStep, TimeoutPasses, TimeoutCloses,
     TimeoutFindsClosed, TimeoutFrees, Calls, Broadcast, SendCall, CloseCall, PingCall, Call,
     CallStep, Application, SendFrame, CloseFrame, CloseFrameFails, StartTimeout, NoTimeout,
     MarkTimeout, PingSkips, PingSends, PingCloses, PingFrees
<1>2. Accept => overlap' = (overlap \/ InUse(CHOOSE f \in Free : \A j \in Free : f <= j))
  BY DEF Accept
<1>3. Owner /\ Callbacks
  BY <1>1, <1>2 DEF CbInv, TypeInv, TypeOK
<1>4. CASE Accept
  BY <1>3, <1>4, AcceptCallbacks
<1>5. CASE Refuse
  <2>1. SameCids
    BY <1>5, CidsKept
  <2> QED BY <1>3, <1>5, <2>1, QuietCallbacks DEF Refuse
<1>6. ASSUME NEW n \in Socks, Peer(n) PROVE Owner' /\ Callbacks'
  <2>1. SameCids
    BY <1>6, CidsKept
  <2>2. CASE PeerLeaves(n)
    BY <1>3, <2>1, <2>2, QuietCallbacks DEF PeerLeaves
  <2>3. CASE HandshakeFails(n) \/ ReadClose(n) \/ ReadInvalid(n)
    BY <1>3, <2>1, <2>3, MovesCallbacks
    DEF HandshakeFails, ReadClose, ReadInvalid, threadOnly, Open, Past
  <2>4. CASE ReadPong(n)
    BY <1>3, <2>1, <2>4, MovesCallbacks DEF ReadPong, Open, Past
  <2> QED BY <1>3, <1>6, <2>1, <2>2, <2>3, <2>4, HandshakeCallbacks, MessageCallbacks DEF Peer
<1>7. ASSUME NEW n \in Socks, ClientThread(n) PROVE Owner' /\ Callbacks'
  <2>1. SameCids
    BY <1>7, CidsKept
  <2>2. CASE OnClose(n)
    BY <1>3, <2>1, <2>2, OnCloseCallbacks
  <2>3. CASE \/ HandshakeEnds(n) \/ ReadEnds(n) \/ CloseAnswered(n) \/ SetClosing(n)
             \/ SendClose(n) \/ ReadCloseThrd(n)
    BY <1>3, <2>1, <2>3, MovesCallbacks
    DEF HandshakeEnds, ReadEnds, CloseAnswered, SetClosing, SendClose, ReadCloseThrd, threadOnly,
        Open, Past
  <2>4. CASE \/ Join(n) \/ CheckState(n) \/ ClientCloses(n) \/ ClientFindsClosed(n)
             \/ ClientFrees(n)
    BY <1>3, <2>1, <2>4, MovesCallbacks
    DEF Join, CheckState, ClientCloses, ClientFindsClosed, ClientFrees, threadOnly, Open, Past
  <2> QED BY <1>7, <2>2, <2>3, <2>4 DEF ClientThread
<1>8. ASSUME NEW n \in Socks, TimeoutThread(n) PROVE Owner' /\ Callbacks'
  <2>1. SameCids
    BY <1>8, CidsKept
  <2>2. UNCHANGED <<accepted, cpc, cat, next_cid, cbVars>>
    BY <1>8
    DEF TimeoutThread, TimeoutPasses, TimeoutCloses, TimeoutFindsClosed, TimeoutFrees, TimerStep
  <2> QED BY <1>3, <2>1, <2>2, QuietCallbacks
<1>9. CASE Calls \/ Application
  <2>1. SameCids
    BY <1>9, CidsKept
  <2>2. UNCHANGED <<accepted, cpc, cat, next_cid, cbVars>>
    BY <1>9, AppSteps DEF Calls, Broadcast, SendCall, CloseCall, PingCall, Call, CallStep
  <2> QED BY <1>3, <2>1, <2>2, QuietCallbacks
<1>10. CASE UNCHANGED vars
  <2>1. SameCids /\ UNCHANGED <<accepted, cpc, cat, next_cid, cbVars>>
    BY <1>10 DEF vars, SameCids, cbVars
  <2> QED BY <1>3, <2>1, QuietCallbacks
<1> QED BY <1>4, <1>5, <1>6, <1>7, <1>8, <1>9, <1>10 DEF Next

(* With any number of slots, connections and calls: as long as no slot was *)
(* given on too early, the callbacks of a connection are made once each,   *)
(* by its own thread, onclose after onopen and before the thread ends, and *)
(* onmessage only between them, with what came over that connection.       *)
THEOREM CallbacksInPairs == Spec => []CallbacksPaired
<1>1. CbInv /\ TypeInv => CallbacksPaired
  <2> SUFFICES ASSUME TypeInv, Owner, Callbacks, NEW c \in Cids
               PROVE  /\ Cardinality(opened[c]) <= 1 /\ ended[c] \subseteq opened[c]
                      /\ heard.cid = c => heard.sock \in opened[c]
                      /\ \A n \in opened[c] : cpc[n] = "ended" => n \in ended[c]
    BY DEF CbInv, CallbacksPaired
  <2>1. Cardinality(opened[c]) <= 1
    <3>1. CASE opened[c] = {}
      BY <3>1, FS_EmptySet
    <3>2. CASE opened[c] # {}
      <4>1. PICK n : n \in opened[c]
        BY <3>2
      <4>2. opened[c] = {n}
        BY <4>1 DEF Callbacks
      <4> QED BY <4>2, FS_Singleton
    <3> QED BY <3>1, <3>2
  <2>2. heard.cid = c => heard # NoMessage
    BY Assumed DEF NoMessage, Cids
  <2> QED BY <2>1, <2>2 DEF Callbacks
<1> QED BY <1>1, CbInit, CbStep, TypeInvariance, PTL DEF Spec

=============================================================================
