---------------------------- MODULE WsConnection ----------------------------
(***************************************************************************)
(* The connections of the WebSocket library (ws.c): a fixed array of       *)
(* slots, one client thread per connection, the accepting thread, the      *)
(* threads that time a close handshake out, and one thread of the          *)
(* application that calls the library (in this server the one that runs    *)
(* eval_task; main.c only sends, the other calls are the library's).       *)
(*                                                                         *)
(* Threads refer to a slot by its address.  A slot that was given back is  *)
(* taken for the next connection, whoever still holds the address.         *)
(*                                                                         *)
(* Sockets are numbered in the order of accept.  Frames are read and sent  *)
(* whole (WsFrames has them); the locks of a slot are kept where they keep *)
(* a reader out (mtx_state around the start of a timeout thread, the       *)
(* global mutex around a ping of everybody).  A peer is up or gone; it     *)
(* sends when it likes, so that what a client thread reads is its choice.  *)
(***************************************************************************)
EXTENDS Integers, FiniteSets

CONSTANTS
  MAX_CLIENTS,  (* length of the array of slots                      *)
  MaxConns,     (* bound: connections                                *)
  MaxCalls,     (* bound: calls of the application                   *)
  Threshold     (* argument of ws_ping                               *)

ASSUME ConnectionAssumption ==
  /\ MAX_CLIENTS \in Nat \ {0}
  /\ MaxConns \in Nat /\ MaxCalls \in Nat
  /\ Threshold \in Nat \ {0}

Slots == 1 .. MAX_CLIENTS
Socks == 1 .. MaxConns
NoSock == 0        (* client_sock = -1 *)
Cids == 1 .. MaxConns

VARIABLES
  slot,      (* struct ws_connection of each slot                    *)
  accepted,  (* number of sockets accepted so far                    *)
  next_cid,  (* cid_generator                                        *)
  peer,      (* the other end of each socket                         *)
  closes,    (* how often each socket has been closed                *)
  cpc, cat,  (* the client thread of each socket, and its slot       *)
  tpc, tat,  (* its timeout thread, and the slot of that             *)
  app,       (* the application's call                               *)
  calls,     (* count against the bound                              *)
  opened, ended,  (* onopen, onclose: per cid, the sockets of the    *)
                  (* threads that made the call                      *)
  heard,     (* the last onmessage: cid it named, socket it was from *)
  sent,      (* the last frame sent: cid it was for, socket, kind    *)
  asked,     (* sockets the server itself has begun to close         *)
  overlap    (* a slot was given on while it was in use (history)    *)

netVars  == <<peer, closes>>
thrVars  == <<tpc, tat>>
cbVars   == <<opened, ended, heard>>
appVars  == <<app, calls, asked>>
vars == <<slot, accepted, next_cid, overlap, netVars, cpc, cat, thrVars, appVars, cbVars, sent>>

NoSlot == [sock |-> NoSock, cid |-> 0, state |-> "NONE", close_thrd |-> FALSE,
           thrd_tout |-> NoSock, ping |-> -1, pong |-> -1]
NoMessage == [cid |-> 0, sock |-> NoSock]
NoFrame == [cid |-> 0, sock |-> NoSock, kind |-> "NONE"]
Idle == [op |-> "idle", cid |-> 0, at |-> 1, todo |-> {}]

Init ==
  /\ slot = [i \in Slots |-> NoSlot]
  /\ accepted = 0 /\ next_cid = 1 /\ overlap = FALSE
  /\ peer = [n \in Socks |-> "none"] /\ closes = [n \in Socks |-> 0]
  /\ cpc = [n \in Socks |-> "none"] /\ cat = [n \in Socks |-> 1]
  /\ tpc = [n \in Socks |-> "none"] /\ tat = [n \in Socks |-> 1]
  /\ app = Idle /\ calls = 0 /\ asked = {}
  /\ opened = [c \in Cids |-> {}] /\ ended = [c \in Cids |-> {}]
  /\ heard = NoMessage /\ sent = NoFrame

-----------------------------------------------------------------------------
(* What the handlers share                                                 *)

Alive(n) == cpc[n] \notin {"none", "ended"}

Valid(i) == slot[i].sock # NoSock

StateIs(i, s) == Valid(i) /\ slot[i].state = s

(* mtx_state: held by the application while it starts a timeout thread.    *)
StateFree(i) == ~(app.op = "mark" /\ app.at = i)

(* The global mutex: held throughout a ping of everybody.                  *)
MutexFree == ~(app.op \in {"bping", "bping_free"})

SetState(i, s) == slot' = IF Valid(i) THEN [slot EXCEPT ![i].state = s] ELSE slot

(* get_client_by_cid: a closed slot keeps its cid and is found as well.    *)
Found(c) == {i \in Slots : slot[i].cid = c}
ByCid(c) == CHOOSE i \in Found(c) : \A j \in Found(c) : i <= j

(* The slot a ping of the application is at.                               *)
PingNext == CHOOSE i \in app.todo : \A j \in app.todo : i <= j

(* close_client up to the global mutex: state and socket.                  *)
CloseSocket(i) ==
  /\ slot' = [slot EXCEPT ![i].state = "CLOSED"]
  /\ closes' = [closes EXCEPT ![slot[i].sock] = @ + 1]

(* The rest of it: the slot is free for the next connection.               *)
FreeSlot(i) == slot' = [slot EXCEPT ![i].sock = NoSock]

(* send_all on whatever socket the slot has now.                           *)
SendTo(i, c, kind) ==
  sent' = IF Valid(i) THEN [cid |-> c, sock |-> slot[i].sock, kind |-> kind] ELSE sent

-----------------------------------------------------------------------------
(* The accepting thread and the peers                                      *)

(* A thread is still at work on the slot: that of its last connection, its *)
(* timeout thread, or one that closes it because of a ping.                *)
InUse(i) ==
  \/ \E m \in Socks : Alive(m) /\ cat[m] = i
  \/ \E m \in Socks : tpc[m] \notin {"none", "ended"} /\ tat[m] = i
  \/ app.op \in {"ping_free", "bping_free"} /\ PingNext = i

Free == {i \in Slots : ~Valid(i)}

Accept ==
  /\ accepted < MaxConns /\ Free # {} /\ MutexFree
  /\ LET i == CHOOSE f \in Free : \A j \in Free : f <= j
         n == accepted + 1
     IN /\ slot' = [slot EXCEPT ![i].sock = n, ![i].cid = next_cid,
                                ![i].state = "CONNECTING", ![i].close_thrd = FALSE,
                                ![i].ping = -1, ![i].pong = -1]
        /\ accepted' = n
        /\ overlap' = (overlap \/ InUse(i))
        /\ peer' = [peer EXCEPT ![n] = "up"]
        /\ cpc' = [cpc EXCEPT ![n] = "handshake"]
        /\ cat' = [cat EXCEPT ![n] = i]
  /\ next_cid' = next_cid + 1
  /\ UNCHANGED <<closes, thrVars, appVars, cbVars, sent>>

(* No slot: the new socket is closed at once, and gets no cid.             *)
Refuse ==
  /\ accepted < MaxConns /\ Free = {} /\ MutexFree
  /\ accepted' = accepted + 1
  /\ peer' = [peer EXCEPT ![accepted + 1] = "up"]
  /\ closes' = [closes EXCEPT ![accepted + 1] = 1]
  /\ UNCHANGED <<slot, next_cid, overlap, cpc, cat, thrVars, appVars, cbVars, sent>>

PeerLeaves(n) ==
  /\ peer[n] = "up"
  /\ peer' = [peer EXCEPT ![n] = "gone"]
  /\ UNCHANGED <<slot, accepted, next_cid, overlap, closes, cpc, cat, thrVars, appVars, cbVars, sent>>

-----------------------------------------------------------------------------
(* The client thread of socket n: ws_establishconnection.  It reads from   *)
(* the socket its slot has at that moment.                                 *)

Step(n, from, to) ==
  /\ cpc[n] = from
  /\ cpc' = [cpc EXCEPT ![n] = to]
  /\ UNCHANGED <<accepted, next_cid, overlap, peer, cat>>

Sends(n) == Valid(cat[n]) /\ peer[slot[cat[n]].sock] = "up" /\ closes[slot[cat[n]].sock] = 0

(* Nothing comes any more, or the read was on a socket that is closed.     *)
Silent(n) == ~Sends(n) \/ closes[n] > 0

Handshake(n) ==
  /\ Sends(n) /\ StateFree(cat[n])
  /\ Step(n, "handshake", "read")
  /\ SetState(cat[n], "OPEN")
  /\ opened' = [opened EXCEPT ![slot[cat[n]].cid] = @ \union {n}]
  /\ UNCHANGED <<closes, thrVars, appVars, ended, heard, sent>>

threadOnly == UNCHANGED <<slot, closes, thrVars, appVars, cbVars, sent>>

(* A bad request: no onopen, and no onclose.                               *)
HandshakeFailsLate(n) ==    (* a mutant: the error path joins the loop's *)
  Sends(n) /\ Step(n, "handshake", "onclose") /\ threadOnly

HandshakeFails(n) == Sends(n) /\ Step(n, "handshake", "closed") /\ threadOnly

HandshakeEndsAtOnce(n) ==   (* a mutant: returns without closing *)
  Silent(n) /\ Step(n, "handshake", "ended") /\ threadOnly

HandshakeEnds(n) == Silent(n) /\ Step(n, "handshake", "closed") /\ threadOnly

ReadMessage(n) ==
  /\ Sends(n) /\ StateFree(cat[n]) /\ slot[cat[n]].state # "CLOSING"
  /\ Step(n, "read", "read")
  /\ heard' = [cid |-> slot[cat[n]].cid, sock |-> slot[cat[n]].sock]
  /\ UNCHANGED <<slot, closes, thrVars, appVars, opened, ended, sent>>

ReadPongAnyId(n) ==   (* a mutant: no comparison with the last id sent *)
  /\ Sends(n) /\ StateFree(cat[n]) /\ slot[cat[n]].state # "CLOSING"
  /\ Step(n, "read", "read")
  /\ \E id \in 0 .. MaxCalls : slot' = [slot EXCEPT ![cat[n]].pong = id]
  /\ UNCHANGED <<closes, thrVars, appVars, cbVars, sent>>

(* handle_pong_frame: any id up to the last one sent is believed.          *)
ReadPong(n) ==
  /\ Sends(n) /\ StateFree(cat[n]) /\ slot[cat[n]].state # "CLOSING"
  /\ Step(n, "read", "read")
  /\ \E id \in 0 .. slot[cat[n]].ping : slot' = [slot EXCEPT ![cat[n]].pong = id]
  /\ UNCHANGED <<closes, thrVars, appVars, cbVars, sent>>

ReadClose(n) == Sends(n) /\ Step(n, "read", "got_close") /\ threadOnly

(* A frame that is not valid, or not a close frame where only one is.      *)
ReadInvalid(n) == Sends(n) /\ Step(n, "read", "onclose") /\ threadOnly
ReadEnds(n) == Silent(n) /\ Step(n, "read", "onclose") /\ threadOnly

CloseAnswered(n) ==
  /\ StateFree(cat[n])
  /\ Step(n, "got_close", IF StateIs(cat[n], "CLOSING") THEN "onclose" ELSE "set_closing")
  /\ threadOnly

SetClosing(n) ==
  /\ StateFree(cat[n])
  /\ Step(n, "set_closing", "send_close")
  /\ SetState(cat[n], "CLOSING")
  /\ UNCHANGED <<closes, thrVars, appVars, cbVars, sent>>

(* do_close: the frame is sent to the cid the slot has now.                *)
SendClose(n) ==
  /\ Step(n, "send_close", "onclose")
  /\ SendTo(cat[n], slot[cat[n]].cid, "CLSE")
  /\ UNCHANGED <<slot, closes, thrVars, appVars, cbVars>>

OnClose(n) ==
  /\ Step(n, "onclose", "closed")
  /\ ended' = [ended EXCEPT ![slot[cat[n]].cid] = @ \union {n}]
  /\ UNCHANGED <<slot, closes, thrVars, appVars, opened, heard, sent>>

(* close_thrd is read without a lock.  (The signal that follows wakes the  *)
(* timeout thread for nothing: its loop waits on for the state CLOSED.)    *)
ReadCloseThrd(n) ==
  Step(n, "closed", IF slot[cat[n]].close_thrd THEN "join" ELSE "check") /\ threadOnly

Join(n) ==
  /\ Step(n, "join", "check") /\ threadOnly
  /\ tpc[slot[cat[n]].thrd_tout] = "ended"

CheckState(n) ==
  /\ StateFree(cat[n])
  /\ Step(n, "check", IF StateIs(cat[n], "CLOSED") THEN "ended" ELSE "close")
  /\ threadOnly

ClientCloses(n) ==
  /\ Valid(cat[n]) /\ StateFree(cat[n])
  /\ Step(n, "close", "free")
  /\ CloseSocket(cat[n])
  /\ UNCHANGED <<thrVars, appVars, cbVars, sent>>

ClientFindsClosed(n) == ~Valid(cat[n]) /\ Step(n, "close", "ended") /\ threadOnly

ClientFrees(n) ==
  /\ MutexFree
  /\ Step(n, "free", "ended")
  /\ FreeSlot(cat[n])
  /\ UNCHANGED <<closes, thrVars, appVars, cbVars, sent>>

-----------------------------------------------------------------------------
(* The timeout thread of socket n: close_timeout.  It may run at any time  *)
(* once TIMEOUT_MS are over, and time is not measured here.                *)

TimerStep(n, from, to) ==
  /\ tpc[n] = from
  /\ tpc' = [tpc EXCEPT ![n] = to]
  /\ UNCHANGED <<accepted, next_cid, overlap, peer, cpc, cat, tat, appVars, cbVars, sent>>

TimeoutPassesIdle(n) ==   (* a mutant: closes OPEN connections only *)
  /\ StateFree(tat[n])
  /\ TimerStep(n, "wait", IF slot[tat[n]].state # "OPEN" THEN "ended" ELSE "close")
  /\ UNCHANGED <<slot, closes>>

TimeoutPasses(n) ==
  /\ StateFree(tat[n])
  /\ TimerStep(n, "wait", IF slot[tat[n]].state = "CLOSED" THEN "ended" ELSE "close")
  /\ UNCHANGED <<slot, closes>>

TimeoutCloses(n) ==
  /\ Valid(tat[n]) /\ StateFree(tat[n])
  /\ TimerStep(n, "close", "free")
  /\ CloseSocket(tat[n])

TimeoutFindsClosed(n) ==
  /\ ~Valid(tat[n])
  /\ TimerStep(n, "close", "ended")
  /\ UNCHANGED <<slot, closes>>

TimeoutFrees(n) ==
  /\ MutexFree
  /\ TimerStep(n, "free", "ended")
  /\ FreeSlot(tat[n])
  /\ UNCHANGED closes

-----------------------------------------------------------------------------
(* The application's calls, one at a time.  They name a connection by its  *)
(* cid and go on with the address of its slot.                             *)

CallStep(to) ==
  /\ app' = to
  /\ UNCHANGED <<accepted, next_cid, overlap, peer, cpc, cat, cbVars>>

Call(op, c, todo) ==
  /\ app = Idle /\ calls < MaxCalls
  /\ calls' = calls + 1
  /\ CallStep([op |-> op, cid |-> c, at |-> IF Found(c) = {} THEN 1 ELSE ByCid(c), todo |-> todo])
  /\ UNCHANGED <<slot, closes, thrVars, asked, sent>>

Known(c) == Found(c) # {} /\ Valid(ByCid(c))

SendCall(c) == Known(c) /\ Call("send", c, {})
CloseCall(c) == Known(c) /\ Call("clse", c, {})

(* ws_ping: a cid that no slot has any more means everybody.               *)
PingCall(c) ==
  IF Found(c) = {} THEN Call("bping", c, Slots) ELSE Call("ping", c, {ByCid(c)})

SendFrame ==
  /\ app.op = "send"
  /\ CallStep(Idle)
  /\ SendTo(app.at, app.cid, "DATA")
  /\ UNCHANGED <<slot, closes, thrVars, calls, asked>>

(* ws_sendframe_bcast: the open connections in order, up to a failure (the *)
(* last one served is what sent shows).                                    *)
Broadcast ==
  /\ app = Idle /\ calls < MaxCalls
  /\ calls' = calls + 1
  /\ CallStep(Idle)
  /\ \E i \in {j \in Slots : StateIs(j, "OPEN")} : SendTo(i, slot[i].cid, "DATA")
  /\ UNCHANGED <<slot, closes, thrVars, asked>>

(* ws_close_client looks the cid up a second time to send the close frame. *)
CloseFrame ==
  /\ app.op = "clse" /\ Known(app.cid)
  /\ CallStep([app EXCEPT !.op = "start"])
  /\ SendTo(ByCid(app.cid), app.cid, "CLSE")
  /\ UNCHANGED <<slot, closes, thrVars, calls, asked>>

CloseFrameFails ==
  /\ app.op = "clse"
  /\ CallStep(Idle)
  /\ UNCHANGED <<slot, closes, thrVars, calls, asked, sent>>

(* start_close_timeout                                                     *)
StartTimeout ==
  /\ app.op = "start" /\ StateIs(app.at, "OPEN")
  /\ CallStep([app EXCEPT !.op = "mark"])
  /\ LET n == slot[app.at].sock
     IN /\ slot' = [slot EXCEPT ![app.at].state = "CLOSING", ![app.at].thrd_tout = n]
        /\ tpc' = [tpc EXCEPT ![n] = "wait"]
        /\ tat' = [tat EXCEPT ![n] = app.at]
        /\ asked' = asked \union {n}
  /\ UNCHANGED <<closes, calls, sent>>

NoTimeout ==
  /\ app.op = "start" /\ ~StateIs(app.at, "OPEN")
  /\ CallStep(Idle)
  /\ UNCHANGED <<slot, closes, thrVars, calls, asked, sent>>

MarkTimeout ==
  /\ app.op = "mark"
  /\ CallStep(Idle)
  /\ slot' = [slot EXCEPT ![app.at].close_thrd = TRUE]
  /\ UNCHANGED <<closes, thrVars, calls, asked, sent>>

(* send_ping_close, slot by slot                                           *)
Pinged(op) == IF app.todo = {PingNext} THEN Idle
              ELSE [app EXCEPT !.op = op, !.todo = @ \ {PingNext}]

PingSkips ==
  /\ app.op \in {"ping", "bping"} /\ ~StateIs(PingNext, "OPEN")
  /\ CallStep(Pinged(app.op))
  /\ UNCHANGED <<slot, closes, thrVars, calls, asked, sent>>

Unanswered == slot[PingNext].ping + 1 - slot[PingNext].pong

PingSends ==
  /\ app.op \in {"ping", "bping"} /\ StateIs(PingNext, "OPEN") /\ Unanswered <= Threshold
  /\ CallStep(Pinged(app.op))
  /\ slot' = [slot EXCEPT ![PingNext].ping = @ + 1]
  /\ SendTo(PingNext, slot[PingNext].cid, "PING")
  /\ UNCHANGED <<closes, thrVars, calls, asked>>

PingCloses ==
  /\ app.op \in {"ping", "bping"} /\ StateIs(PingNext, "OPEN") /\ Unanswered > Threshold
  /\ CallStep([app EXCEPT !.op = IF @ = "ping" THEN "ping_free" ELSE "bping_free"])
  /\ slot' = [slot EXCEPT ![PingNext].ping = @ + 1, ![PingNext].state = "CLOSED"]
  /\ closes' = [closes EXCEPT ![slot[PingNext].sock] = @ + 1]
  /\ asked' = asked \union {slot[PingNext].sock}
  /\ SendTo(PingNext, slot[PingNext].cid, "PING")
  /\ UNCHANGED <<thrVars, calls>>

PingFrees ==
  /\ app.op \in {"ping_free", "bping_free"}
  /\ CallStep(Pinged(IF app.op = "ping_free" THEN "ping" ELSE "bping"))
  /\ FreeSlot(PingNext)
  /\ UNCHANGED <<closes, thrVars, calls, asked, sent>>

-----------------------------------------------------------------------------
(* What a client thread does of its own accord, and what its peer decides. *)
ClientThread(n) ==
  \/ HandshakeEnds(n) \/ ReadEnds(n)
  \/ CloseAnswered(n) \/ SetClosing(n) \/ SendClose(n) \/ OnClose(n)
  \/ ReadCloseThrd(n) \/ Join(n) \/ CheckState(n)
  \/ ClientCloses(n) \/ ClientFindsClosed(n) \/ ClientFrees(n)

Peer(n) ==
  \/ PeerLeaves(n)
  \/ Handshake(n) \/ HandshakeFails(n)
  \/ ReadMessage(n) \/ ReadPong(n) \/ ReadClose(n) \/ ReadInvalid(n)

TimeoutThread(n) ==
  TimeoutPasses(n) \/ TimeoutCloses(n) \/ TimeoutFindsClosed(n) \/ TimeoutFrees(n)

Calls == Broadcast \/ \E c \in Cids : SendCall(c) \/ CloseCall(c) \/ PingCall(c)

Application ==
  \/ SendFrame
  \/ CloseFrame \/ CloseFrameFails \/ StartTimeout \/ NoTimeout \/ MarkTimeout
  \/ PingSkips \/ PingSends \/ PingCloses \/ PingFrees

Next ==
  \/ Accept \/ Refuse
  \/ \E n \in Socks : Peer(n) \/ ClientThread(n) \/ TimeoutThread(n)
  \/ Calls \/ Application

Spec == Init /\ [][Next]_vars

(* Threads with work to do are scheduled and TIMEOUT_MS pass; no peer and  *)
(* no application owes anything, but a call that was begun goes on.        *)
Fairness ==
  /\ \A n \in Socks : WF_vars(ClientThread(n)) /\ WF_vars(TimeoutThread(n))
  /\ WF_vars(Application)

FairSpec == Spec /\ Fairness

-----------------------------------------------------------------------------
(* Properties                                                              *)

States == {"NONE", "CONNECTING", "OPEN", "CLOSING", "CLOSED"}

SlotOK ==
  slot \in [Slots -> [sock : Socks \union {NoSock}, cid : Cids \union {0}, state : States,
                      close_thrd : BOOLEAN, thrd_tout : Socks \union {NoSock},
                      ping : -1 .. MaxCalls - 1, pong : -1 .. MaxCalls - 1]]

ThreadsOK ==
  /\ cpc \in [Socks -> {"none", "handshake", "read", "got_close", "set_closing", "send_close",
                       "onclose", "closed", "join", "check", "close", "free", "ended"}]
  /\ tpc \in [Socks -> {"none", "wait", "close", "free", "ended"}]
  /\ cat \in [Socks -> Slots] /\ tat \in [Socks -> Slots]

AppOK ==
  /\ app.op \in {"idle", "send", "clse", "start", "mark", "ping", "bping", "ping_free",
                 "bping_free"}
  /\ app.cid \in Cids \union {0} /\ app.at \in Slots /\ app.todo \subseteq Slots
  /\ calls \in 0 .. MaxCalls /\ asked \subseteq Socks

TypeOK ==
  /\ SlotOK /\ ThreadsOK /\ AppOK
  /\ overlap \in BOOLEAN
  /\ accepted \in 0 .. MaxConns /\ next_cid \in 1 .. accepted + 1
  /\ peer \in [Socks -> {"none", "up", "gone"}] /\ closes \in [Socks -> Nat]
  /\ \A cb \in {opened, ended} : cb \in [Cids -> SUBSET Socks]
  /\ heard \in [cid : Cids, sock : Socks] \union {NoMessage}
  /\ sent \in [cid : Cids, sock : Socks, kind : {"DATA", "CLSE", "PING"}] \union {NoFrame}

(* main.c never closes a connection by itself.  Then no slot is shared,    *)
(* and every socket is closed exactly once: by its thread, at its end, or  *)
(* on the spot when there was no slot for it.                              *)
OneClose ==
  asked = {} =>
    /\ ~overlap
    /\ \A n \in Socks :
         closes[n] = IF n > accepted \/ (Alive(n) /\ cpc[n] # "free") THEN 0 ELSE 1

(* Callbacks come in pairs, whoever closes: as long as no slot was given   *)
(* on too early, onclose follows onopen, each is made once, by the         *)
(* connection's own thread and before it ends, and what onmessage is told  *)
(* came from that connection.                                              *)
CallbacksPaired ==
  ~overlap =>
    \A c \in Cids :
      /\ Cardinality(opened[c]) <= 1 /\ ended[c] \subseteq opened[c]
      /\ heard.cid = c => heard.sock \in opened[c]
      /\ \A n \in opened[c] : cpc[n] = "ended" => n \in ended[c]

(* A socket is closed in the end and its slot is free again when its peer  *)
(* has left, and when the server has begun to close it, even if the peer   *)
(* never answers: a slot that stays taken would keep every later client    *)
(* out.  (A slot given on too early may lose its socket.)                  *)
SlotComesFree ==
  \A n \in Socks :
    peer[n] = "gone" \/ n \in asked
      ~> overlap \/ (closes[n] > 0 /\ \A i \in Slots : slot[i].sock # n)

=============================================================================
