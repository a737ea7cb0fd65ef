------------------------------ MODULE Transport ------------------------------
(***************************************************************************)
(* cb_transport_t of src/cbase_transport.c over the network simulator: a   *)
(* program sends and receives through transports, each of which wraps the  *)
(* handle of an endpoint, and manages the net itself.  The calls on a      *)
(* transport without operations are refused before they reach the net and  *)
(* are left out; the adapter for UDP hands on what the socket answers.     *)
(***************************************************************************)
EXTENDS Netsim

CONSTANT Caps      \* the buffer sizes of the receiver

VARIABLES
  open,    \* the addresses whose transport wraps a handle that points to the net
  reply    \* what the last call of a transport returned

transportVars == << vars, open, reply >>

NoReply == [op |-> "none", at |-> "nobody", info |-> "OK", bytes |-> 0]

(* The program has a cb_netsim_endpoint_t for every address, zeroed until  *)
(* its first bind: the pointer to the net is null, as it is after a        *)
(* refused bind or cb_netsim_close.                                        *)
TransportInit ==
  /\ Init
  /\ open = {}
  /\ reply = NoReply

(* The adapter reports the whole size or nothing.                          *)
SendReply(dest, info, len) ==
  reply' = [op |-> "send", at |-> dest, info |-> info,
            bytes |-> IF info = "OK" THEN len ELSE 0]

(* A send that cb_netsim_send_to refuses touches nothing; the handle is    *)
(* looked at before the size.                                              *)
SendRefused(from, dest, len) ==
  /\ \/ /\ from \notin open
        /\ SendReply(dest, "GENERIC_ERROR", len)
     \/ /\ from \in open
        /\ len > MaxDatagramBytes
        /\ SendReply(dest, "NETSIM_PAYLOAD_TOO_LARGE", len)
  /\ UNCHANGED << vars, open >>

TransportSend(from, dest, len) ==
  \/ SendRefused(from, dest, len)
  \/ /\ from \in open
     /\ \/ /\ \/ SendToNobody(dest, len)
              \/ SendToFull(dest, len)
              \/ SendDropped(dest, len)
              \/ Send(dest, len)
              \/ SendTwice(dest, len)
           /\ SendReply(dest, "OK", len)
        \/ /\ SendFails(dest, len) \/ SendTwiceFails(dest, len)
           /\ SendReply(dest, "NETSIM_ALLOC_FAILED", len)
     /\ UNCHANGED open

(* What waits at an address: nothing if no endpoint is bound to it.        *)
Waiting(a) == IF a \in Bound THEN endpoints[a].ready ELSE << >>

(* What recv_from answers for a buffer of cap bytes.                       *)
RecvInfo(a, cap) ==
  IF a \notin open THEN "GENERIC_ERROR"
  ELSE IF Waiting(a) = << >> THEN "NETSIM_EMPTY"
  ELSE IF Head(Waiting(a)).len > cap THEN "NETSIM_BUF_TOO_SMALL"
  ELSE "OK"

Surfaced(info) == IF info = "NETSIM_EMPTY" THEN "NET_WOULD_BLOCK" ELSE info

(* What a receive that answers info reports of the datagram at the head.   *)
RecvReply(a, info) ==
  reply' = [op |-> "recv", at |-> a, info |-> Surfaced(info),
            bytes |-> IF info = "OK" THEN Head(endpoints[a].ready).len ELSE 0]

(* Mutant: a datagram that does not fit is lost, as with a datagram socket. *)
TransportRecvLoses(a, cap) ==
  LET info == RecvInfo(a, cap)
  IN  /\ IF info \in {"OK", "NETSIM_BUF_TOO_SMALL"} THEN Recv(a) ELSE UNCHANGED vars
      /\ RecvReply(a, info)
      /\ UNCHANGED open

TransportRecv(a, cap) ==
  LET info == RecvInfo(a, cap)
  IN  /\ IF info = "OK" THEN Recv(a) ELSE UNCHANGED vars
      /\ RecvReply(a, info)
      /\ UNCHANGED open

(* Closing the transport leaves the endpoint bound and the handle open.    *)
TransportClose(a) ==
  /\ reply' = NoReply
  /\ UNCHANGED << vars, open >>

(***************************************************************************)
(* The program's own calls on the net.                                     *)
(***************************************************************************)

(* The program binds an endpoint and stores the answer in the handle of    *)
(* its transport or in another one.  A bind that is refused, because the   *)
(* address is bound or there is no memory, answers a null handle.          *)
BindHandle(a) ==
  \/ /\ Bind(a)
     /\ open' \in {open, open \cup {a}}
  \/ /\ open' = open \ {a}
     /\ UNCHANGED vars

(* The endpoint is closed through the transport's own handle, or through a *)
(* copy of it, which leaves the transport with one that is stale.  Closing *)
(* a stale handle closes whatever is bound to the address now.             *)
CloseHandle(a) ==
  \/ /\ a \in open
     /\ open' = open \ {a}
     /\ IF a \in Bound THEN Close(a) ELSE UNCHANGED vars
  \/ Close(a) /\ UNCHANGED open

(* A handle points to the program's cb_netsim_t, so that it outlives the   *)
(* net that was in it.                                                     *)
ManageNet ==
  /\ \/ /\ \/ Step
           \/ Flush
           \/ \E p \in ParamSets : SetParams(p) \/ DestroyAndCreate(p)
           \/ \E t \in 0..MaxTime : SetClock(t)
        /\ UNCHANGED open
     \/ \E a \in Addrs : BindHandle(a) \/ CloseHandle(a)
  /\ reply' = NoReply

TransportNext ==
  \/ \E from, dest \in Addrs, len \in Lens : TransportSend(from, dest, len)
  \/ \E a \in Addrs, cap \in Caps : TransportRecv(a, cap)
  \/ \E a \in Addrs : TransportClose(a)
  \/ ManageNet

TransportSpec == TransportInit /\ [][TransportNext]_transportVars

-----------------------------------------------------------------------------
UnderWay(a) == To(pending, a) \o Waiting(a)

(* The replies a polling consumer goes by say what happened in the net.    *)
(* A receive answers WOULD_BLOCK exactly when the transport's handle is    *)
(* open and nothing is ready, be it that the endpoint was closed through   *)
(* another handle: polling until then drains the endpoint.  The sizes      *)
(* received are the bytes that leave the net, one datagram at a time, and  *)
(* a receive that is refused takes nothing, so that it can be repeated     *)
(* with a larger buffer.  A send that succeeds has put none, one or two    *)
(* copies under way; one that fails reports no byte, and either an         *)
(* allocation failed or no queue and no counter of the net has changed.    *)
ReplyTells(a) ==
  LET was == UnderWay(a)
      is == UnderWay(a)'
  IN  reply'.at = a =>
        /\ reply'.op = "recv" =>
             /\ reply'.info = "NET_WOULD_BLOCK" <=>
                  a \in open /\ Waiting(a) = << >>
             /\ IF reply'.info = "OK"
                THEN /\ BytesOf(was) = BytesOf(is) + reply'.bytes
                     /\ Len(was) = Len(is) + 1
                ELSE reply'.bytes = 0 /\ UNCHANGED vars
        /\ reply'.op = "send" =>
             IF reply'.info = "OK"
             THEN BytesOf(is) - BytesOf(was) \in {0, reply'.bytes, 2 * reply'.bytes}
             ELSE /\ reply'.bytes = 0
                  /\ IF reply'.info = "NETSIM_ALLOC_FAILED" THEN faults' > faults
                     ELSE UNCHANGED vars

RepliesTell == [][\A a \in Addrs : ReplyTells(a)]_transportVars
=============================================================================
