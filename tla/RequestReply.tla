---------------------------- MODULE RequestReply ----------------------------
(***************************************************************************)
(* What the DHT service promises about the queries it sends, with no       *)
(* pending table, channel, timer or goroutine in it.                       *)
(*                                                                         *)
(* A request is asked of one address.  At most one packet is ever accepted *)
(* for it, and only a packet that comes from that address with the         *)
(* request's transaction id.  The caller closes the request once, either   *)
(* with the packet that was accepted or empty-handed; a packet may still   *)
(* be accepted after the caller gave up (it is then never looked at).      *)
(***************************************************************************)
EXTENDS Integers

CONSTANTS MaxReq,  \* requests are numbered 1 .. MaxReq in the order they are asked
          TxIds,   \* transaction ids
          Addrs,   \* remote UDP addresses
          None     \* "nothing here"

Requests == 1 .. MaxReq
Query    == [tx : TxIds, addr : Addrs]
Packet   == [tx : TxIds, addr : Addrs, re : Requests \cup {None}]

VARIABLES asked,     \* asked[r]: the query, or None while r was never asked
          accepted,  \* accepted[r]: the packet accepted for r, or None
          result     \* "open" until the caller returns, then how it returned

absVars == <<asked, accepted, result>>

AbsInit == /\ asked = [r \in Requests |-> None]
           /\ accepted = [r \in Requests |-> None]
           /\ result = [r \in Requests |-> "open"]

Ask(r, q) == /\ asked[r] = None
             /\ asked' = [asked EXCEPT ![r] = q]
             /\ UNCHANGED <<accepted, result>>

Accept(r, p) == /\ asked[r] # None
                /\ accepted[r] = None
                /\ p.tx = asked[r].tx
                /\ p.addr = asked[r].addr
                /\ accepted' = [accepted EXCEPT ![r] = p]
                /\ UNCHANGED <<asked, result>>

CloseAnswered(r) == /\ result[r] = "open"
                    /\ accepted[r] # None
                    /\ result' = [result EXCEPT ![r] = "answered"]
                    /\ UNCHANGED <<asked, accepted>>

CloseFailed(r) == /\ result[r] = "open"
                  /\ asked[r] # None
                  /\ result' = [result EXCEPT ![r] = "failed"]
                  /\ UNCHANGED <<asked, accepted>>

AbsNext == \E r \in Requests :
              \/ \E q \in Query : Ask(r, q)
              \/ \E p \in Packet : Accept(r, p)
              \/ CloseAnswered(r)
              \/ CloseFailed(r)

AbsSpec == AbsInit /\ [][AbsNext]_absVars
=============================================================================
