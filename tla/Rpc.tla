--------------------------------- MODULE Rpc ---------------------------------
(***************************************************************************)
(* JSON-RPC over TCP (core/rpc-server.ts, core/rpc-client.ts): half-closed *)
(* connections, replies that end the socket, the idle timeout and the stop *)
(* of the server.  A caller is an RpcClient (one request on its own        *)
(* connection, never half-closed); a pipe is a tool such as nc, which may  *)
(* write more than one line and closes its side when its input ends.       *)
(***************************************************************************)
EXTENDS Naturals

CONSTANTS Callers, Pipes, MaxLines  \* MaxLines bounds the lines of a pipe

RpcAssumption == MaxLines \in Nat

VARIABLES
    up,       \* the server is listening
    client,   \* each client's side
    asked,    \* requests it has written
    partial,  \* ... and a last line without its newline
    fin,      \* it has closed its side: "no", "sent", "seen" by the server
    wire,     \* requests that the server has not read
    sock,     \* the server's side of the connection
    pending,  \* the server's in-flight bus calls
    written,  \* replies whose write callback has not run
    back,     \* replies on their way to the client
    got       \* replies that the client has read

vars == <<up, client, asked, partial, fin, wire, sock, pending, written, back, got>>

Conns == Callers \cup Pipes

TypeOK ==
    /\ up \in BOOLEAN
    /\ client \in [Conns -> {"idle", "connecting", "waiting", "answered", "failed"}]
    /\ partial \in [Conns -> BOOLEAN]
    /\ fin \in [Conns -> {"no", "sent", "seen"}]
    /\ sock \in [Conns -> {"none", "open", "ended", "dropped"}]
    /\ {asked, wire, pending, written, back, got} \subseteq [Conns -> 0..MaxLines]

Zero == [c \in Conns |-> 0]

Init ==
    /\ up = TRUE
    /\ client = [c \in Conns |-> "idle"]
    /\ partial = [c \in Conns |-> FALSE]
    /\ fin = [c \in Conns |-> "no"]
    /\ sock = [c \in Conns |-> "none"]
    /\ asked = Zero /\ wire = Zero /\ pending = Zero
    /\ written = Zero /\ back = Zero /\ got = Zero

Call(c) ==
    /\ client[c] = "idle"
    /\ client' = [client EXCEPT ![c] = "connecting"]
    /\ UNCHANGED <<up, asked, partial, fin, wire, sock, pending, written, back, got>>

(* 'connect': the connect timeout is lifted and the request goes out.       *)
Accept(c, n, cut) ==
    /\ up /\ client[c] = "connecting"
    /\ c \in Callers => n = 1 /\ ~cut
    /\ sock' = [sock EXCEPT ![c] = "open"]
    /\ client' = [client EXCEPT ![c] = "waiting"]
    /\ asked' = [asked EXCEPT ![c] = n]
    /\ wire' = [wire EXCEPT ![c] = n]
    /\ partial' = [partial EXCEPT ![c] = cut]
    /\ UNCHANGED <<up, fin, pending, written, back, got>>

(* Refused, reset, or not connected within two seconds: fail().             *)
ConnectFails(c) ==
    /\ client[c] = "connecting"
    /\ client' = [client EXCEPT ![c] = "failed"]
    /\ UNCHANGED <<up, asked, partial, fin, wire, sock, pending, written, back, got>>

HalfClose(c) ==
    /\ c \in Pipes /\ client[c] # "connecting" /\ sock[c] # "none" /\ fin[c] = "no"
    /\ fin' = [fin EXCEPT ![c] = "sent"]
    /\ UNCHANGED <<up, client, asked, partial, wire, sock, pending, written, back, got>>

(* 'data': one or more complete lines, each handed to handleLine.           *)
Read(c, n) ==
    /\ sock[c] \in {"open", "ended"} /\ wire[c] >= n
    /\ wire' = [wire EXCEPT ![c] = @ - n]
    /\ pending' = [pending EXCEPT ![c] = @ + n]
    /\ UNCHANGED <<up, client, asked, partial, fin, sock, written, back, got>>

(* Fault: the client's FIN closes the server's side at once.                *)
ReadEndClosing(c) ==
    /\ sock[c] \in {"open", "ended"} /\ fin[c] = "sent" /\ wire[c] = 0
    /\ fin' = [fin EXCEPT ![c] = "seen"]
    /\ sock' = [sock EXCEPT ![c] = "ended"]
    /\ UNCHANGED <<up, client, asked, partial, wire, pending, written, back, got>>

(* 'end': with nothing in flight and nothing buffered the server closes.    *)
ReadEnd(c) ==
    /\ sock[c] \in {"open", "ended"} /\ fin[c] = "sent" /\ wire[c] = 0
    /\ fin' = [fin EXCEPT ![c] = "seen"]
    /\ sock' = IF pending[c] > 0 \/ partial[c] THEN sock ELSE [sock EXCEPT ![c] = "ended"]
    /\ UNCHANGED <<up, client, asked, partial, wire, pending, written, back, got>>

(* handleLine: the call settles and its result or error is written, unless  *)
(* the socket was ended by an earlier reply.                                *)
HandleLine(c) ==
    /\ pending[c] > 0
    /\ pending' = [pending EXCEPT ![c] = @ - 1]
    /\ written' = IF sock[c] = "open" THEN [written EXCEPT ![c] = @ + 1] ELSE written
    /\ UNCHANGED <<up, client, asked, partial, fin, wire, sock, back, got>>

(* The write callback of reply(): the reply is out, and the socket ends.    *)
Flushed(c) ==
    /\ sock[c] \in {"open", "ended"} /\ written[c] > 0
    /\ back' = [back EXCEPT ![c] = @ + written[c]]
    /\ written' = [written EXCEPT ![c] = 0]
    /\ sock' = [sock EXCEPT ![c] = "ended"]
    /\ UNCHANGED <<up, client, asked, partial, fin, wire, pending, got>>

(* A caller settles with the first line and closes; a pipe prints them all. *)
Receive(c) ==
    /\ back[c] > 0
    /\ back' = [back EXCEPT ![c] = @ - 1]
    /\ got' = [got EXCEPT ![c] = @ + 1]
    /\ client' = [client EXCEPT ![c] = "answered"]
    /\ UNCHANGED <<up, asked, partial, fin, wire, sock, pending, written>>

(* The idle timeout of the server's socket; a call may still be running.    *)
SocketTimeout(c) ==
    /\ sock[c] \in {"open", "ended"}
    /\ sock' = [sock EXCEPT ![c] = "dropped"]
    /\ UNCHANGED <<up, client, asked, partial, fin, wire, pending, written, back, got>>

(* rpcStop: no new connection, every live one destroyed.                    *)
Stop ==
    /\ up
    /\ up' = FALSE
    /\ sock' = [c \in Conns |-> IF sock[c] = "none" THEN "none" ELSE "dropped"]
    /\ UNCHANGED <<client, asked, partial, fin, wire, pending, written, back, got>>

Progress(c) ==
    \/ \E n \in 1..MaxLines, cut \in BOOLEAN : Accept(c, n, cut)
    \/ ConnectFails(c) \/ ReadEnd(c) \/ HandleLine(c) \/ Flushed(c) \/ Receive(c)
    \/ \E n \in 1..MaxLines : Read(c, n)
    \/ SocketTimeout(c)

Next == Stop \/ \E c \in Conns : Call(c) \/ HalfClose(c) \/ Progress(c)

Spec == Init /\ [][Next]_vars

(* The server never ends a connection before the reply to its only request  *)
(* is on the way, whether or not the client has closed its side by then.    *)
(* With a second request pipelined behind it there is no such promise: the  *)
(* first reply ends the socket.                                             *)
EndsAfterReply ==
    \A c \in Conns : asked[c] = 1 /\ sock[c] = "ended" => written[c] + back[c] + got[c] = 1
=============================================================================
