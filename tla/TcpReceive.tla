----------------------------- MODULE TcpReceive -----------------------------
(***************************************************************************)
(* CTCPServer::Receive and CTCPClient::Receive (Network/include/Socket):   *)
(* one call takes one frame out of a stream of bytes.  Each recv gives as  *)
(* many of the bytes that are there as the network likes, so a frame       *)
(* arrives in any number of pieces.                                        *)
(*                                                                         *)
(* The stream is known by the payload sizes of the frames written to it,   *)
(* and a place in it by the number of bytes before it.  A frame's four     *)
(* size bytes and four id bytes are those of NetFrame; a payload byte is 1.*)
(***************************************************************************)
EXTENDS NetFrame, Sequences

CONSTANTS Sizes,      \* payload sizes in use
          MaxFrames,  \* bound on the frames written
          BufSize,    \* PACKET_SIZE, the size that Receive is called with
          MaxTries    \* the 1000 of the retry after WSAENOBUFS

ASSUME SizesAssumption ==
    /\ Sizes \subseteq 0 .. ByteMax - 8
    /\ MaxFrames \in Nat /\ MaxTries \in Nat
    /\ BufSize \in Nat /\ BufSize > ByteMax

VARIABLES
    frames,  \* payload sizes of the frames written
    wr,      \* bytes written to the stream
    peer,    \* what the sender did with the connection
    rd,      \* bytes taken out of the stream by recv
    pc,      \* where Receive is
    start,   \* where in the stream this call of Receive began
    total,   \* total, from which every failing recv takes 1
    max,     \* uMaxSize
    tries,   \* tries
    ret,     \* what the last call returned
    out,     \* history: the pieces of the stream returned with success
    lost     \* history: the size field came in pieces, a recv of the header
             \* failed, or the retries after WSAENOBUFS ran out

stream == <<frames, wr, peer>>
local  == <<rd, pc, start, total, max, tries>>
vars   == <<stream, local, ret, out, lost>>

\* A number too large for the stream to reach: what a size becomes when a byte
\* of it is negative, and what uMaxSize - total becomes below 0.
Huge == BufSize + MaxFrames * ByteMax

Value(w) == IF w[1] = 0 /\ w[2] = 0 /\ w[3] = 0 THEN w[4] ELSE Huge

\* The bytes before frame i + 1.
Before(i) ==
    LET sum[j \in 0 .. i] ==
            IF j = 0 THEN 0 ELSE sum[j - 1] + frames[j] + 8
    IN  sum[i]

\* The byte that follows the first p bytes of the stream.
ByteAfter(p) ==
    LET i == CHOOSE j \in DOMAIN frames : Before(j - 1) <= p /\ p < Before(j)
        k == p - Before(i - 1) + 1
    IN  CASE k \in 1 .. 4 -> ToWire(Low(frames[i] + 8))[k]
          [] k \in 5 .. 8 -> ToWire(Low(i % SignBit))[k - 4]
          [] k > 8        -> 1

TypeOK ==
    /\ frames \in Seq(Sizes) /\ Len(frames) <= MaxFrames
    /\ wr \in 0 .. Before(Len(frames))
    /\ peer \in {"open", "fin", "rst"}
    /\ rd \in 0 .. wr
    /\ pc \in {"idle", "size", "id", "body", "ended"}
    /\ start \in 0 .. rd
    /\ total \in -3 .. Huge
    /\ max \in 0 .. Huge
    /\ tries \in 0 .. MaxTries
    /\ ret \in -3 .. Huge
    /\ out \in Seq([from : 0 .. wr, len : 1 .. wr])
    /\ lost \in BOOLEAN

Init ==
    /\ frames = <<>>
    /\ wr = 0
    /\ peer = "open"
    /\ rd = 0
    /\ pc = "idle"
    /\ start = 0
    /\ total = 0
    /\ max = 0
    /\ tries = 0
    /\ ret = 1
    /\ out = <<>>
    /\ lost = FALSE

----------------------------------------------------------------------------
(* The sender: external, but for the shape of a frame. *)

Send ==
    /\ peer = "open"
    /\ Len(frames) < MaxFrames
    /\ \E s \in Sizes :
          /\ frames' = Append(frames, s)
          /\ wr' = wr + s + 8
    /\ UNCHANGED <<peer, local, ret, out, lost>>

\* An orderly close, after the last frame or in the middle of one more.
Close ==
    /\ peer = "open"
    /\ peer' = "fin"
    /\ \/ UNCHANGED <<frames, wr>>
       \/ /\ Len(frames) < MaxFrames
          /\ \E s \in Sizes : \E k \in 1 .. s + 7 :
                /\ frames' = Append(frames, s)
                /\ wr' = wr + k
    /\ UNCHANGED <<local, ret, out, lost>>

\* Also after a close: what was not read then is gone.
Reset ==
    /\ peer # "rst"
    /\ peer' = "rst"
    /\ UNCHANGED <<frames, wr, local, ret, out, lost>>

----------------------------------------------------------------------------
(* Receive. *)

AtMost(a, b) == IF a < b THEN a ELSE b

\* What a recv of n bytes may give when it gives any.
Given(n) == IF peer = "rst" THEN {} ELSE 1 .. AtMost(n, wr - rd)

\* recv gives 0.
AtEnd == peer = "fin" /\ rd = wr

Call ==
    /\ pc = "idle"
    /\ pc' = "size"
    /\ start' = rd
    /\ total' = 0
    /\ max' = BufSize
    /\ tries' = 0
    /\ UNCHANGED <<stream, rd, ret, out, lost>>

\* The caller takes what is above 0 as a packet.
Return(t) ==
    /\ pc' = "idle"
    /\ total' = t
    /\ ret' = t
    /\ out' = IF t > 0 THEN Append(out, [from |-> start, len |-> rd' - start])
              ELSE out
    /\ UNCHANGED <<start, max>>

\* The end of the loop.  total < uMaxSize is a comparison of unsigned numbers: one
\* below 0 ends it.
Loop(t) ==
    IF t \in 0 .. max - 1
    THEN total' = t /\ UNCHANGED <<pc, start, max, ret, out>>
    ELSE Return(t)

\* The buffer is zeroed, so bytes that a short or failing recv did not give read
\* as 0; a size of 0 leaves uMaxSize at the size of the buffer.
RecvSize ==
    /\ pc = "size"
    /\ UNCHANGED <<stream, tries>>
    /\ \/ AtEnd /\ Return(0) /\ UNCHANGED <<rd, lost>>
       \/ \E n \in Given(4) :
             LET w == FromWire([k \in 1 .. 4 |->
                                   IF k <= n THEN ByteAfter(rd + k - 1)
                                             ELSE 0]) IN
             /\ rd' = rd + n
             /\ total' = n
             /\ max' = IF w = Low(0) THEN BufSize ELSE Value(w)
             /\ lost' = (lost \/ (n < 4 /\ ~AtEnd'))
             /\ pc' = "id"
             /\ UNCHANGED <<start, ret, out>>
       \/ /\ total' = -1
          /\ lost' = (lost \/ peer # "rst")
          /\ pc' = "id"
          /\ UNCHANGED <<rd, start, max, ret, out>>

\* A size field that failed has the id written in front of the buffer, which
\* may go unnoticed or end the process.
RecvId ==
    /\ pc = "id"
    /\ UNCHANGED <<stream, tries>>
    /\ \/ AtEnd /\ Return(0) /\ UNCHANGED <<rd, lost>>
       \/ \E n \in Given(4) :
             /\ rd' = rd + n
             /\ total' = total + n
             /\ pc' \in {"body"} \union IF total < 0 THEN {"ended"} ELSE {}
             /\ UNCHANGED <<start, max, ret, out, lost>>
       \/ /\ total' = total - 1
          /\ lost' = (lost \/ peer # "rst")
          /\ pc' = "body"
          /\ UNCHANGED <<rd, start, max, ret, out>>

\* The length of the next recv.  Huge stands for one that is negative as the int
\* that recv takes.
Want == IF max < total THEN Huge ELSE max - total

\* Mutant: bReadFully is false.
MutOneRecv ==
    /\ pc = "body"
    /\ UNCHANGED <<stream, tries, lost>>
    /\ \/ /\ AtEnd \/ (Want = 0 /\ peer # "rst")
          /\ rd' = rd
          /\ Return(total)
       \/ \E n \in Given(Want) : rd' = rd + n /\ Return(total + n)

\* A recv of no bytes gives 0, like the end of the stream.
RecvBody ==
    /\ pc = "body"
    /\ UNCHANGED <<stream, tries, lost>>
    /\ \/ /\ AtEnd \/ (Want = 0 /\ peer # "rst")
          /\ rd' = rd
          /\ Return(total)
       \/ \E n \in Given(Want) : rd' = rd + n /\ Loop(total + n)

\* Mutant: the tries are counted one too far.
MutOneTryMore ==
    /\ pc = "body"
    /\ peer # "rst" /\ Want > 0
    /\ UNCHANGED <<stream, rd>>
    /\ IF tries <= MaxTries
       THEN tries' = tries + 1 /\ Loop(total) /\ UNCHANGED lost
       ELSE Return(total) /\ lost' = TRUE /\ UNCHANGED tries

\* WSAENOBUFS: try again, and when the tries run out give what there is.
RecvNoBufs ==
    /\ pc = "body"
    /\ peer # "rst" /\ Want > 0
    /\ UNCHANGED <<stream, rd>>
    /\ IF tries < MaxTries
       THEN tries' = tries + 1 /\ Loop(total) /\ UNCHANGED lost
       ELSE Return(total) /\ lost' = TRUE /\ UNCHANGED tries

\* A recv on a broken connection, and perhaps one of a negative length, adds -1
\* to total, down to below 0.
RecvFail ==
    /\ pc = "body"
    /\ peer = "rst" \/ max = Huge \/ max < total
    /\ UNCHANGED <<stream, rd, tries, lost>>
    /\ Loop(total - 1)

Receive == \/ Call \/ RecvSize \/ RecvId \/ RecvBody \/ RecvNoBufs \/ RecvFail

Next == Send \/ Close \/ Reset \/ Receive

Spec == Init /\ [][Next]_vars

----------------------------------------------------------------------------
(* Properties. *)

Whole(i) == [from |-> Before(i - 1), len |-> frames[i] + 8]

\* The sender has closed, or more, and all that it wrote was read.
Ended == peer # "open" /\ rd = wr

\* As long as the size field comes in one piece, no recv of the header fails
\* and buffers last, calls that succeed return the frames that were sent, each
\* exactly and in order, whatever pieces the rest comes in; only the last one
\* before a close may lack its end.  0 is returned only when the peer has
\* closed and nothing is left (TCPServer.cpp:367-369, TCPClient.cpp:329-331).
FramesExact ==
    ~lost =>
        /\ ret = 0 => Ended
        /\ Len(out) <= Len(frames)
        /\ \A i \in DOMAIN out :
              \/ out[i] = Whole(i)
              \/ /\ i = Len(out) /\ Ended
                 /\ out[i] = [from |-> Before(i - 1), len |-> wr - Before(i - 1)]

\* The abstract channel: a frame has come out when it was returned, or when the
\* close cut it off within its first eight bytes.
Channel == INSTANCE FrameChannel
    WITH sent <- Len(frames), got <- Len(out),
         state <- CASE peer = "open" -> "open"
                    [] peer = "fin"  -> "closed"
                    [] peer = "rst"  -> "broken"

\* Receive gives the caller a channel of frames, until the end of a frame is
\* lost for one of the reasons above.
ImplementsChannel == Channel!Init /\ [][Channel!Next \/ lost']_Channel!chan

\* TCPServer.cpp:384 takes the first four bytes of a frame as its size: the size
\* Receive works with is the one convertSendMsg wrote.
SizeFieldIsSize ==
    pc \in {"id", "body"} /\ ~lost /\ peer # "rst" /\ Len(out) < Len(frames)
        /\ start = Before(Len(out)) /\ wr >= start + 4
            => max = frames[Len(out) + 1] + 8
=============================================================================
