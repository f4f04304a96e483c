------------------------------ MODULE ThriftProto ------------------------------
(***************************************************************************)
(* The Thrift header protos of src/proto/thriftproto (binary_proto.go and *)
(* struct_proto.go, which differ only in the checks structPack makes       *)
(* before taking packLock): one proto object per session,                  *)
(* shared by the goroutine that packs (writes) messages and the one that   *)
(* unpacks (reads) them.  Each direction has its own mutex, and both share *)
(* one utils.ReadWriteCounter wrapped around the connection, which counts  *)
(* the bytes written and read; after each message the count is recorded   *)
(* as the message's size (m.SetSize).                                     *)
(*                                                                         *)
(* The THeader transport buffers what Pack writes and hands it to the      *)
(* connection in Flush, so a Pack's bytes reach the write counter in one   *)
(* step.  A message is abstracted to the length of its frame.  The         *)
(* counters are modelled by what they do: Zero sets one to 0, a write or   *)
(* read adds its byte count to it.                                        *)
(*                                                                         *)
(* On an error Pack and Unpack call t.tProtocol.Transport().Close(), which *)
(* ends in BaseTTransport.Close: it returns nil and closes nothing.  The   *)
(* connection is closed by the socket of the session engine, which is not *)
(* in the tree; the spec (section 4.2) requires it ("the Socket MUST be    *)
(* closed on such failure").  closed is that close: no message is packed  *)
(* or unpacked after an error.                                            *)
(***************************************************************************)
EXTENDS Naturals

CONSTANTS
    FrameLens, \* lengths of the frames messages are encoded to
    MaxMsgs,   \* bound on the messages packed and on those unpacked
    Protos     \* the protos a session may use: "binary", "struct"

ASSUME FrameLens \subseteq Nat \ {0} /\ MaxMsgs \in Nat
ASSUME Protos \subseteq {"binary", "struct"}

VARIABLES
    wcnt,      \* rwCounter.WriteCounter
    rcnt,      \* rwCounter.ReadCounter
    packPc,    \* "idle", "locked" (packLock held, frame buffered), "flushed"
    packLen,   \* length of the frame being packed
    unpackPc,  \* "idle", "locked" (unpackLock held), "read"
    unpackLen, \* length of the frame being unpacked
    npack, nunpack,
    sizes,     \* the (frame length, recorded size) of every finished message
    closed,    \* the socket was closed after a failed Pack or Unpack
    proto      \* the session's proto

vars == <<wcnt, rcnt, packPc, packLen, unpackPc, unpackLen, npack, nunpack,
          sizes, closed, proto>>

Dirs == {"pack", "unpack"}

TypeOK ==
    /\ wcnt \in Nat /\ rcnt \in Nat
    /\ packPc \in {"idle", "locked", "flushed"}
    /\ unpackPc \in {"idle", "locked", "read"}
    /\ packLen \in FrameLens \cup {0} /\ unpackLen \in FrameLens \cup {0}
    /\ npack \in 0..MaxMsgs /\ nunpack \in 0..MaxMsgs
    /\ sizes \subseteq [dir : Dirs, len : FrameLens, size : Nat]
    /\ closed \in BOOLEAN
    /\ proto \in Protos

Init ==
    /\ wcnt = 0 /\ rcnt = 0
    /\ packPc = "idle" /\ packLen = 0
    /\ unpackPc = "idle" /\ unpackLen = 0
    /\ npack = 0 /\ nunpack = 0
    /\ sizes = {}
    /\ closed = FALSE
    /\ proto \in Protos

(* What of a message the protos look at before packLock: whether it has  *)
(* a transfer pipe, and its body codec (unset, thrift or another).        *)
Msgs == [xfer : BOOLEAN, codec : {"nil", "thrift", "other"}]

\* structPack's checks: no transfer pipe, and a thrift or unset body codec
\* (an unset one is set to thrift); binaryPack supports both.
StructPackAccepts(m) == ~m.xfer /\ m.codec \in {"nil", "thrift"}

PackAccepts(m) == proto = "binary" \/ StructPackAccepts(m)

\* Pack: structPack refuses the message before taking packLock; Pack's
\* Transport().Close() is a no-op and the socket is closed on the error.
PackRefused(m) ==
    /\ ~closed /\ packPc = "idle" /\ npack < MaxMsgs
    /\ ~PackAccepts(m)
    /\ closed' = TRUE
    /\ UNCHANGED <<wcnt, rcnt, packPc, packLen, unpackPc, unpackLen, npack,
                   nunpack, sizes, proto>>

\* binaryPack/structPack up to Flush: the body is marshalled (binary) or
\* checked (struct) outside the lock, then packLock is taken and the write
\* counter zeroed; the frame is buffered.
PackLock(n, m) ==
    /\ ~closed /\ packPc = "idle" /\ npack < MaxMsgs
    /\ PackAccepts(m)
    /\ wcnt' = 0
    /\ packLen' = n
    /\ packPc' = "locked"
    /\ UNCHANGED <<rcnt, unpackPc, unpackLen, npack, nunpack, sizes, closed,
                   proto>>

\* Flush hands the buffered frame to the connection: the write counter
\* counts its bytes.
PackFlush ==
    /\ packPc = "locked"
    /\ wcnt' = wcnt + packLen
    /\ packPc' = "flushed"
    /\ UNCHANGED <<rcnt, packLen, unpackPc, unpackLen, npack, nunpack, sizes,
                   closed>>
    /\ UNCHANGED proto

\* m.SetSize(uint32(t.rwCounter.Writed())), then packLock is released.
PackDone ==
    /\ packPc = "flushed"
    /\ sizes' = sizes \cup {[dir |-> "pack", len |-> packLen, size |-> wcnt]}
    /\ npack' = npack + 1
    /\ packPc' = "idle"
    /\ UNCHANGED <<wcnt, rcnt, packLen, unpackPc, unpackLen, nunpack, closed>>
    /\ UNCHANGED proto

\* binaryUnpack: unpackLock is taken and rwCounter.WriteCounter is zeroed.
UnpackLock(n) ==
    /\ ~closed /\ unpackPc = "idle" /\ nunpack < MaxMsgs
    /\ wcnt' = 0
    /\ unpackLen' = n
    /\ unpackPc' = "locked"
    /\ UNCHANGED <<rcnt, packPc, packLen, npack, nunpack, sizes, closed>>
    /\ UNCHANGED proto

\* readMessageBegin .. ReadMessageEnd read the frame: the read counter
\* counts its bytes.
UnpackRead ==
    /\ unpackPc = "locked"
    /\ rcnt' = rcnt + unpackLen
    /\ unpackPc' = "read"
    /\ UNCHANGED <<wcnt, packPc, packLen, unpackLen, npack, nunpack, sizes,
                   closed>>
    /\ UNCHANGED proto

\* headers are decoded, the body unmarshalled, and
\* m.SetSize(uint32(t.rwCounter.Readed())); unpackLock is released.
UnpackDone ==
    /\ unpackPc = "read"
    /\ sizes' = sizes \cup {[dir |-> "unpack", len |-> unpackLen, size |-> rcnt]}
    /\ nunpack' = nunpack + 1
    /\ unpackPc' = "idle"
    /\ UNCHANGED <<wcnt, rcnt, packPc, packLen, unpackLen, npack, closed>>
    /\ UNCHANGED proto

\* An encode/decode or I/O error returns early from binaryPack/binaryUnpack
\* (no size is recorded); the socket is closed on the error.
Fail ==
    /\ ~closed
    /\ \/ packPc # "idle" /\ packPc' = "idle" /\ UNCHANGED unpackPc
       \/ unpackPc # "idle" /\ unpackPc' = "idle" /\ UNCHANGED packPc
    /\ closed' = TRUE
    /\ UNCHANGED <<wcnt, rcnt, packLen, unpackLen, npack, nunpack, sizes>>
    /\ UNCHANGED proto

Next ==
    \/ \E n \in FrameLens, m \in Msgs : PackLock(n, m)
    \/ \E m \in Msgs : PackRefused(m)
    \/ \E n \in FrameLens : UnpackLock(n)
    \/ PackFlush \/ PackDone \/ UnpackRead \/ UnpackDone \/ Fail

Spec == Init /\ [][Next]_vars

-----------------------------------------------------------------------------
\* Every message, packed or unpacked, records the size of its own frame (the Proto
\* contract of the spec: Pack and Unpack "record the encoded size back into the
\* Message"), even while the read goroutine and the write goroutine use the shared
\* counter concurrently and after several messages have gone through it.
SizeIsFrameSize ==
    \A r \in sizes : r.size = r.len

=============================================================================
