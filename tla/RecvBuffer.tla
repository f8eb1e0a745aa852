----------------------------- MODULE RecvBuffer -----------------------------
(***************************************************************************)
(* The linear receive buffer of a session (ServerCore/RecvBuffer.{h,cpp})  *)
(* in the loop that uses it: Session::RegisterRecv offers the free space   *)
(* behind the write cursor to WSARecv, ProcessRecv advances the cursor,    *)
(* PacketSession::OnRecv consumes the whole packets, and Clear moves what  *)
(* is left to the front when the space behind it runs low.                 *)
(*                                                                         *)
(* The bytes are abstracted to their number; of the packet that is only    *)
(* partly received the model knows the size in its header.                 *)
(***************************************************************************)
EXTENDS Naturals

CONSTANTS
  BufferSize,    (* RecvBuffer::BUFFER_SIZE                                *)
  BufferCount,   (* RecvBuffer::BUFFER_COUNT                               *)
  MaxPacketSize  (* the largest packet the peer sends                      *)

Capacity == BufferSize * BufferCount
LowMark  == BufferSize \div 2

(* Two of the largest packets fit in front of the low mark.                *)
ASSUME RecvBufferAssumption ==
  /\ BufferSize \in Nat /\ BufferSize > 1
  /\ BufferCount \in Nat \ {0}
  /\ Capacity \in Nat
  /\ LowMark \in Nat \ {0}
  /\ MaxPacketSize \in Nat \ {0}
  /\ 2 * MaxPacketSize + LowMark <= Capacity

VARIABLES
  readPos, writePos,  (* the cursors                                       *)
  packetSize,         (* pkt_size of the first packet not yet consumed     *)
  receiver            (* what the receiving thread does next               *)

bufferVars == <<readPos, writePos, packetSize, receiver>>

DataSize == writePos - readPos
FreeSize == Capacity - writePos

BufferInit ==
  /\ readPos = 0
  /\ writePos = 0
  /\ packetSize \in 1..MaxPacketSize
  /\ receiver = "receiving"

(* The receive completes with n bytes in the space it was given: OnWrite.  *)
OnWrite(n) ==
  /\ receiver = "receiving"
  /\ n <= FreeSize
  /\ writePos' = writePos + n
  /\ receiver' = "parsing"
  /\ UNCHANGED <<readPos, packetSize>>

(* Nothing received: ProcessRecv disconnects.                              *)
EndOfStream ==
  /\ receiver = "receiving"
  /\ receiver' = "closed"
  /\ UNCHANGED <<readPos, writePos, packetSize>>

(* Mutant: the packet is taken as soon as its header is there.             *)
OnRecvHeaderOnly(processLen, nextSize) ==
  /\ receiver = "parsing"
  /\ DataSize > 0
  /\ processLen = packetSize
  /\ readPos' = readPos + processLen
  /\ packetSize' = nextSize
  /\ receiver' = "clearing"
  /\ UNCHANGED writePos

(* OnRecv stops at the first packet that is not complete; OnRead takes     *)
(* what came before it.                                                    *)
OnRecv(processLen, nextSize) ==
  /\ receiver = "parsing"
  /\ \/ DataSize < packetSize /\ processLen = 0 /\ nextSize = packetSize
     \/ /\ packetSize <= processLen /\ processLen <= DataSize
        /\ DataSize - processLen < nextSize
  /\ readPos' = readPos + processLen
  /\ packetSize' = nextSize
  /\ receiver' = "clearing"
  /\ UNCHANGED writePos

(* A handler refused its packet: ProcessRecv disconnects.                  *)
RejectPacket ==
  /\ receiver = "parsing"
  /\ packetSize <= DataSize
  /\ receiver' = "closed"
  /\ UNCHANGED <<readPos, writePos, packetSize>>

(* Mutants: the rest is never pulled to the front, or every time.          *)
NeverPull == FALSE
AlwaysPull == DataSize # 0

MustPull == DataSize # 0 /\ FreeSize < LowMark

Clear ==
  /\ receiver = "clearing"
  /\ \/ DataSize = 0 /\ readPos' = 0 /\ writePos' = 0
     \/ MustPull /\ readPos' = 0 /\ writePos' = DataSize
     \/ DataSize # 0 /\ ~ MustPull /\ UNCHANGED <<readPos, writePos>>
  /\ receiver' = "receiving"
  /\ UNCHANGED packetSize

BufferNext ==
  \/ \E n \in 1..Capacity : OnWrite(n)
  \/ \E processLen \in 0..Capacity, nextSize \in 1..MaxPacketSize :
       OnRecv(processLen, nextSize)
  \/ EndOfStream \/ RejectPacket \/ Clear

BufferSpec == BufferInit /\ [][BufferNext]_bufferVars

-----------------------------------------------------------------------------
BufferTypeOK ==
  /\ readPos \in 0..Capacity
  /\ writePos \in readPos..Capacity
  /\ packetSize \in 1..MaxPacketSize
  /\ receiver \in {"receiving", "parsing", "clearing", "closed"}

(* WSARecv is never given an empty space, which would complete at once     *)
(* with 0 bytes and be taken for the end of the connection: Clear keeps    *)
(* the low mark free behind whatever is left (RegisterRecv, Clear).        *)
RoomToReceive == receiver = "receiving" => FreeSize > 0 /\ FreeSize >= LowMark

(* memcpy, which must not be given overlapping regions, never moves the    *)
(* rest onto itself (RecvBuffer::Clear).                                   *)
PullIsDisjoint == receiver = "clearing" /\ MustPull => DataSize <= readPos

(* RecvBuffer.cpp:28 says that the rest is pulled to the front when less   *)
(* than one buffer is free: the receive that follows finds it there.       *)
PulledBelowOneBuffer ==
  receiver = "receiving" /\ DataSize # 0 /\ FreeSize < BufferSize => readPos = 0
=============================================================================
