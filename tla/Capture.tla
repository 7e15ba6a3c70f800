------------------------------ MODULE Capture ------------------------------
(***************************************************************************)
(* RecordWAV and RecordVideo: a block reads packets from a capture device  *)
(* and appends them to a file until a flag, which record() resets before   *)
(* it dispatches the block, is set by stop.  RecordWAV puts a header in    *)
(* front and writes the two sizes into it at the end (RecordWAV.mm,        *)
(* WavHeader.hpp, RecordVideo.mm).                                         *)
(*                                                                         *)
(* Every recording goes to the same path.  createFileAtPath puts a new     *)
(* file there; a handle stays with the file it was opened on.  Sizes are   *)
(* counted in a unit of one byte, with a small word and a small header.    *)
(***************************************************************************)
EXTENDS Integers, FiniteSetsExt

CONSTANTS
    Sessions,       \* calls of record that may be made
    MaxBytes,       \* bytes in one recording: a bound
    Packets,        \* sizes of a packet
    Word,           \* 2^32: the sizes in the header are taken modulo this
    Header,         \* sizeof(WavHeader)
    Riff,           \* the part of it that riffChunkSize does not count
    None

ASSUME SizesAssumption ==
    /\ MaxBytes \in Nat /\ Packets \subseteq Nat \ {0} /\ Word \in Nat \ {0}
    /\ Header \in Nat /\ Riff \in 0 .. Header /\ None \notin Sessions

VARIABLES
    wav,            \* RecordWAV, or else RecordVideo
    stop,           \* the flag
    pc,             \* where each block is
    path,           \* the file at the path: by the session that created it
    handle,         \* the file a session writes to
    length,         \* length of each file
    dataField,      \* the sizes in its header
    riffField,
    dataChunkSize,  \* the header in the memory of a session: the size of the data
    garbage,        \* auxiliary: what dataChunkSize was before it was ever written
    bytes,          \* auxiliary: bytes a session has captured
    stopping,       \* auxiliary: sessions a stop was meant for
    mishaps         \* auxiliary: "stop_forgotten", "overlap"

disk == <<path, handle, length, dataField, riffField>>
sizes == <<dataChunkSize, garbage, bytes>>
vars == <<wav, stop, pc, disk, sizes, stopping, mishaps>>

Early == {"device", "create", "open", "header"}
InLoop == {"test", "read", "write"}
Late == {"data_size", "riff_size", "close"}

TypeOK ==
    /\ wav \in BOOLEAN /\ stop \in BOOLEAN
    /\ pc \in [Sessions -> {"unborn", "done"} \cup Early \cup InLoop \cup Late]
    /\ path \in Sessions \cup {None} /\ handle \in [Sessions -> Sessions \cup {None}]
    /\ length \in [Sessions -> Nat]
    /\ dataField \in [Sessions -> 0 .. Word - 1] /\ riffField \in [Sessions -> 0 .. Word - 1]
    /\ dataChunkSize \in [Sessions -> 0 .. Word - 1] /\ garbage \in [Sessions -> 0 .. Word - 1]
    /\ bytes \in [Sessions -> 0 .. MaxBytes]
    /\ stopping \subseteq Sessions
    /\ mishaps \subseteq {"stop_forgotten", "overlap"}

\* WavHeader header; leaves dataChunkSize and riffChunkSize as they are.
Init ==
    /\ wav \in BOOLEAN /\ stop = FALSE
    /\ pc = [s \in Sessions |-> "unborn"]
    /\ path = None /\ handle = [s \in Sessions |-> None]
    /\ length = [s \in Sessions |-> 0]
    /\ dataField = [s \in Sessions |-> 0] /\ riffField = [s \in Sessions |-> 0]
    /\ garbage \in [Sessions -> {0, Word - 1}] /\ dataChunkSize = garbage
    /\ bytes = [s \in Sessions |-> 0]
    /\ stopping = {} /\ mishaps = {}

Goto(s, from, to) == pc[s] = from /\ pc' = [pc EXCEPT ![s] = to]
Note(m, happened) == mishaps' = IF happened THEN mishaps \cup {m} ELSE mishaps
Running == {s \in Sessions : pc[s] \in Early \cup InLoop}
Writing == {s \in Sessions : pc[s] \in (Early \ {"device", "create"}) \cup InLoop \cup Late}

-----------------------------------------------------------------------------
Record(s) ==
    /\ Goto(s, "unborn", "device")
    /\ stop' = FALSE
    /\ Note("stop_forgotten", stopping \cap Running # {})
    /\ UNCHANGED <<wav, disk, sizes, stopping>>

StopRecord ==
    /\ stop' = TRUE
    /\ stopping' = stopping \cup Running
    /\ UNCHANGED <<wav, pc, disk, sizes, mishaps>>

OpenDevice(s) ==
    /\ Goto(s, "device", "create") \/ Goto(s, "device", "done")
    /\ UNCHANGED <<wav, stop, disk, sizes, stopping, mishaps>>

CreateFile(s) ==
    /\ Goto(s, "create", "open")
    /\ path' = s
    /\ Note("overlap", Writing # {})
    /\ UNCHANGED <<wav, stop, handle, length, dataField, riffField, sizes, stopping>>

OpenFile(s) ==
    /\ \/ Goto(s, "open", "header") /\ handle' = [handle EXCEPT ![s] = path]
       \/ Goto(s, "open", "done") /\ UNCHANGED handle
    /\ UNCHANGED <<wav, stop, path, length, dataField, riffField, sizes, stopping, mishaps>>

\* RecordVideo writes none.
WriteHeader(s) ==
    /\ Goto(s, "header", "test")
    /\ IF wav
       THEN /\ length' = [length EXCEPT ![handle[s]] = Max({@, Header})]
            /\ dataField' = [dataField EXCEPT ![handle[s]] = dataChunkSize[s]]
       ELSE UNCHANGED <<length, dataField>>
    /\ UNCHANGED <<wav, stop, path, handle, riffField, sizes, stopping, mishaps>>

After == IF wav THEN "data_size" ELSE "close"

\* Mutant: a stop before the first packet is not seen.
TestLater(s) ==
    /\ Goto(s, "test", IF stop /\ bytes[s] > 0 THEN After ELSE "read")
    /\ UNCHANGED <<wav, stop, disk, sizes, stopping, mishaps>>

Test(s) ==
    /\ Goto(s, "test", IF stop THEN After ELSE "read")
    /\ UNCHANGED <<wav, stop, disk, sizes, stopping, mishaps>>

\* A packet; EAGAIN; or an error, which ends the loop of RecordVideo only.
Read(s) ==
    /\ \/ Goto(s, "read", "write") /\ \A n \in Packets : bytes[s] + n <= MaxBytes
       \/ Goto(s, "read", "test")
       \/ ~wav /\ Goto(s, "read", "close")
    /\ UNCHANGED <<wav, stop, disk, sizes, stopping, mishaps>>

\* Mutant: the size of the data counts packets.
WriteCountingPackets(s) ==
    /\ Goto(s, "write", "test")
    /\ \E n \in Packets :
        /\ bytes' = [bytes EXCEPT ![s] = @ + n]
        /\ length' = [length EXCEPT ![handle[s]] = @ + n]
        /\ dataChunkSize' = [dataChunkSize EXCEPT ![s] = (@ + 1) % Word]
    /\ UNCHANGED <<wav, stop, path, handle, dataField, riffField, garbage, stopping, mishaps>>

Write(s) ==
    /\ Goto(s, "write", "test")
    /\ \E n \in Packets :
        /\ bytes' = [bytes EXCEPT ![s] = @ + n]
        /\ length' = [length EXCEPT ![handle[s]] = @ + n]
        /\ dataChunkSize' = IF wav THEN [dataChunkSize EXCEPT ![s] = (@ + n) % Word]
                                   ELSE dataChunkSize
    /\ UNCHANGED <<wav, stop, path, handle, dataField, riffField, garbage, stopping, mishaps>>

WriteDataSize(s) ==
    /\ Goto(s, "data_size", "riff_size")
    /\ dataField' = [dataField EXCEPT ![handle[s]] = dataChunkSize[s]]
    /\ UNCHANGED <<wav, stop, path, handle, length, riffField, sizes, stopping, mishaps>>

WriteRiffSize(s) ==
    /\ Goto(s, "riff_size", "close")
    /\ riffField' = [riffField EXCEPT ![handle[s]] = (length[handle[s]] - Riff) % Word]
    /\ UNCHANGED <<wav, stop, path, handle, length, dataField, sizes, stopping, mishaps>>

Close(s) ==
    /\ Goto(s, "close", "done")
    /\ UNCHANGED <<wav, stop, disk, sizes, stopping, mishaps>>

Block(s) ==
    \/ OpenDevice(s) \/ CreateFile(s) \/ OpenFile(s) \/ WriteHeader(s) \/ Test(s) \/ Read(s)
    \/ Write(s) \/ WriteDataSize(s) \/ WriteRiffSize(s) \/ Close(s)

Next == StopRecord \/ \E s \in Sessions : Record(s) \/ Block(s)

Spec == Init /\ [][Next]_vars

\* A block goes on.
FairSpec == Spec /\ \A s \in Sessions : WF_vars(Block(s))

-----------------------------------------------------------------------------
(***************************************************************************)
(* Properties.                                                             *)
(***************************************************************************)
\* A recording that is over holds what was captured and nothing else, and the sizes in its
\* header are those of the data and of the rest of the file: unless another session was
\* writing when the file was created, for a header whose size of the data happened to be
\* zero, and as long as they fit into 32 bits (RecordWAV.mm:95, 114, 128-136,
\* WavHeader.hpp:20, 42).
RecordingWhole ==
    \A s \in Sessions :
        pc[s] = "done" /\ handle[s] # None /\ "overlap" \notin mishaps =>
            LET rest == bytes[s] + Header - Riff
            IN  /\ handle[s] = s
                /\ length[s] = (IF wav THEN Header ELSE 0) + bytes[s]
                /\ wav /\ garbage[s] = 0 /\ rest < Word =>
                       dataField[s] = bytes[s] /\ riffField[s] = rest

\* When the loop looks at the flag, a recording that nobody stopped goes on, and one that
\* was stopped, however early, takes no further packet, unless record() was called again
\* in between: the flag is one for all blocks (RecordWAV.mm:58, 109, RecordVideo.mm:34).
EndsWhenAsked ==
    [][\A s \in Sessions : pc[s] = "test" /\ pc'[s] # "test" =>
          IF s \in stopping THEN pc'[s] # "read" \/ "stop_forgotten" \in mishaps
          ELSE pc'[s] = "read"]_vars

\* A stop ends every recording that runs, even one whose device only gives errors, unless
\* record() is called again before the block has looked at the flag (RecordWAV.mm:58, 109,
\* RecordVideo.mm:34, 93).
StopEnds ==
    \A s \in Sessions : s \in stopping ~> pc[s] = "done" \/ "stop_forgotten" \in mishaps

-----------------------------------------------------------------------------
(***************************************************************************)
(* Why RecordingWhole holds.                                               *)
(***************************************************************************)
NoFile == {"unborn", "device", "create", "open"}

\* A file is there when it is opened, a handle when it is used, room when a packet is read.
HandleInv ==
    \A s \in Sessions :
        /\ pc[s] = "open" => path # None
        /\ pc[s] \in {"header"} \cup InLoop \cup Late => handle[s] # None
        /\ pc[s] = "write" => \A n \in Packets : bytes[s] + n <= MaxBytes

Whole(s) ==
    /\ length[s] = (IF wav THEN Header ELSE 0) + bytes[s]
    /\ wav /\ garbage[s] = 0 /\ bytes[s] < Word => dataChunkSize[s] = bytes[s]

\* Each session writes to its own file, which is empty, then whole, and then has its sizes.
OwnFile(s) ==
    LET closed == wav /\ handle[s] # None /\ pc[s] \in {"close", "done"}
    IN  /\ handle[s] \in {None, s}
        /\ pc[s] = "open" => path = s
        /\ pc[s] \in NoFile => handle[s] = None
        /\ handle[s] = None \/ pc[s] = "header" =>
               length[s] = 0 /\ bytes[s] = 0 /\ dataChunkSize[s] = garbage[s]
        /\ handle[s] # None /\ pc[s] # "header" => Whole(s)
        /\ closed \/ pc[s] = "riff_size" => dataField[s] = dataChunkSize[s]
        /\ closed => riffField[s] = (length[s] - Riff) % Word

FileInv == "overlap" \in mishaps \/ \A s \in Sessions : OwnFile(s)

-----------------------------------------------------------------------------
(***************************************************************************)
(* Why EndsWhenAsked holds.                                                *)
(***************************************************************************)
\* A flag that is up was meant for every session that runs, and the flag of a stopped
\* session stays up.
StopInv ==
    /\ \A s \in stopping : pc[s] # "unborn"
    /\ stop => Running \subseteq stopping
    /\ stopping \cap Running # {} => stop \/ "stop_forgotten" \in mishaps

=============================================================================
