---------------------------- MODULE DeviceMemory ----------------------------
(***************************************************************************)
(* Allocations and asynchronous uploads (crates/hipcore/src/memory.rs,     *)
(* creation.rs).  A buffer belongs to a device, a native call acts on the  *)
(* device that is current on the calling thread, and selecting a device    *)
(* can fail and leave another one current.  An upload owns its host data   *)
(* and its destination until the stream is known to be done with both.     *)
(* No name is one of TeardownInventory, so that a module can extend both.  *)
(***************************************************************************)
EXTENDS Sequences

CONSTANTS
  Device, Allocation,
  Home          \* buffer |-> the device it is allocated on

ASSUME HomeAssumption == Home \in [Allocation -> Device]

VARIABLES
  owner,     \* buffer |-> the Rust value that has its handle
  data,      \* buffer |-> the host data of its upload
  current,   \* the device current on the thread
  allocated, \* allocations the runtime still has
  dma,       \* buffers with a queued or running upload
  frees      \* buffer |-> devices on which hipFree was called for it

memoryVars == <<owner, data, current, allocated, dma, frees>>

(* No value has a handle of a buffer that is none, freed or leaked. *)
Owners == {"none", "buffer", "copy", "pending", "quarantine", "freed", "leaked"}
Data == {"none", "held", "freed", "leaked"}

MemoryInit ==
  /\ owner = [b \in Allocation |-> "none"]
  /\ data = [b \in Allocation |-> "none"]
  /\ current \in Device
  /\ allocated = {} /\ dma = {}
  /\ frees = [b \in Allocation |-> <<>>]

Becomes(b, o) == owner' = [owner EXCEPT ![b] = o]

(* make_current succeeds, or fails and leaves the current device as it was. *)
Selected(b) == current' = Home[b]
SelectFails == UNCHANGED current

------------------------------------------------------------------------------
(* attempt_creation and resolve_creation: one preflight and one call.  The *)
(* output slot tells a failed call that made nothing from one that may     *)
(* have: the handle of the latter is kept and never used.                  *)
Created(b) ==
  /\ Selected(b)
  /\ allocated' = allocated \cup {b}
  /\ Becomes(b, "buffer")

NoHandle(b) ==
  /\ Selected(b) \/ SelectFails
  /\ UNCHANGED <<allocated, owner>>

(* Mutant: an error means that there is no handle. *)
ErrorMeansNothing(b) ==
  /\ Selected(b)
  /\ allocated' \in {allocated, allocated \cup {b}}
  /\ UNCHANGED owner
Indeterminate(b) ==
  /\ Selected(b)
  /\ allocated' \in {allocated, allocated \cup {b}}
  /\ Becomes(b, "quarantine")

AllocTracked(b) ==
  /\ owner[b] = "none"
  /\ Created(b) \/ NoHandle(b) \/ Indeterminate(b)
  /\ UNCHANGED <<data, dma, frees>>

------------------------------------------------------------------------------
(* Drop of a DeviceBuffer: no call without the right device. *)
Freed(b) ==
  \/ /\ Selected(b)
     /\ frees' = [frees EXCEPT ![b] = Append(@, current')]
     /\ \/ allocated' = allocated \ {b} /\ Becomes(b, "freed")
        \/ allocated' \in {allocated, allocated \ {b}} /\ Becomes(b, "leaked")
  \/ /\ SelectFails /\ Becomes(b, "leaked") /\ UNCHANGED <<allocated, frees>>

DropBuffer(b) ==
  /\ owner[b] = "buffer"
  /\ Freed(b)
  /\ UNCHANGED <<data, dma>>

(* copy_from_host_async takes the buffer and the data by value.  A call    *)
(* that fails has queued nothing, and both are dropped.                    *)
Upload(b) ==
  /\ owner[b] = "buffer"
  /\ Selected(b)
  /\ Becomes(b, "copy") /\ dma' = dma \cup {b}
  /\ data' = [data EXCEPT ![b] = "held"]
  /\ UNCHANGED <<allocated, frees>>

UploadFails(b) ==
  /\ owner[b] = "buffer"
  /\ Freed(b)
  /\ UNCHANGED <<data, dma>>

UploadRuns(b) ==
  /\ b \in dma
  /\ dma' = dma \ {b}
  /\ UNCHANGED <<owner, data, current, allocated, frees>>

(* Stream::synchronize returns when the stream, here all uploads to the    *)
(* device of b, is done; when it fails nothing is known.                   *)
Synchronized(b) == \A c \in dma : Home[c] # Home[b]

Wait(b) ==
  /\ owner[b] = "copy"
  /\ Synchronized(b) /\ Selected(b)
  /\ Becomes(b, "buffer")
  /\ data' = [data EXCEPT ![b] = "none"]
  /\ UNCHANGED <<allocated, dma, frees>>

(* Drop of a PendingCopy, which a wait that fails runs into as well.       *)
(* Mutant: the host data is dropped with the value. *)
FreesTheData(b) ==
  /\ Selected(b) \/ SelectFails
  /\ Becomes(b, "leaked")
  /\ data' = [data EXCEPT ![b] = "freed"]
  /\ UNCHANGED <<allocated, frees>>
LeaksBoth(b) ==
  /\ Selected(b) \/ SelectFails
  /\ Becomes(b, "leaked")
  /\ data' = [data EXCEPT ![b] = "leaked"]
  /\ UNCHANGED <<allocated, frees>>

DropCopy(b) ==
  /\ owner[b] = "copy"
  /\ \/ /\ Synchronized(b)
        /\ Freed(b)
        /\ data' = [data EXCEPT ![b] = "freed"]
     \/ LeaksBoth(b)
  /\ UNCHANGED dma

------------------------------------------------------------------------------
(* begin_release and PendingBufferTeardown::retry: the destructor is       *)
(* disarmed, and only a release that made no call may be asked for again.  *)
Release(b) ==
  /\ owner[b] \in {"buffer", "pending"}
  /\ \/ SelectFails /\ Becomes(b, "pending") /\ UNCHANGED <<allocated, frees>>
     \/ /\ Selected(b)
        /\ frees' = [frees EXCEPT ![b] = Append(@, current')]
        /\ \/ allocated' = allocated \ {b} /\ Becomes(b, "freed")
           \/ allocated' \in {allocated, allocated \ {b}} /\ Becomes(b, "quarantine")
  /\ UNCHANGED <<data, dma>>

MemoryNext ==
  \E b \in Allocation :
    \/ AllocTracked(b) \/ DropBuffer(b)
    \/ Upload(b) \/ UploadFails(b) \/ UploadRuns(b) \/ Wait(b) \/ DropCopy(b)
    \/ Release(b)

MemorySpec == MemoryInit /\ [][MemoryNext]_memoryVars

------------------------------------------------------------------------------
(* Neither end of an upload is given back, freed or reused while the copy  *)
(* may run, on any path out of copy_from_host_async, wait and the two      *)
(* drops (PendingCopy; issues 25 and 104 named there).                     *)
UploadsOwnBothEnds ==
  \A b \in dma :
    /\ b \in allocated
    /\ owner[b] \in {"copy", "leaked"} /\ data[b] \in {"held", "leaked"}

(* hipFree is called at most once for a buffer, on its own device; what    *)
(* the runtime may still have is owned, quarantined or knowingly leaked    *)
(* (Drop for DeviceBuffer, ReleaseOwner::attempt, resolve_creation).       *)
OneFreeAtHome ==
  \A b \in Allocation :
    /\ frees[b] \in {<<>>, <<Home[b]>>}
    /\ b \in allocated => owner[b] \notin {"none", "freed"}
    /\ owner[b] \in {"buffer", "copy", "pending"} => b \in allocated /\ frees[b] = <<>>
==============================================================================
