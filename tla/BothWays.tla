------------------------------- MODULE BothWays -------------------------------
(***************************************************************************)
(* One unit read both ways, as a stream in blocks and then, as it would be *)
(* had it been mapped or spooled, as a slice in chunks: a caller has no    *)
(* say in which of the two a location takes (see OpenUnit) and must not be *)
(* able to tell.  A unit that breaks off has no slice; nor has a machine   *)
(* one longer than half its address space (isize::MAX).                    *)
(***************************************************************************)
EXTENDS StreamBlocks

(* A size is a usize.                                                       *)
ASSUME SizesAssumption == \A j \in Jobs : j.size <= UsizeMax

(* The slice's variables, see SliceChunks: its outcome is sliced here.      *)
VARIABLES at, chunks, sliced

Slices == INSTANCE SliceChunks WITH outcome <- sliced

bothVars == <<vars, at, chunks, sliced>>

HasSlice == ~job.broken /\ 2 * Len(job.unit) <= UsizeMax

InitBoth == Init /\ Slices!Init

Stream == Next /\ UNCHANGED <<at, chunks, sliced>>

TakeSlice == /\ outcome = "done" /\ HasSlice
             /\ UNCHANGED vars
             /\ Slices!Next

NextBoth == Stream \/ TakeSlice

(* parse_stream's caller asks for blocks until None; framing::chunks is     *)
(* collected whole.                                                         *)
SpecBoth == InitBoth /\ [][NextBoth]_bothVars /\ WF_bothVars(NextBoth)
------------------------------------------------------------------------------
BothTypes == TypeInvariant /\ Slices!TypeInvariant

ChunksReachSize == Slices!ChunksReachSize

NoOverflow == Slices!NoOverflow

(* Read either way, and whatever the size, a unit gives the same records,   *)
(* with the same texts, numbers and offsets (read_impl.rs 77-98, 125-185).  *)
ReadsTheSame == sliced = "done" => Slices!Delivered = Delivered

(* However the blocks and chunks fall, the reading ends.                    *)
Ends == <>(outcome = "failed" \/ (outcome = "done" /\ (HasSlice => sliced = "done")))
==============================================================================
