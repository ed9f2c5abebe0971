-------------------------------- MODULE SaveLoad --------------------------------
(***************************************************************************)
(* save, serialize, read and deserialize from end to end: save_erased and  *)
(* serialize_erased_impl write a header, the blocks of the object and, as  *)
(* the last thing, the checksum into the header; read_qdata_object checks  *)
(* the checksum if it is asked to, and decodes the blocks.                 *)
(*                                                                         *)
(* The stream is a file behind the buffer of an ofstream, or memory.  It   *)
(* is a sequence of pieces: the header, then for each block its size and   *)
(* its data, which are separate writes.  A save may be cut short by an     *)
(* exception of the object's serializer, by a failing write, or by the end *)
(* of the process; what it leaves may be damaged before it is read.        *)
(***************************************************************************)
EXTENDS Naturals, Sequences, SequencesExt, MemoryStream

CONSTANTS
    Blocks,     \* the number of blocks of each object: [old, new -> Nat]
    SizeMaxes   \* what size_t(-1) may be, in pieces

ASSUME BlocksAssumption == Blocks \in [{"old", "new"} -> Nat \ {0}]
ASSUME SizeMaxesAssumption == SizeMaxes # {} /\ SizeMaxes \subseteq Nat \ (0..InitialCapacity)

\* The writes that make up an object, and everything a stream may hold.
Object(o) == [i \in 1..(2 * Blocks[o]) |-> [object |-> o, part |-> i]]
Header == [object |-> "header", part |-> 0]
Damaged == [object |-> "damaged", part |-> 0]
Pieces == {Header, Damaged, Unused}
          \cup UNION {{[object |-> o, part |-> i] : i \in 1..(2 * Blocks[o])} : o \in {"old", "new"}}

\* A checksum stands for what it was computed from; 0 is no checksum, and
\* digest() never returns it.
NoHash == [of |-> "nothing", pieces |-> << >>]
Digest(s) == [of |-> "data", pieces |-> s]

VARIABLES
    kind,       \* "file" or "memory"
    target,     \* the file or the memory: its pieces, and the checksum in its header
    buffer,     \* what the ofstream has not yet written out
    sizeMax,    \* the largest size_t
    position,   \* the position of the memory writer
    end,        \* end_position
    hashed,     \* the pieces the hash environment of the writer has seen
    saver,      \* where save is, or how it ended
    loader,     \* where read is, or how it ended
    validate,   \* validate_checksum
    at,         \* the position of the reader
    stored,     \* stored_hash
    result,     \* what read returned
    fault       \* what went wrong without save being told

memory == <<sizeMax, position, end>>
stream == <<target, buffer, memory>>
loading == <<loader, validate, at, stored, result>>
vars == <<kind, stream, hashed, saver, loading, fault>>

Whole(o) == <<Header>> \o Object(o)
Empty == [pieces |-> << >>, hash |-> NoHash]
SavedFile(o) == [pieces |-> Whole(o), hash |-> Digest(Object(o))]

Init ==
    /\ kind \in {"file", "memory"}
    /\ target \in (IF kind = "file" THEN {Empty, SavedFile("old")} ELSE {Empty})
    /\ sizeMax \in SizeMaxes /\ position = 0 /\ end = 0
    /\ buffer = << >> /\ hashed = << >>
    /\ saver = "start"
    /\ loader = "idle" /\ validate = FALSE /\ at = 0 /\ stored = NoHash /\ result = << >>
    /\ fault = "none"

--------------------------------------------------------------------------------
(* The stream *)

\* The first n pieces of s reach the file, the others stay in the buffer.
WriteOut(s, n) ==
    /\ target' = [target EXCEPT !.pieces = @ \o SubSeq(s, 1, n)]
    /\ buffer' = SubSeq(s, n + 1, Len(s))
    /\ UNCHANGED memory

\* The ofstream writes out as much as it likes of what it holds.
PutFile(p) ==
    LET s == Append(buffer, p) IN \E n \in 0..Len(s) : WriteOut(s, n)

\* Memory grows ahead of what is written; beyond size_t nothing is written.
HasRoom == kind = "memory" => Fits(position, 1, sizeMax)

PutMemory(p) ==
    /\ target' = [target EXCEPT !.pieces = Written(@, position, p, sizeMax)]
    /\ position' = position + 1
    /\ UNCHANGED <<buffer, sizeMax, end>>

Put(p) == IF kind = "file" THEN PutFile(p) ELSE PutMemory(p)

--------------------------------------------------------------------------------
(* save_erased and serialize_erased_impl *)

\* Mutant of Open: the file is opened for appending.
OpenAppends ==
    /\ saver = "start"
    /\ saver' = "open"
    /\ UNCHANGED <<kind, stream, hashed, loading, fault>>

\* An ofstream truncates the file it opens; a Buffer is created empty.
Open ==
    /\ saver = "start"
    /\ target' = Empty /\ saver' = "open"
    /\ UNCHANGED <<kind, buffer, memory, hashed, loading, fault>>

OpenFails ==
    /\ saver = "start" /\ kind = "file"
    /\ saver' = "threw"
    /\ UNCHANGED <<kind, stream, hashed, loading, fault>>

\* write_qdata_header, which leaves the checksum 0
WriteHeader ==
    /\ saver = "open" /\ HasRoom
    /\ Put(Header) /\ saver' = "blocks"
    /\ UNCHANGED <<kind, hashed, loading, fault>>

\* write_and_update, of the size or the data of the next block
WriteBlock ==
    /\ saver = "blocks" /\ Len(hashed) < 2 * Blocks["new"] /\ HasRoom
    /\ LET p == Object("new")[Len(hashed) + 1]
       IN  Put(p) /\ hashed' = Append(hashed, p)
    /\ UNCHANGED <<kind, saver, loading, fault>>

\* block_writer.finish() has returned the checksum.
FinishBlocks ==
    /\ saver = "blocks" /\ Len(hashed) = 2 * Blocks["new"]
    /\ saver' = "hash"
    /\ UNCHANGED <<kind, stream, hashed, loading, fault>>

\* checked_required_capacity throws.
LengthError ==
    /\ saver \in {"open", "blocks"} /\ Len(hashed) < 2 * Blocks["new"]
    /\ ~HasRoom
    /\ saver' = "unwind"
    /\ UNCHANGED <<kind, stream, hashed, loading, fault>>

\* An exception before that: of validate_write_arguments, of write_fn, of an
\* allocation.  It leaves save by way of the destructors.
ObjectThrows ==
    /\ saver \in (IF kind = "memory" THEN {"open", "blocks"} ELSE {"blocks"})
    /\ saver' = "unwind"
    /\ UNCHANGED <<kind, stream, hashed, loading, fault>>

\* The failure of a write or a seek, after some of the buffer has been
\* written: con.exceptions is set, so it throws.
StreamFails ==
    /\ kind = "file" /\ saver \in {"open", "blocks", "hash"}
    /\ \E n \in 0..Len(buffer) : WriteOut(buffer, n)
    /\ saver' = "unwind"
    /\ UNCHANGED <<kind, hashed, loading, fault>>

\* Mutant of SeekFile: the position moves while the buffer is still to be written.
SeekFileUnflushed ==
    /\ kind = "file" /\ saver = "hash"
    /\ target' = [target EXCEPT !.hash = Digest(hashed)]
    /\ saver' = "patch"
    /\ UNCHANGED <<kind, buffer, memory, hashed, loading, fault>>

\* Mutant of SeekFile: a failure to write out the buffer is not noticed.
SeekFileUnchecked ==
    /\ kind = "file" /\ saver = "hash"
    /\ \E n \in 0..Len(buffer) :
         target' = [target EXCEPT !.pieces = @ \o SubSeq(buffer, 1, n)]
    /\ buffer' = << >> /\ saver' = "patch"
    /\ UNCHANGED <<kind, memory, hashed, loading, fault>>

\* write_qx_hash: seekp writes out the buffer before it moves the position...
SeekFile ==
    /\ kind = "file" /\ saver = "hash"
    /\ WriteOut(buffer, Len(buffer)) /\ saver' = "patch"
    /\ UNCHANGED <<kind, hashed, loading, fault>>

\* ...the checksum goes to the buffer, and the destructor writes it to the file
\* and drops an error.
CloseFile ==
    /\ kind = "file" /\ saver = "patch"
    /\ \/ target' = [target EXCEPT !.hash = Digest(hashed)] /\ UNCHANGED fault
       \/ fault' = "checksum lost" /\ UNCHANGED target
    /\ buffer' = << >>
    /\ saver' = "returned"
    /\ UNCHANGED <<kind, memory, hashed, loading>>

\* serialize_erased_impl: end_position is taken...
TellMemory ==
    /\ kind = "memory" /\ saver = "hash"
    /\ end' = position /\ saver' = "patch"
    /\ UNCHANGED <<kind, target, buffer, sizeMax, position, hashed, loading, fault>>

\* ...write_qx_hash goes back to the header (HEADER_HASH_POSITION is in it), and
\* overwrites the end of it...
PatchMemory ==
    /\ kind = "memory" /\ saver = "patch"
    /\ target' = [target EXCEPT !.hash = Digest(hashed)]
    /\ position' = 1 /\ saver' = "resize"
    /\ UNCHANGED <<kind, buffer, sizeMax, end, hashed, loading, fault>>

\* ...and seekp and resize_fn leave the buffer with what was written.
ResizeMemory ==
    /\ saver = "resize"
    /\ IF end > Len(target.pieces)
         THEN saver' = "unwind" /\ UNCHANGED <<target, position>>
         ELSE /\ position' = end
              /\ target' = [target EXCEPT !.pieces = Resized(@, end)]
              /\ saver' = "returned"
    /\ UNCHANGED <<kind, buffer, sizeMax, end, hashed, loading, fault>>

\* The destructor of the ofstream writes out what it can; a Buffer is gone.
Unwind ==
    /\ saver = "unwind"
    /\ IF kind = "file"
         THEN \E n \in 0..Len(buffer) :
                target' = [target EXCEPT !.pieces = @ \o SubSeq(buffer, 1, n)]
         ELSE target' = Empty
    /\ buffer' = << >> /\ saver' = "threw"
    /\ UNCHANGED <<kind, memory, hashed, loading, fault>>

\* The process ends, and what is in the buffer with it.
Crash ==
    /\ kind = "file" /\ saver \in {"open", "blocks", "hash", "patch", "unwind"}
    /\ buffer' = << >> /\ saver' = "crashed"
    /\ UNCHANGED <<kind, target, memory, hashed, loading, fault>>

SaveStep ==
    \/ Open \/ OpenFails \/ WriteHeader \/ WriteBlock \/ FinishBlocks
    \/ LengthError \/ ObjectThrows \/ StreamFails
    \/ SeekFile \/ CloseFile \/ TellMemory \/ PatchMemory \/ ResizeMemory
    \/ Unwind \/ Crash

Ended == saver \in {"returned", "threw", "crashed"}

\* What has been left is altered, cut or added to, in the header or behind it.
Damage ==
    /\ Ended /\ loader = "idle" /\ fault # "damaged" /\ target.pieces # << >>
    /\ fault' = "damaged"
    /\ \E s \in {SubSeq(target.pieces, 1, n) : n \in 1..(Len(target.pieces) - 1)}
                \cup {[target.pieces EXCEPT ![i] = Damaged] : i \in 1..Len(target.pieces)}
                \cup {Append(target.pieces, Damaged)} :
         target' = [target EXCEPT !.pieces = s]
    /\ UNCHANGED <<kind, buffer, memory, hashed, saver, loading>>

--------------------------------------------------------------------------------
(* read_file_impl, deserialize_impl and read_qdata_object *)

HeaderRead == Read(target.pieces, at, 1)

\* The checksum a header yields, unless it is refused: a stream too short for it
\* leaves zeros, which are no magic number; a damaged one may still pass, with a
\* checksum of its own or none.
StoredHashes ==
    IF HeaderRead = << >> THEN {}
    ELSE IF HeaderRead = <<Damaged>> THEN {target.hash, NoHash, Digest(<<Damaged>>)}
    ELSE {target.hash}

ReadHeader ==
    /\ Ended /\ loader = "idle"
    /\ validate' \in BOOLEAN
    /\ at' = at + Len(HeaderRead)
    /\ stored' \in StoredHashes
    /\ loader' = IF validate' THEN "validate" ELSE "decode"
    /\ UNCHANGED <<kind, stream, hashed, saver, result, fault>>

\* "Unknown file format detected" and the like
RefuseHeader ==
    /\ Ended /\ loader = "idle" /\ HeaderRead # <<Header>>
    /\ loader' = "threw"
    /\ UNCHANGED <<kind, stream, hashed, saver, validate, at, stored, result, fault>>

\* Mutant of Matches: a stream without a checksum is accepted.
MatchesOrNone(computed) == stored = NoHash \/ computed = stored

\* "does not contain a stored checksum", "checksum mismatch"
Matches(computed) == stored # NoHash /\ computed = stored

\* All that is left to be read.
Rest == Read(target.pieces, at, Len(target.pieces))

\* Mutant of CheckHash: the position stays behind what was hashed.
CheckHashAtEnd ==
    /\ loader = "validate"
    /\ loader' = IF Matches(Digest(Rest)) THEN "decode" ELSE "threw"
    /\ at' = at + Len(Rest)
    /\ UNCHANGED <<kind, stream, hashed, saver, validate, stored, result, fault>>

\* read_qx_hash over all that follows the header; then back to where it began.
CheckHash ==
    /\ loader = "validate"
    /\ loader' = IF Matches(Digest(Rest)) THEN "decode" ELSE "threw"
    /\ UNCHANGED <<kind, stream, hashed, saver, validate, at, stored, result, fault>>

\* The blocks are read as far as the object in them goes; what follows is not
\* looked at.
Holds(o) == Read(target.pieces, at, 2 * Blocks[o]) = Object(o)

Decode ==
    /\ loader = "decode"
    /\ \E o \in {"old", "new"} :
         Holds(o) /\ result' = Object(o) /\ at' = at + 2 * Blocks[o]
    /\ loader' = "returned"
    /\ UNCHANGED <<kind, stream, hashed, saver, validate, stored, fault>>

\* The stream ends early, or what is in it makes no object; or the header's
\* shuffle byte is damaged and the blocks need it.
DecodeFails ==
    /\ loader = "decode"
    /\ target.pieces[1] = Header => \A o \in {"old", "new"} : ~Holds(o)
    /\ loader' = "threw"
    /\ UNCHANGED <<kind, stream, hashed, saver, validate, at, stored, result, fault>>

\* A damaged block may still decode to something.
DecodeGarbage ==
    /\ loader = "decode"
    /\ Damaged \in ToSet(Rest)
    /\ \A o \in {"old", "new"} : ~Holds(o)
    /\ loader' = "returned" /\ result' = <<Damaged>>
    /\ UNCHANGED <<kind, stream, hashed, saver, validate, at, stored, fault>>

LoadStep == ReadHeader \/ RefuseHeader \/ CheckHash \/ Decode \/ DecodeFails \/ DecodeGarbage

Terminated == loader \in {"returned", "threw"} /\ UNCHANGED vars

Next == SaveStep \/ Damage \/ LoadStep \/ Terminated

Spec == Init /\ [][Next]_vars

--------------------------------------------------------------------------------
(* Properties *)

\* Type invariant: nothing is written outside of the memory there is.
TypeOK ==
    /\ kind \in {"file", "memory"}
    /\ target \in [pieces : Seq(Pieces), hash : [of : {"nothing", "data"}, pieces : Seq(Pieces)]]
    /\ buffer \in Seq(Pieces) /\ (kind = "memory" => buffer = << >>)
    /\ sizeMax \in SizeMaxes /\ position \in 0..sizeMax /\ end \in 0..sizeMax
    /\ kind = "memory" /\ ~Ended => position <= Len(target.pieces) /\ Len(target.pieces) <= sizeMax
    /\ hashed \in Seq(Pieces) /\ Len(hashed) <= 2 * Blocks["new"]
    /\ saver \in {"start", "open", "blocks", "hash", "patch", "resize", "unwind",
                  "returned", "threw", "crashed"}
    /\ loader \in {"idle", "validate", "decode", "returned", "threw"}
    /\ validate \in BOOLEAN /\ at \in 0..Len(target.pieces)
    /\ result \in Seq(Pieces)
    /\ fault \in {"none", "checksum lost", "damaged"}

\* At every moment, so also wherever a save stops: a file that carries a
\* checksum carries, to the last piece, what the checksum is of; and so does
\* the memory that is returned.
ChecksumIsLast ==
    target.hash # NoHash /\ fault # "damaged" /\ (kind = "file" \/ Ended) =>
        target.pieces = <<Header>> \o target.hash.pieces

\* A save that throws or is cut short leaves the beginning of the new file, or,
\* where it could not open the file, the old one: never some of each.
FailureLeavesPrefix ==
    saver \in {"threw", "crashed"} /\ fault # "damaged" =>
        IsPrefix(target.pieces, Whole("new")) \/ target = SavedFile("old")

\* A save that returns normally has left the whole object and no more in the
\* file or the memory, though each write to a file was only buffered when it
\* returned, and memory grows in leaps.
NoSilentLoss ==
    saver = "returned" /\ fault # "damaged" => target.pieces = Whole("new")

\* A validated read returns one object as it was saved, or throws: whatever
\* was cut short before, and whatever has happened to the stream.
ValidatedIsIntact ==
    loader = "returned" /\ validate => result \in {Object("old"), Object("new")}

\* What a save that returned has left is read back; and is validated, unless the
\* destructor could not write the checksum.
SavedReadsBack ==
    /\ saver = "returned" /\ loader = "threw" => fault = "damaged" \/ (validate /\ fault = "checksum lost")
    /\ saver = "returned" /\ loader = "returned" /\ fault # "damaged" => result = Object("new")
================================================================================
