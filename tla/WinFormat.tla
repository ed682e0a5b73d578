----------------------------- MODULE WinFormat ------------------------------
(***************************************************************************)
(* The `.win` container: pack and unpack of the crate `win-format`.        *)
(*                                                                         *)
(* Data.  The bytes of a container are                                     *)
(*   magic (4), name length (4), name, file length (8), file, proof text.  *)
(* A container is a record: `magic` says whether the four bytes are right, *)
(* `name` is the name as its bytes spell it, `file_len` the length the     *)
(* header gives the file, `tail` everything behind that field (the file    *)
(* and the proof) as a sequence of tokens, and `have` how many bytes there *)
(* are, which is less than there were when the container was cut.          *)
(* A name has a directory part of `dir_len` bytes, a base of `len` bytes,  *)
(* and may hold a NUL.  A token stands for one byte.                       *)
(***************************************************************************)
EXTENDS Integers, Sequences

CONSTANT NameCap     \* the longest name unpack accepts: 4096 bytes

ASSUME NameCapAssumption == NameCap \in Nat \ {0}

Header == 16     \* the magic and the two length fields

\* sanitize_filename: what follows the last path separator.
Sanitize(name) == [name EXCEPT !.dir_len = 0]

NameLen(name) == name.dir_len + name.len

\* The number of bytes of a container that is whole.
Size(c) == Header + NameLen(c.name) + Len(c.tail)

\* Variant: the name is packed as it was given, with the length it has without
\* its directory.
Pack_Unsanitized(filename, file, proof) ==
    [magic |-> TRUE, name |-> filename, file_len |-> Len(file),
     tail |-> file \o proof,
     have |-> Header + filename.len + Len(file) + Len(proof)]

\* Variant: the directory counts.
Pack_CountsDir(filename, file, proof) ==
    [magic |-> TRUE, name |-> Sanitize(filename), file_len |-> Len(file),
     tail |-> file \o proof,
     have |-> Header + NameLen(filename) + Len(file) + Len(proof)]

Pack(filename, file, proof) ==
    [magic |-> TRUE, name |-> Sanitize(filename), file_len |-> Len(file),
     tail |-> file \o proof,
     have |-> Header + filename.len + Len(file) + Len(proof)]

\* The first n bytes of a container.
Cut(c, n) == [c EXCEPT !.have = n]
-----------------------------------------------------------------------------
(***************************************************************************)
(* brackets_balanced: one pass over the text with a depth and two flags;   *)
(* a bracket inside a string does not count, and the first unmatched       *)
(* closing one decides.                                                    *)
(***************************************************************************)
Quote   == "quote"
Escape  == "escape"
Opening == {"{", "["}
Closing == {"}", "]"}

ScanStart == [depth |-> 0, in_string |-> FALSE, escape |-> FALSE, failed |-> FALSE]

Scan(st, b) ==
    IF st.failed         THEN st
    ELSE IF st.escape    THEN [st EXCEPT !.escape = FALSE]
    ELSE IF st.in_string THEN [st EXCEPT !.escape = (b = Escape), !.in_string = (b # Quote)]
    ELSE IF b = Quote    THEN [st EXCEPT !.in_string = TRUE]
    ELSE IF b \in Opening THEN [st EXCEPT !.depth = @ + 1]
    ELSE IF b \in Closing THEN [st EXCEPT !.depth = @ - 1, !.failed = (st.depth = 0)]
    ELSE st

\* Where the scan is after each token; the first ones are those of a beginning.
ScanOf(text) ==
    LET after[i \in 0 .. Len(text)] ==
            IF i = 0 THEN ScanStart ELSE Scan(after[i - 1], text[i])
    IN  after

BracketsBalanced(text) ==
    LET end == ScanOf(text)[Len(text)]
    IN  ~ end.failed /\ ~ end.in_string /\ end.depth = 0
-----------------------------------------------------------------------------
(***************************************************************************)
(* unpack: its checks run in this order and the first that fails decides.  *)
(***************************************************************************)
FileStart(c) == Header + NameLen(c.name)

\* The bytes from the file on that are there.
Present(c) == SubSeq(c.tail, 1, c.have - FileStart(c))

FileBytes(c) == SubSeq(Present(c), 1, c.file_len)

ProofText(c) == SubSeq(Present(c), c.file_len + 1, c.have - FileStart(c))

\* Variant: the brackets of the proof are not looked at.
UnpackError_AnyProof(c) ==
    IF c.have < Header                        THEN "TooShort"
    ELSE IF ~ c.magic                         THEN "BadMagic"
    ELSE IF NameLen(c.name) > NameCap        THEN "BadFilename"
    ELSE IF c.have < FileStart(c)             THEN "Truncated"
    ELSE IF c.name.nul \/ c.name.len = 0      THEN "BadFilename"
    ELSE IF c.have < FileStart(c) + c.file_len THEN "Truncated"
    ELSE IF ProofText(c) = <<>>               THEN "MissingProof"
    ELSE "ok"

UnpackError(c) ==
    IF c.have < Header                        THEN "TooShort"
    ELSE IF ~ c.magic                         THEN "BadMagic"
    ELSE IF NameLen(c.name) > NameCap        THEN "BadFilename"
    ELSE IF c.have < FileStart(c)             THEN "Truncated"
    ELSE IF c.name.nul \/ c.name.len = 0      THEN "BadFilename"
    ELSE IF c.have < FileStart(c) + c.file_len THEN "Truncated"
    ELSE IF ProofText(c) = <<>>               THEN "MissingProof"
    ELSE IF ~ BracketsBalanced(ProofText(c))  THEN "Truncated"
    ELSE "ok"

\* WinError::is_container_damage: every error of unpack but an I/O error.
IsContainerDamage(error) == error # "Io"

\* is_win_file
IsWinFile(c) == c.have >= 4 /\ c.magic
=============================================================================
