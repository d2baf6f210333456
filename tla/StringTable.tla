----------------------------- MODULE StringTable -----------------------------
(***************************************************************************)
(* The string table of a bundle and the four edits of it (write/patch/     *)
(* strings.rs, write/patch/string_storage.rs): kinds, identifier hashes,   *)
(* small and overflow entries, and the storage strings share.              *)
(*                                                                         *)
(* A string is stored as bytes and an encoding.  Its hash is the string    *)
(* itself: the model has no collisions.                                    *)
(***************************************************************************)
EXTENDS SortedSets, Integers, SequencesExt

CONSTANTS
  Texts,          \* what a caller may write: sequences of code units
  Ascii,          \* the units below 0x80
  Lone,           \* an unpaired surrogate, which only a compiler writes
  Replacement,    \* U+FFFD
  Misread,        \* "<invalid utf8>", what the parser reads outside the storage
  OffsetLimit,    \* 1 << 23: offsets below it fit a small entry
  LengthOverflow, \* 0xff: the length that marks an overflowed entry
  Opened,         \* the tables of the files opened
  MaxStrings      \* bound: no string is added to a table of this many

ASSUME LimitsAssumption ==
  OffsetLimit \in Nat /\ LengthOverflow \in Nat \ {0} /\ MaxStrings \in Nat

VARIABLES
  file,           \* [kinds, hashes, small, overflow, storage]
  last            \* the last edit

vars == <<file, last>>

----------------------------------------------------------------------------
\* Strings as they are stored.

\* StoredString::encode: one byte a unit if all are ASCII, two otherwise.
Encode(t) ==
  IF \A n \in DOMAIN t : t[n] \in Ascii
  THEN [wide |-> FALSE, bytes |-> t]
  ELSE [wide |-> TRUE, bytes |-> FlattenSeq([n \in DOMAIN t |-> <<t[n], 0>>])]

Values == {Encode(t) : t \in Texts}

\* What the storage and the hashes of a table hold.
Byte == {0} \cup UNION {Range(t) : t \in Texts} \cup UNION {Range(f.storage) : f \in Opened}
Hash == [wide : BOOLEAN, bytes : Seq(Byte \cup {Replacement})] \cup {Misread}

Tables ==
  [kinds : Seq([ident : BOOLEAN, count : Nat]), hashes : Seq(Hash),
   small : Seq([wide : BOOLEAN, offset : Nat, length : Nat]),
   overflow : Seq([offset : Nat, length : Nat]), storage : Seq(Byte)]

ASSUME TextsAssumption == \A t \in Texts : t \in Seq(Byte) /\ Lone \notin Range(t)

Unit(wide) == IF wide THEN 2 ELSE 1

\* SmallStringEntry::resolve and read_all_string_locs: where the bytes of string i are.
Loc(f, i) ==
  LET e == f.small[i]
      at == IF e.length = LengthOverflow THEN f.overflow[e.offset + 1]
            ELSE [offset |-> e.offset, length |-> e.length] IN
  [start |-> at.offset, end |-> at.offset + at.length * Unit(e.wide)]

\* current_strings: string i, as the engine reads it.
Stored(f, i) ==
  [wide |-> f.small[i].wide, bytes |-> SubSeq(f.storage, Loc(f, i).start + 1, Loc(f, i).end)]

Strings(f) == [i \in DOMAIN f.small |-> Stored(f, i)]

\* parse_string_table: the value the parsed model has for string i.
Parsed(f, i) ==
  IF Loc(f, i).start >= Len(f.storage) \/ Loc(f, i).end > Len(f.storage) THEN Misread
  ELSE [Stored(f, i) EXCEPT !.bytes = [n \in DOMAIN @ |-> IF @[n] = Lone THEN Replacement ELSE @[n]]]

\* expanded_kinds: the runs of kinds, one string after the other.
ExpandedKinds(kinds) ==
  FlattenSeq([k \in DOMAIN kinds |-> [n \in 1..kinds[k].count |-> kinds[k].ident]])

IsIdentifier(f, i) == i \in DOMAIN ExpandedKinds(f.kinds) /\ ExpandedKinds(f.kinds)[i]

\* identifier_index, from 1
IdentifierIndex(f, i) == Cardinality({j \in 1..i : IsIdentifier(f, j)})

Identifiers(f) == {i \in DOMAIN f.small : IsIdentifier(f, i)}

\* Every identifier has its hash, but for texts the parsed model need not have.
HashesMatch(f) ==
  /\ Len(f.hashes) = Cardinality(Identifiers(f))
  /\ \A i \in Identifiers(f) :
       LET s == Stored(f, i) IN
       \/ f.hashes[IdentifierIndex(f, i)] = s
       \/ s.bytes = <<>> \/ Lone \in Range(s.bytes)

Aligned(f) == \A i \in DOMAIN f.small : f.small[i].wide => Loc(f, i).start % 2 = 0

\* A table as compilers write it, of strings an edit can read (current_strings
\* fails on any other).
WellFormed(f) ==
  /\ f \in Tables
  /\ \A i \in DOMAIN f.small :
       /\ f.small[i].length = LengthOverflow => f.small[i].offset < Len(f.overflow)
       /\ Loc(f, i).end <= Len(f.storage)
  /\ Len(ExpandedKinds(f.kinds)) = Len(f.small)
  /\ HashesMatch(f) /\ Aligned(f)

ASSUME OpenedAssumption == \A f \in Opened : WellFormed(f)

----------------------------------------------------------------------------
\* Laying out the storage anew.

Occurrences(s, t) ==
  {k \in 0..(Len(t.bytes) - Len(s.bytes)) :
     /\ k % Unit(s.wide) = 0
     /\ SubSeq(t.bytes, k + 1, k + Len(s.bytes)) = s.bytes}

\* pack_group, pack_contained, containers: of the strings of one encoding, those
\* written out first.  Packed, these are the ones no other contains, each once.
Roots(strings, wide, pinned, packed) ==
  LET shared == {i \in DOMAIN strings : strings[i].wide = wide} \ pinned
      root(i) ==
        \/ ~packed
        \/ /\ strings[i].bytes # <<>>
           /\ \A j \in shared \ {i} :
                /\ strings[j] = strings[i] => i < j
                /\ Occurrences(strings[i], strings[j]) # {} => strings[j] = strings[i] IN
  Sorted({i \in shared : root(i)})

\* pack_group: the pinned ones follow.
Pinned(strings, wide, pinned) ==
  Sorted({i \in pinned : strings[i].wide = wide})

Bytes(strings, ids) == FlattenSeq([n \in DOMAIN ids |-> strings[ids[n]].bytes])

\* Mutant: the UTF-16 half follows as it is.
Unpadded(half, strings) == half

\* lay_out: the ASCII half is padded to two bytes if a UTF-16 half follows.
Padded(half, strings) ==
  IF Len(half) % 2 = 1 /\ \E i \in DOMAIN strings : strings[i].wide
  THEN Append(half, 0) ELSE half

\* Mutant: a contained string is placed at the start of its root.
PlaceAtRoot(strings, i, roots, order, late) ==
  LET at(n) == Len(Bytes(strings, SubSeq(order, 1, n - 1)))
      holds(n) == Occurrences(strings[i], strings[roots[n]]) # {} IN
  CASE i \in Range(order) -> at(CHOOSE n \in DOMAIN order : order[n] = i)
    [] i \notin Range(order) /\ strings[i].bytes = <<>> -> Len(Bytes(strings, roots))
    [] OTHER -> at(CHOOSE n \in DOMAIN roots : holds(n))

\* Where string i comes to stand in its half: roots are written first, pinned ones
\* next, and the others stand inside a root.  The search takes an occurrence that
\* is next in the order of all suffixes; the model takes the first or the last.
Place(strings, i, roots, order, late) ==
  LET at(n) == Len(Bytes(strings, SubSeq(order, 1, n - 1)))
      inside == UNION { {at(n) + k : k \in Occurrences(strings[i], strings[roots[n]])} :
                        n \in DOMAIN roots } IN
  CASE i \in Range(order) -> at(CHOOSE n \in DOMAIN order : order[n] = i)
    [] i \notin Range(order) /\ strings[i].bytes = <<>> -> Len(Bytes(strings, roots))
    [] OTHER -> IF late THEN Max(inside) ELSE Min(inside)

\* lay_out, SmallStringEntry::for_string: the tables and the storage.
LayOut(strings, pinned, packed, late) ==
  LET ascii == Roots(strings, FALSE, pinned, packed)
      utf16 == Roots(strings, TRUE, pinned, packed)
      asciiAll == ascii \o Pinned(strings, FALSE, pinned)
      utf16All == utf16 \o Pinned(strings, TRUE, pinned)
      half == Padded(Bytes(strings, asciiAll), strings)
      off == [i \in DOMAIN strings |->
                IF strings[i].wide THEN Len(half) + Place(strings, i, utf16, utf16All, late)
                ELSE Place(strings, i, ascii, asciiAll, late)]
      len == [i \in DOMAIN strings |-> Len(strings[i].bytes) \div Unit(strings[i].wide)]
      long == {i \in DOMAIN strings : off[i] >= OffsetLimit \/ len[i] >= LengthOverflow}
      records == Sorted(long) IN
  [small |-> [i \in DOMAIN strings |->
     [wide |-> strings[i].wide,
      offset |-> IF i \in long THEN Cardinality({j \in long : j < i}) ELSE off[i],
      length |-> IF i \in long THEN LengthOverflow ELSE len[i]]],
   overflow |-> [n \in DOMAIN records |-> [offset |-> off[records[n]], length |-> len[records[n]]]],
   storage |-> half \o Bytes(strings, utf16All)]

----------------------------------------------------------------------------
\* The edits.

\* Whether string i shares a byte with another one.
Shared(f, i) ==
  \E j \in DOMAIN f.small \ {i} :
    /\ Loc(f, j).start < Loc(f, j).end
    /\ Loc(f, i).start < Loc(f, j).end /\ Loc(f, j).start < Loc(f, i).end

\* validate: every string reads back, and a pinned one has its bytes to itself.
Valid(f, strings, pinned) ==
  /\ Strings(f) = strings
  /\ \A i \in pinned : Loc(f, i).start < Loc(f, i).end => ~Shared(f, i)

\* commit_image_checked: an image that does not read back as intended is refused.
Commit(after, strings, pinned, edit) ==
  LET valid == Valid(after, strings, pinned) IN
  /\ file' = IF valid THEN after ELSE file
  /\ last' = IF valid THEN edit ELSE [op |-> "refused"]

\* update_identifier_hash
Rehashed(f, i, value) ==
  IF IsIdentifier(f, i) THEN [f.hashes EXCEPT ![IdentifierIndex(f, i)] = value] ELSE f.hashes

\* patch_string_resize
Resize(i, value, packed) ==
  LET strings == [Strings(file) EXCEPT ![i] = value] IN
  \E late \in {FALSE, packed} :
    LET laid == LayOut(strings, {i}, packed, late) IN
    Commit([file EXCEPT !.small = laid.small, !.overflow = laid.overflow,
                        !.storage = laid.storage, !.hashes = Rehashed(file, i, value)],
           strings, {i}, [op |-> "set", id |-> i, value |-> value])

\* patch_string_by_id: the bytes are overwritten where they are.
Overwrite(i, value) ==
  LET at == Loc(file, i)
      after == [file EXCEPT
        !.storage = [n \in DOMAIN @ |-> IF n \in (at.start + 1)..at.end
                                        THEN value.bytes[n - at.start] ELSE @[n]],
        !.hashes = Rehashed(file, i, value)] IN
  Commit(after, [Strings(file) EXCEPT ![i] = value], {},
         [op |-> "set", id |-> i, value |-> value])

\* Mutant: an entry that ends where another begins counts as shared.
InPlaceIfApart(f, i, value) ==
  /\ ~f.small[i].wide /\ ~value.wide
  /\ Len(value.bytes) = Len(Stored(f, i).bytes)
  /\ \A j \in DOMAIN f.small \ {i} :
       \/ Loc(f, j).start = Loc(f, j).end
       \/ Loc(f, i).start > Loc(f, j).end \/ Loc(f, j).start > Loc(f, i).end

\* patch_string_by_id: ASCII for as many ASCII characters, in bytes of its own.
InPlace(f, i, value) ==
  /\ ~f.small[i].wide /\ ~value.wide
  /\ Len(value.bytes) = Len(Stored(f, i).bytes)
  /\ ~Shared(f, i)

\* patch_string_by_id.  patch_string_replace calls it for the first string of a value.
PatchById(i, value, packed) ==
  \/ InPlace(file, i, value) /\ Overwrite(i, value)
  \/ ~InPlace(file, i, value) /\ Resize(i, value, packed)

\* Mutant: the hash of an identifier stays when it is retargeted.
RetargetEntry(i, j) ==
  /\ i # j
  /\ Commit([file EXCEPT !.small[i] = file.small[j]],
            [Strings(file) EXCEPT ![i] = Stored(file, j)], {},
            [op |-> "retarget", id |-> i, to |-> j])

\* retarget_string: one entry is copied over the other.
RetargetString(i, j) ==
  /\ i # j
  /\ Commit([file EXCEPT !.small[i] = file.small[j],
                         !.hashes = Rehashed(file, i, Parsed(file, j))],
            [Strings(file) EXCEPT ![i] = Stored(file, j)], {},
            [op |-> "retarget", id |-> i, to |-> j])

\* add_string: the last run of kinds grows, or a new one begins.
KindsWith(kinds, ident) ==
  IF kinds # <<>> /\ Last(kinds).ident = ident
  THEN [kinds EXCEPT ![Len(kinds)].count = @ + 1]
  ELSE Append(kinds, [ident |-> ident, count |-> 1])

\* add_string
AddString(value, ident, packed) ==
  LET strings == Append(Strings(file), value)
      id == Len(strings) IN
  /\ id <= MaxStrings
  /\ \E late \in {FALSE, packed} :
       LET laid == LayOut(strings, {id}, packed, late) IN
       Commit([kinds |-> KindsWith(file.kinds, ident),
               hashes |-> IF ident THEN Append(file.hashes, value) ELSE file.hashes,
               small |-> laid.small, overflow |-> laid.overflow, storage |-> laid.storage],
              strings, {id}, [op |-> "add", value |-> value, ident |-> ident])

Init == file \in Opened /\ last = [op |-> "open"]

Next ==
  \/ \E i \in DOMAIN file.small, value \in Values, packed \in BOOLEAN : PatchById(i, value, packed)
  \/ \E i, j \in DOMAIN file.small : RetargetString(i, j)
  \/ \E value \in Values, ident, packed \in BOOLEAN : AddString(value, ident, packed)

Spec == Init /\ [][Next]_vars

----------------------------------------------------------------------------
Document == INSTANCE StringDocument WITH
  strings <- [i \in DOMAIN file.small |->
                [value |-> Stored(file, i), ident |-> IsIdentifier(file, i)]],
  asked <- last

(***************************************************************************)
(* Whatever shares storage, an edit succeeds and shows, through the tables,*)
(* as the one change it was asked for: no other string reads differently,  *)
(* changes its encoding or its kind, and the check of the result           *)
(* (string_storage.rs:483, validate) never has anything to refuse.         *)
(***************************************************************************)
EditsAsAsked == Document!Spec

(***************************************************************************)
(* The engine finds an identifier by its hash: the hash table has one entry*)
(* per identifier, in the order of ids, and each is the hash of what the   *)
(* string now is.  Left out are texts the parsed model need not have as they  *)
(* are, empty ones and those with an unpaired surrogate (README section 6).*)
(***************************************************************************)
HashesFollow == HashesMatch(file)

(***************************************************************************)
(* "No UTF-16 string starts at an odd offset" (string_storage.rs:6), in    *)
(* whatever order strings of both encodings are written, retargeted and added. *)
(***************************************************************************)
WideAligned == Aligned(file)

(***************************************************************************)
(* The string a rebuild was made for has its bytes to itself, "so the next *)
(* same-length patch of it does not bounce to another rebuild"             *)
(* (string_storage.rs:14): the tables stay as they are from then on, until *)
(* another string is rebuilt.                                              *)
(***************************************************************************)
NextPatchIsInPlace ==
  [][last'.op = "set" =>
       LET i == last'.id
           before == Stored(file, i)
           after == Stored(file', i) IN
       /\ after.bytes # <<>> => ~Shared(file', i)
       /\ (/\ ~Shared(file, i) /\ ~before.wide /\ ~after.wide
           /\ Len(before.bytes) = Len(after.bytes))
          => file'.small = file.small]_vars
=============================================================================
