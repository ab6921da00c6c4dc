------------------------------- MODULE DirTree -------------------------------
(***************************************************************************)
(* dirTree of chapter1/hw1/main.go, which draws a directory.  An entry of  *)
(* the file system is a record of its kind ("dir", "file", or "gone": it   *)
(* was listed, and removed before it was looked at), whether it is a       *)
(* directory in its parent's list, its size, and its entries in the order  *)
(* of their names, as <<name, entry>>.  A printed line is the sequence of  *)
(* its bars and gaps, its mark, the name and the size.                     *)
(***************************************************************************)
EXTENDS Integers, Sequences

LOCAL Seqs == INSTANCE SequencesExt

Bar == "|   "
Gap == "    "
NoSize == "none"

(* A path without a separator has no name; a size of 0 is said in words.    *)
ObjName(name, seps) == IF seps = 0 THEN "" ELSE name
FileSize(entry) == IF entry.size = 0 THEN "empty" ELSE entry.size

Drawn(indent, isLast, name, size) ==
  [indent |-> indent, mark |-> IF isLast THEN "last" ELSE "more", name |-> name, size |-> size]

(* filterFiles, and the list without it.                                    *)
Listed(entry, printFiles) ==
  IF printFiles THEN entry.entries
  ELSE SelectSeq(entry.entries, LAMBDA e : e[2].isDir)

-----------------------------------------------------------------------------
(* Mutant: the entries of the root are moved to the right.                  *)
CalcIndentFromOne(seps, prevIndent, isPrevLast) ==
  IF seps < 1 THEN <<>> ELSE Append(prevIndent, IF isPrevLast THEN Gap ELSE Bar)

(* Two or more separators in a path move it to the right.                   *)
CalcIndent(seps, prevIndent, isPrevLast) ==
  IF seps < 2 THEN <<>> ELSE Append(prevIndent, IF isPrevLast THEN Gap ELSE Bar)

RECURSIVE PrintTree(_, _, _, _, _, _, _)

(* printTree of the entry name, whose path has seps separators.  An error   *)
(* of an inner call is dropped.                                             *)
PrintTree(entry, name, seps, prevIndent, printFiles, isLast, isPrevLast) ==
  LET indent == CalcIndent(seps, prevIndent, isPrevLast)
      own == Drawn(indent, isLast, ObjName(name, seps), NoSize)
      inner == Listed(entry, printFiles)
      Inner(idx) == PrintTree(inner[idx][2], inner[idx][1], seps + 1, indent, printFiles,
                              idx = Len(inner), isLast)
  IN CASE entry.kind = "gone" -> <<>>
       [] entry.kind = "file" ->
            IF printFiles
            THEN <<Drawn(indent, isLast, ObjName(name, seps), FileSize(entry))>> ELSE <<>>
       [] OTHER -> (IF own.name = "" THEN <<>> ELSE <<own>>)
                     \o Seqs!FlattenSeq([idx \in DOMAIN inner |-> Inner(idx)])

dirTree(entry, name, seps, printFiles) ==
  PrintTree(entry, name, seps, <<>>, printFiles, FALSE, FALSE)

-----------------------------------------------------------------------------
(* The reference: an entry is found by its place, the sequence of positions *)
(* that lead to it from the root.                                           *)
RECURSIVE EntryAt(_, _, _)
EntryAt(root, place, printFiles) ==
  IF place = <<>> THEN root
  ELSE LET e == EntryAt(root, Seqs!Front(place), printFiles)
       IN Listed(e, printFiles)[Seqs!Last(place)][2]

IsLastAt(root, place, printFiles) ==
  Seqs!Last(place) = Len(Listed(EntryAt(root, Seqs!Front(place), printFiles), printFiles))

NameAt(root, place, printFiles) ==
  Listed(EntryAt(root, Seqs!Front(place), printFiles), printFiles)[Seqs!Last(place)][1]

(* All places below the root, each directory before its entries.            *)
RECURSIVE PlacesFrom(_, _, _)
PlacesFrom(root, place, printFiles) ==
  LET e == EntryAt(root, place, printFiles)
      Below(i) == <<Append(place, i)>> \o PlacesFrom(root, Append(place, i), printFiles)
  IN IF e.kind # "dir" THEN <<>>
     ELSE Seqs!FlattenSeq([i \in DOMAIN Listed(e, printFiles) |-> Below(i)])

(* The line of a place: for each directory above it but the root a bar, or  *)
(* a gap if that directory is the last of its list.  A root that is written *)
(* with separators is drawn too, as an entry that others follow, behind a   *)
(* bar if there is more than one.                                           *)
LineAt(root, seps, place, printFiles) ==
  LET above == [k \in 1 .. Len(place) - 1 |->
                  IF IsLastAt(root, SubSeq(place, 1, k), printFiles) THEN Gap ELSE Bar]
      e == EntryAt(root, place, printFiles)
      shift == CASE seps = 0 -> <<>> [] seps = 1 -> <<Bar>> [] OTHER -> <<Bar, Bar>>
  IN Drawn(shift \o above, IsLastAt(root, place, printFiles), NameAt(root, place, printFiles),
           IF e.kind = "file" THEN FileSize(e) ELSE NoSize)

Reference(root, name, seps, printFiles) ==
  LET places == SelectSeq(PlacesFrom(root, <<>>, printFiles),
                          LAMBDA p : EntryAt(root, p, printFiles).kind # "gone")
      top == Drawn(IF seps = 1 THEN <<>> ELSE <<Bar>>, FALSE, name, NoSize)
  IN (IF seps = 0 THEN <<>> ELSE <<top>>)
       \o [i \in DOMAIN places |-> LineAt(root, seps, places[i], printFiles)]

(* The recursion draws every directory, and every file if asked to, in      *)
(* order, under the bars of the lists that go on; an entry removed          *)
(* meanwhile is left out and disturbs no other line.                        *)
DrawnRight(root, name, seps, printFiles) ==
  dirTree(root, name, seps, printFiles) = Reference(root, name, seps, printFiles)
=============================================================================
