----------------------------- MODULE SourceLines -----------------------------
(***************************************************************************)
(* The source lines in the text of a node of a block graph: the cache of   *)
(* source files (disassembler/src/file_line_cache.rs), the look-up of the  *)
(* line of an address, and block_source_and_disasm of model.rs, which asks *)
(* for every instruction.  All texts are made anew whenever links come, so *)
(* that files may change on the disk in between.                           *)
(*                                                                         *)
(* A file is a sequence of characters of which only the line ends matter.  *)
(* There is one source file: at the path the debug data has, or beside the *)
(* recipe.  What the debug data says of an instruction is a line, or 0 for *)
(* no location and for an error.                                           *)
(***************************************************************************)
EXTENDS Integers, Sequences, FiniteSets, SequencesExt

CONSTANTS MaxFile,   \* bound: characters of a file
          MaxLine,   \* bound: line numbers in the debug data
          MaxWrites  \* bound: changes on the disk

ASSUME LinesAssumption == MaxWrites \in Nat

VARIABLES disk,     \* path -> content, or Unreadable
          files,    \* FileLineCache: the paths read so far
          told,     \* the text of one block, as it was made once (history)
          writes    \* bounded so far

lineVars == <<disk, files, told, writes>>

Paths == {"built", "recipe"}
Unreadable == <<"unreadable">>
Contents == BoundedSeq({"x", "\r", "\n"}, MaxFile)
Blocks == [1 .. 2 -> 0 .. MaxLine]
Nothing == [block |-> <<>>, text |-> <<>>]

\* What a file is written anew with.
Rewritten == {Unreadable, <<"x", "\n">>}

LinesInit ==
  /\ disk \in [Paths -> Contents \cup {Unreadable}]
  /\ disk["recipe"] \in Rewritten
  /\ files = <<>>
  /\ told = Nothing
  /\ writes = 0

-----------------------------------------------------------------------------
\* populate: byte 0, and one past every newline.
LineStarts(content) ==
  LET starts[i \in 0 .. Len(content)] ==
        IF i = 0 THEN <<0>>
        ELSE IF content[i] = "\n" THEN Append(starts[i - 1], i)
        ELSE starts[i - 1]
  IN  starts[Len(content)]

Stripped(line) ==
  IF IsSuffix(<<"\r", "\n">>, line) THEN SubSeq(line, 1, Len(line) - 2)
  ELSE IF IsSuffix(<<"\n">>, line) THEN SubSeq(line, 1, Len(line) - 1)
  ELSE line

\* FileLineCache::get, of a content it has; <<>> when there is no such line.
LineAt(content, n) ==
  LET starts == LineStarts(content)
      next == IF n + 1 \in DOMAIN starts THEN starts[n + 1] ELSE Len(content)
  IN  IF n \notin DOMAIN starts THEN <<>>
      ELSE <<Stripped(SubSeq(content, starts[n] + 1, next))>>

\* Mutant: a file that could not be read is read again when asked for.
ErrorsForgotten(cache, path) ==
  [p \in DOMAIN cache \cup {path} |->
     IF p \in DOMAIN cache /\ (p = path => cache[p] # Unreadable) THEN cache[p] ELSE disk[p]]

\* get_or_populate: whatever became of the first read is kept.
Populated(cache, path) ==
  [p \in DOMAIN cache \cup {path} |-> IF p \in DOMAIN cache THEN cache[p] ELSE disk[p]]

\* get_source_line: beside the recipe when the path cannot be read.
Asked(cache, n) ==
  LET built == Populated(cache, "built")
      both == Populated(built, "recipe")
  IN  IF n = 0 THEN [cache |-> cache, line |-> <<>>]
      ELSE IF built["built"] # Unreadable
        THEN [cache |-> built, line |-> LineAt(built["built"], n)]
      ELSE IF both["recipe"] # Unreadable
        THEN [cache |-> both, line |-> LineAt(both["recipe"], n)]
      ELSE [cache |-> both, line |-> <<>>]

Trimmed(line) ==
  SubSeq(line, Max({1, SelectInSeq(line, LAMBDA c : c = "x")}),
               SelectLastInSeq(line, LAMBDA c : c = "x"))

\* A line is left out after one it is the end of.
Written(source, line) ==
  IF line = <<>> THEN source
  ELSE LET last == IF source = <<>> THEN <<>> ELSE source[Len(source)]
       IN  IF IsSuffix(Trimmed(line[1]), last) THEN source
           ELSE Append(source, Trimmed(line[1]))

\* The source of a block, and the cache after it.
Source(cache, block) ==
  LET after[k \in 0 .. Len(block)] ==
        IF k = 0 THEN [cache |-> cache, text |-> <<>>]
        ELSE LET answer == Asked(after[k - 1].cache, block[k])
             IN  [cache |-> answer.cache, text |-> Written(after[k - 1].text, answer.line)]
  IN  after[Len(block)]

-----------------------------------------------------------------------------
\* block_source_and_disasm.  One of the blocks is remembered.
Describe == \E block \in Blocks :
  /\ files' = Source(files, block).cache
  /\ \/ told = Nothing /\ told' = [block |-> block, text |-> Source(files, block).text]
     \/ UNCHANGED told
  /\ UNCHANGED <<disk, writes>>

\* Somebody edits, removes or restores a file.
Edit == \E path \in Paths, content \in Rewritten :
  /\ writes < MaxWrites
  /\ disk' = [disk EXCEPT ![path] = content]
  /\ writes' = writes + 1
  /\ UNCHANGED <<files, told>>

LinesNext == Describe \/ Edit

LinesTypeOK ==
  /\ disk \in [Paths -> Contents \cup Rewritten]
  /\ DOMAIN files \subseteq Paths
  /\ \A path \in DOMAIN files : files[path] \in Contents \cup Rewritten
  /\ told = Nothing \/ told.block \in Blocks
  /\ writes \in 0 .. MaxWrites

-----------------------------------------------------------------------------
(* The text of a node does not depend on when it is made: files that are   *)
(* edited, go or come do not mix lines of two versions, or of two places,  *)
(* in one picture.                                                         *)
SameTextAgain == told # Nothing => Source(files, told.block).text = told.text

\* What stands between the newline before line n and the one after it.
Between(content, n) ==
  LET newlines(i) == Cardinality({j \in 1 .. i : content[j] = "\n"})
      places == {i \in DOMAIN content : newlines(i) = n - 1 /\ content[i] # "\n"}
      ended == newlines(Len(content)) >= n
      first == CHOOSE i \in places : \A j \in places : i <= j
      line == IF places = {} THEN <<>>
              ELSE SubSeq(content, first, first + Cardinality(places) - 1)
  IN  IF ended /\ IsSuffix(<<"\r">>, line) THEN SubSeq(line, 1, Len(line) - 1) ELSE line

Newlined(content) == Cardinality({i \in DOMAIN content : content[i] = "\n"})

\* The lines of a file, as BufRead::lines counts them: nothing after the last
\* newline is no line.
LineCount(content) ==
  IF content # <<>> /\ content[Len(content)] # "\n"
    THEN Newlined(content) + 1
    ELSE Newlined(content)

Readable == {path \in DOMAIN files : files[path] # Unreadable}

(* The line at the number of one is what stands between the newline before *)
(* it and the one after it, with both conventions for line ends and a last *)
(* line without one, and past the last line there is none.  The number     *)
(* after a final newline, or of an empty file, is left out: the doc        *)
(* comment of get promises None for a line that does not exist, and the    *)
(* code has an empty one there.                                            *)
LinesBetweenNewlines ==
  \A path \in Readable, n \in 1 .. MaxLine :
    /\ n <= LineCount(files[path]) => LineAt(files[path], n) = <<Between(files[path], n)>>
    /\ n > Newlined(files[path]) + 1 => LineAt(files[path], n) = <<>>

(* A text holds the lines its debug data names, as they were when the file *)
(* was first looked at, and the same ones every time.                      *)
TextsSound == LinesTypeOK /\ SameTextAgain /\ LinesBetweenNewlines
=============================================================================
