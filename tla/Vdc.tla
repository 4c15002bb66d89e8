---------------------------------- MODULE Vdc ----------------------------------
(* The 8563 video chip as platform/c128/vdc_screen.c drives it: its RAM, the   *)
(* runs that fill and copy it in chunks the eight-bit word count can express,  *)
(* the cursor, and the loading of the CP437 font.  The chip is a record; the   *)
(* registers a run sets before it uses them are arguments.                     *)
EXTENDS Integers

CONSTANTS
  MEM,  \* bytes of video RAM (64K)
  CHUNK \* what a word count of 0 stands for, and the longest chunk (256)

ASSUME VdcAssumption == MEM \in Nat \ {0} /\ CHUNK \in Nat \ {0, 1}

Address == 0..(MEM - 1)

NewVdc(contents) ==
  [mem |-> contents, copy |-> FALSE, cursor |-> 0, shown |-> FALSE,
   font |-> "SYSTEM", fontActive |-> FALSE]

-----------------------------------------------------------------------------
(* The chip: a byte to DATA is stored; a word count then repeats it, or copies *)
(* a block upwards byte by byte when the copy bit is set.  Blocks are copied   *)
(* to lower addresses only.                                                    *)

Store(d, to, value) == [d EXCEPT !.mem[to % MEM] = value]

Block(to, n) == {(to + k) % MEM : k \in 0..((IF n = 0 THEN CHUNK ELSE n) - 1)}

WordCount(d, to, from, value, n) ==
  LET block == Block(to, n)
      old == d.mem
  IN [d EXCEPT !.mem =
        [a \in Address |->
           IF a \notin block THEN old[a]
           ELSE IF d.copy THEN old[(from + (a - to)) % MEM]
           ELSE value]]

-----------------------------------------------------------------------------
(* screen_fill_run, screen_copy_run and screen_write_run.                    *)

\* What of a run of n bytes comes before its last chunk: all are of CHUNK bytes
\* but that one.
Before(n) == CHUNK * ((n - 1) \div CHUNK)

(* The word count is the size of the chunk: it stores one byte too many.     *)
FillChunkTooLong(d, to, value, n) ==
  WordCount(Store([d EXCEPT !.copy = FALSE], to, value), to + 1, 0, value,
            n % CHUNK)

\* Storing the first byte leaves one less to repeat.
FillChunk(d, to, value, n) ==
  LET first == Store([d EXCEPT !.copy = FALSE], to, value)
  IN IF n = 1 THEN first ELSE WordCount(first, to + 1, 0, value, n - 1)

CopyChunk(d, to, from, n) ==
  WordCount([d EXCEPT !.copy = TRUE], to, from, 0, n % CHUNK)

FillRun(d, to, value, n) ==
  LET run[k \in 0..n] ==
        IF k = 0 THEN d
        ELSE FillChunk(run[Before(k)], to + Before(k), value, k - Before(k))
  IN run[n]

CopyRun(d, to, from, n) ==
  LET run[k \in 0..n] ==
        IF k = 0 THEN d
        ELSE CopyChunk(run[Before(k)], to + Before(k), from + Before(k),
                       k - Before(k))
  IN [run[n] EXCEPT !.copy = FALSE]

SetCursor(d, at, visible) == [d EXCEPT !.cursor = at, !.shown = visible]

-----------------------------------------------------------------------------
(* The font.  The file may be missing, cut short, too long, or whole.        *)

RestoreFont(d) ==
  IF d.fontActive THEN [d EXCEPT !.font = "SYSTEM", !.fontActive = FALSE] ELSE d

FontFile == {"MISSING", "SHORT", "LONG", "WHOLE"}

(* A file that ends early is an error that leaves what was loaded.           *)
LoadFontKeepsPart(d, file) ==
  LET old == RestoreFont(d)
      loaded == [old EXCEPT !.fontActive = TRUE,
                   !.font = IF file = "SHORT" THEN "PART" ELSE "CP437"]
  IN CASE file = "MISSING" -> old
       [] file = "LONG"    -> RestoreFont(loaded)
       [] OTHER            -> loaded

\* screen_load_cp437 succeeds with a whole file only.
LoadFont(d, file) ==
  LET old == RestoreFont(d)
      loaded == [old EXCEPT !.fontActive = TRUE,
                   !.font = IF file = "SHORT" THEN "PART" ELSE "CP437"]
  IN CASE file = "MISSING"          -> old
       [] file \in {"SHORT", "LONG"} -> RestoreFont(loaded)
       [] file = "WHOLE"            -> loaded
=============================================================================
