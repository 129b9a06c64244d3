------------------------------ MODULE Barcode ------------------------------
(***************************************************************************)
(* The barcode reader, src/buddy3/buddy3.c: read_ir_sensors feeds one      *)
(* reading of the left sensor at a time to barcode_detector, which         *)
(* measures bars in readings, converts every nine of them with module      *)
(* Code39 and prints three characters.  The reset button interrupts it.    *)
(*                                                                         *)
(* The track is the environment: labels "*c*" separated by white, scanned  *)
(* from either end at some speed.  barcode_detector is cut where the       *)
(* button's interrupt tears the state of a label's chunks: before, within  *)
(* and after the conversion, and around the two resets at its end.  That   *)
(* it also tears one bar's count, in lines 262-287 and 322-328, is left    *)
(* out: the label under the sensor is disturbed either way.                *)
(***************************************************************************)
EXTENDS Code39

CONSTANTS
  Tracks        \* BOUND: sequences of labels [c |-> middle character, speeds |->
                \* readings per narrow bar of each of its three characters]

Labels == [c : Range(array_char), speeds : [1..3 -> Nat \ {0}]]
Run    == [black : BOOLEAN, n : Nat \ {0}]        \* a bar or gap, in readings
Chars  == Range(array_char) \cup {UNMAPPED_CHAR, ""}

ASSUME TracksAssumption == Tracks \subseteq Seq(Labels)

MAX_TRANSITIONS == 27
CHAR_COUNT == 3

VARIABLES
  pc,                      \* next piece of barcode_detector, "idle" outside it
  current_state_black,     \* local of barcode_detector
  detect_barcode, barcode_black_detected, stay_count, stay_counts, barcount,
  converted_chars, char_index,
  direction_determined, direction, last_conversion_barcount, waiting_for_black,
  ahead,                   \* track: the runs the sensor has still to cross
  label,                   \* track: middle character of the label being crossed, "" before the first
  coming,                  \* track: the labels still to come
  printed,                 \* history: what was printed for this label, <<>> if nothing
  found,                   \* history: how the label found the detector
  clean                    \* history: the detector is as a reset leaves it

bars     == <<stay_count, stay_counts, barcount, barcode_black_detected>>
chars    == <<converted_chars, char_index>>
flags    == <<detect_barcode, direction_determined, direction, last_conversion_barcount, waiting_for_black>>
track    == <<ahead, label, coming>>
history  == <<printed, found, clean>>
vars     == <<pc, current_state_black, bars, chars, flags, track, history>>

Places == {"idle", "transition", "check", "convert", "mark", "finish", "resume"}
Found  == {"reset", "used", "disturbed"}

NoCounts == [i \in 0..(MAX_TRANSITIONS - 1) |-> 0]

BarsOK ==
  /\ stay_count \in Nat /\ barcount \in 0..MAX_TRANSITIONS
  /\ stay_counts \in [0..(MAX_TRANSITIONS - 1) -> Nat]
  /\ barcode_black_detected \in BOOLEAN

CharsOK == converted_chars \in [1..CHAR_COUNT -> Chars] /\ char_index \in 0..CHAR_COUNT

FlagsOK ==
  /\ detect_barcode \in BOOLEAN /\ waiting_for_black \in BOOLEAN
  /\ direction_determined \in BOOLEAN /\ direction \in BOOLEAN
  /\ last_conversion_barcount \in {-1, 0, 9, 18, 27}

TrackOK == ahead \in Seq(Run) /\ coming \in Seq(Labels)

TypeOK ==
  /\ pc \in Places /\ current_state_black \in BOOLEAN
  /\ BarsOK /\ CharsOK /\ FlagsOK /\ TrackOK
  /\ found \in Found /\ clean \in BOOLEAN

Init ==
  /\ pc = "idle" /\ current_state_black = FALSE
  /\ detect_barcode = FALSE /\ barcode_black_detected = FALSE
  /\ stay_count = 0 /\ stay_counts = NoCounts /\ barcount = 0
  /\ converted_chars = [i \in 1..CHAR_COUNT |-> ""] /\ char_index = 0
  /\ direction_determined = FALSE /\ direction = FALSE
  /\ last_conversion_barcount = -1 /\ waiting_for_black = FALSE
  /\ ahead = <<>> /\ label = "" /\ coming \in Tracks
  /\ printed = <<>> /\ found = "reset" /\ clean = TRUE

-----------------------------------------------------------------------------
(* The track: a label is three characters of nine bars, black first, with  *)
(* a white gap after each, a wide bar three times as long as a narrow one; *)
(* scanned from the other end, all is reversed.                            *)
Runs(c, n) ==
  LET code == array_code[CHOOSE i \in DOMAIN array_char : array_char[i] = c]
  IN [i \in 1..CHUNK_SIZE |-> [black |-> i % 2 = 1, n |-> IF i \in code THEN 3 * n ELSE n]]

Gap(n) == <<[black |-> FALSE, n |-> n]>>

Label(l, reversed) ==
  LET n    == l.speeds
      runs == Runs("*", n[1]) \o Gap(n[1]) \o Runs(l.c, n[2]) \o Gap(n[2]) \o Runs("*", n[3])
  IN (IF reversed THEN Reverse(runs) ELSE runs) \o Gap(n[3])

Approach ==
  /\ pc = "idle" /\ ahead = <<>> /\ coming # <<>>
  /\ label' = Head(coming).c
  /\ \E reversed \in BOOLEAN : ahead' = Label(Head(coming), reversed)
  /\ coming' = Tail(coming)
  /\ printed' = <<>>
  /\ found' = IF clean THEN "reset" ELSE IF found = "disturbed" THEN "disturbed" ELSE "used"
  /\ clean' = FALSE
  /\ UNCHANGED <<pc, current_state_black, bars, chars, flags>>

-----------------------------------------------------------------------------
(* read_ir_sensors: the first black starts the detector, which then gets   *)
(* every reading.                                                          *)
Read ==
  /\ pc = "idle" /\ ahead # <<>>
  /\ LET run == Head(ahead)
     IN /\ current_state_black' = run.black
        /\ ahead' = IF run.n > 1 THEN <<[run EXCEPT !.n = @ - 1]>> \o Tail(ahead) ELSE Tail(ahead)
        /\ detect_barcode' = (detect_barcode \/ run.black)
        /\ pc' = IF detect_barcode' THEN "transition" ELSE "idle"
  /\ UNCHANGED <<bars, chars, direction_determined, direction, last_conversion_barcount,
                 waiting_for_black, label, coming, history>>

(* A new colour ends a bar, the same colour prolongs it; neither while the *)
(* gap after a character is being crossed.                                 *)
Transition ==
  /\ pc = "transition" /\ pc' = "check"
  /\ LET changed == current_state_black # barcode_black_detected
         first   == current_state_black /\ barcount = 0 /\ stay_count = 0
     IN \/ /\ ~waiting_for_black /\ changed
           /\ stay_count' = 1
           /\ IF ~first /\ stay_count > 0 /\ barcount < MAX_TRANSITIONS
              THEN /\ stay_counts' = [stay_counts EXCEPT ![barcount] = stay_count]
                   /\ barcount' = barcount + 1
              ELSE UNCHANGED <<stay_counts, barcount>>
        \/ /\ ~waiting_for_black /\ ~changed
           /\ stay_count' = IF stay_count > 0 THEN stay_count + 1 ELSE 0
           /\ UNCHANGED <<stay_counts, barcount>>
        \/ /\ waiting_for_black
           /\ UNCHANGED <<stay_count, stay_counts, barcount>>
  /\ barcode_black_detected' = current_state_black
  /\ UNCHANGED <<current_state_black, chars, flags, track, history>>

ChunkDone == /\ barcount % CHUNK_SIZE = 0 /\ barcount > 0
             /\ barcount # last_conversion_barcount

Check ==
  /\ pc = "check"
  /\ pc' = IF ChunkDone THEN "convert" ELSE "finish"
  /\ UNCHANGED <<current_state_black, bars, chars, flags, track, history>>

(* The last nine counts; before the array, when the button has set         *)
(* barcount back in the meantime, there is other memory: any code at all,  *)
(* of which a start character and an unmapped code stand for the rest.     *)
WindowCodes ==
  IF barcount >= CHUNK_SIZE
  THEN {Wide([i \in 1..CHUNK_SIZE |-> stay_counts[barcount - CHUNK_SIZE + i - 1]])}
  ELSE {array_code[44], {}}

(* convert_stay_counts on one chunk.  The first chunk must be "*", read    *)
(* either way; when it is not, no character is stored, but the direction   *)
(* counts as determined all the same.                                      *)
Convert ==
  /\ pc = "convert" /\ pc' = "mark"
  /\ \E code \in WindowCodes :
       LET normal  == map_binary_to_char(code, FALSE) = "*"
           reverse == map_binary_to_char(code, TRUE) = "*"
           known   == direction_determined \/ normal \/ reverse
       IN /\ direction' = IF direction_determined \/ ~known THEN direction ELSE ~normal
          /\ IF known /\ char_index < CHAR_COUNT
             THEN /\ converted_chars' = [converted_chars EXCEPT ![char_index + 1] =
                                           map_binary_to_char(code, direction')]
                  /\ char_index' = char_index + 1
             ELSE UNCHANGED chars
  /\ direction_determined' = TRUE
  /\ UNCHANGED <<current_state_black, bars, detect_barcode, last_conversion_barcount,
                 waiting_for_black, track, history>>

(* mutant: the gap after a character is counted as a bar *)
Mark_CountsGap ==
  /\ pc = "mark" /\ pc' = "finish"
  /\ last_conversion_barcount' = barcount
  /\ UNCHANGED <<current_state_black, bars, chars, detect_barcode, direction_determined,
                 direction, waiting_for_black, track, history>>

Mark ==
  /\ pc = "mark" /\ pc' = "finish"
  /\ last_conversion_barcount' = barcount
  /\ waiting_for_black' = TRUE
  /\ UNCHANGED <<current_state_black, bars, chars, detect_barcode, direction_determined,
                 direction, track, history>>

(* After 27 bars: print, and reset for the next detection.                 *)
Finish ==
  /\ pc = "finish" /\ pc' = "resume"
  /\ IF barcount >= MAX_TRANSITIONS
     THEN /\ printed' = converted_chars
          /\ barcount' = 0 /\ char_index' = 0
          /\ detect_barcode' = FALSE /\ direction_determined' = FALSE
          /\ last_conversion_barcount' = -1 /\ waiting_for_black' = FALSE
     ELSE UNCHANGED <<printed, barcount, char_index, detect_barcode, direction_determined,
                      last_conversion_barcount, waiting_for_black>>
  /\ UNCHANGED <<current_state_black, stay_count, stay_counts, barcode_black_detected,
                 converted_chars, direction, track, found, clean>>

Resume ==
  /\ pc = "resume" /\ pc' = "idle"
  /\ IF waiting_for_black /\ current_state_black
     THEN waiting_for_black' = FALSE /\ stay_count' = 1
     ELSE UNCHANGED <<waiting_for_black, stay_count>>
  /\ UNCHANGED <<current_state_black, stay_counts, barcount, barcode_black_detected, chars,
                 detect_barcode, direction_determined, direction, last_conversion_barcount,
                 track, history>>

barcode_detector == Transition \/ Check \/ Convert \/ Mark \/ Finish \/ Resume

-----------------------------------------------------------------------------
(* The button's interrupt, reset_barcode_detector.  It leaves direction    *)
(* and converted_chars as they are.                                        *)
Press ==
  /\ barcount' = 0 /\ char_index' = 0
  /\ detect_barcode' = FALSE /\ direction_determined' = FALSE
  /\ last_conversion_barcount' = -1 /\ waiting_for_black' = FALSE
  /\ stay_count' = 0 /\ barcode_black_detected' = FALSE
  /\ stay_counts' = NoCounts
  /\ clean' = (ahead = <<>> /\ pc = "idle")
  /\ found' = IF clean' THEN found ELSE "disturbed"
  /\ UNCHANGED <<pc, current_state_black, converted_chars, direction, track, printed>>

Next == Approach \/ Read \/ barcode_detector \/ Press

Spec == Init /\ [][Next]_vars

-----------------------------------------------------------------------------
Passed == ahead = <<>> /\ pc = "idle" /\ label # ""
Decoded == printed = <<"*", label, "*">>

(* A label crossed from either end and at any speed is printed, complete   *)
(* and in order, by a detector that starts as power-on or the reset button *)
(* leaves it, even with the direction and characters of an earlier label   *)
(* still in memory (buddy3.c 256-328, 344-364).  Each of the 44 characters *)
(* is told from its widths, in both tables (buddy3.c 99-127, 188-210).     *)
FirstLabelDecodes == Passed /\ found = "reset" => Decoded

(* "Reset for next detection" (buddy3.c 313): the label after a printed    *)
(* one is decoded as well.                                                 *)
EveryLabelDecodes == Passed /\ found \in {"reset", "used"} => Decoded
=============================================================================
