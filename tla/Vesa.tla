-------------------------------- MODULE Vesa ---------------------------------
(***************************************************************************)
(* vesa.c and the part of kernel_main that uses it at boot: the list of    *)
(* modes the BIOS gives is filtered into a table, and the first mode that  *)
(* suits the kernel and that the card accepts is set.                      *)
(*                                                                         *)
(* The BIOS is whatever Init chooses: its list may name a mode twice, end  *)
(* with the end mark, or run on to the end of the information block, where *)
(* the code stops.                                                         *)
(***************************************************************************)
EXTENDS Integers, Sequences, FiniteSets

CONSTANTS
    Mode,             \* mode numbers
    VESA_MODE_SIZE,   \* length of the table
    ListLength        \* words between the list's start and the block's end

End == "end"     \* 0xFFFF
(* A mode is "filtered" out by vesa_get_modes, or is "unsuited" (not 16    *)
(* bits per pixel or not wider than 600), or the card has "refused" it, or *)
(* it "fits".                                                              *)
Kind == {"filtered", "unsuited", "refused", "fits"}
NoMode == "none"   \* no mode: the card is in text mode, video_state is not set

ASSUME VesaAssumption ==
    /\ VESA_MODE_SIZE \in Nat \ {0} /\ ListLength \in Nat \ {0}
    /\ NoMode \notin Mode

VARIABLES
    list,       \* the BIOS: the words of the mode list
    kind,       \* the BIOS and the card: what becomes of each mode
    pc,         \* "init", "list", "select", "set", "booted", "panic"
    next,       \* the index of the word after mode_number
    modes,      \* vesa_modes up to vesa_mode_count
    selected,   \* selected_mode, from 0
    card,       \* the mode the card is in
    video       \* the mode whose data kernel_context->video_state holds

bios == <<list, kind>>
vesaVars == <<bios, pc, next, modes, selected, card, video>>

VesaInit ==
    /\ list \in [1 .. ListLength -> Mode \union {End}]
    /\ kind \in [Mode -> Kind]
    /\ pc = "init" /\ next = 1 /\ modes = <<>> /\ selected = 0
    /\ card = NoMode /\ video = NoMode

-----------------------------------------------------------------------------
(* A definition with a suffix _Bug... is a faulty variant of the one it    *)
(* precedes; no specification uses it.                                     *)

(* vesa_init up to vesa_get_modes; kernel_main panics on any failure.      *)
vesa_init ==
    /\ pc = "init"
    /\ \/ pc' = "list" /\ next' = 2
       \/ pc' = "panic" /\ UNCHANGED next   \* no VESA BIOS, or a call that failed
    /\ UNCHANGED <<bios, modes, selected, card, video>>

(* The condition of the loop over the list: mode_number has been read, and *)
(* the pointer behind it is still inside the block.                        *)
More_BugEnd ==   \* the last word that counts is left out
    /\ next < ListLength /\ list[next - 1] # End
    /\ Len(modes) < VESA_MODE_SIZE

More ==
    /\ next - 1 < ListLength /\ list[next - 1] # End
    /\ Len(modes) < VESA_MODE_SIZE

Known(m) == \E i \in DOMAIN modes : modes[i] = m

Wanted(m) == kind[m] # "filtered" /\ ~Known(m)

GetMode ==
    /\ pc = "list" /\ More
    /\ modes' = IF Wanted(list[next - 1]) THEN Append(modes, list[next - 1]) ELSE modes
    /\ next' = next + 1
    /\ UNCHANGED <<bios, pc, selected, card, video>>

ListEnds ==
    /\ pc = "list" /\ ~More
    /\ pc' = "select"
    /\ UNCHANGED <<bios, next, modes, selected, card, video>>

-----------------------------------------------------------------------------
(* The loop of kernel_main over the modes.  A mode that suits but that the *)
(* card refuses is passed over by `continue', the test for the last mode   *)
(* with it.                                                                *)
Consider ==
    /\ pc = "select" /\ selected < Len(modes)
    /\ IF kind[modes[selected + 1]] # "unsuited" THEN pc' = "set" /\ UNCHANGED selected
       ELSE IF selected + 1 >= Len(modes) THEN pc' = "panic" /\ UNCHANGED selected
       ELSE selected' = selected + 1 /\ UNCHANGED pc
    /\ UNCHANGED <<bios, next, modes, card, video>>

(* vesa_set_mode: the card first, then what the kernel knows of it         *)
SetMode_BugGiveUp ==   \* a refusal ends the loop
    LET m == modes[selected + 1]
    IN  /\ pc = "set"
        /\ IF kind[m] = "fits" THEN card' = m /\ video' = m ELSE UNCHANGED <<card, video>>
        /\ pc' = "booted"
        /\ UNCHANGED <<bios, next, modes, selected>>

SetMode ==
    LET m == modes[selected + 1]
    IN  /\ pc = "set"
        /\ IF kind[m] = "fits"
           THEN card' = m /\ video' = m /\ pc' = "booted" /\ UNCHANGED selected
           ELSE selected' = selected + 1 /\ pc' = "select" /\ UNCHANGED <<card, video>>
        /\ UNCHANGED <<bios, next, modes>>

LoopEnds ==
    /\ pc = "select" /\ selected >= Len(modes)
    /\ pc' = "booted"
    /\ UNCHANGED <<bios, next, modes, selected, card, video>>

VesaNext == vesa_init \/ GetMode \/ ListEnds \/ Consider \/ SetMode \/ LoopEnds

VesaSpec == VesaInit /\ [][VesaNext]_vesaVars

-----------------------------------------------------------------------------
(* Properties. *)

(* The table is not overrun and names no mode twice, however long the list *)
(* of the BIOS and however often it repeats itself; and the filter drops   *)
(* nothing it should keep: as long as the table is not full, every mode    *)
(* before the end of the list that passes the filter is in the table when  *)
(* the loop ends.                                                          *)
Listed ==
    {list[i] : i \in {i \in 1 .. ListLength - 1 : \A j \in 1 .. i : list[j] # End}}
TableRight ==
    /\ Len(modes) <= VESA_MODE_SIZE
    /\ \A i, j \in DOMAIN modes : modes[i] = modes[j] => i = j
    /\ pc \notin {"init", "list", "panic"} /\ Len(modes) < VESA_MODE_SIZE =>
          {modes[i] : i \in DOMAIN modes} = {m \in Listed : kind[m] # "filtered"}

(* The kernel boots with the first mode of the table that it can use and   *)
(* that the card accepts.  Without one the machine stops, except in two    *)
(* cases in which it boots in text mode without a word: no mode is in the  *)
(* table, or the last one suits and is refused.                            *)
Usable == {i \in DOMAIN modes : kind[modes[i]] = "fits"}
FirstFit ==
    pc = "booted" =>
        IF card # NoMode THEN \E i \in Usable : card = modes[i] /\ \A j \in Usable : i <= j
        ELSE Usable = {} /\ (modes = <<>> \/ kind[modes[Len(modes)]] = "refused")

(* What the kernel believes of the screen is the mode the card is in, also *)
(* after modes that the card refused.                                      *)
VideoRight == video = card
ModeRight == FirstFit /\ VideoRight

=============================================================================
