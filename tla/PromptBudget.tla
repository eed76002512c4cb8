---------------------------- MODULE PromptBudget ----------------------------
(***************************************************************************)
(* Fitting prompt material into a character budget (prompt_budget.py).     *)
(* A line is abstracted to its length.  A document is its preamble, its    *)
(* sections in priority order and its trailer; a preamble or a trailer     *)
(* block counts as its lines joined, the way the code joins them.          *)
(***************************************************************************)
EXTENDS Integers, Sequences, FiniteSets

CONSTANTS
    Budget,      \* characters the material may take (MAX_PROMPT_LENGTH)
    HeaderLen,   \* the line that opens a section with items
    NoneLen,     \* the line that stands for a section without items
    NoteLen      \* an omission note without its three numbers

ASSUME BudgetAssumption == {Budget, HeaderLen, NoneLen, NoteLen} \subseteq Nat

VARIABLES
    doc,      \* the document to render
    phase,    \* "fit", "sections", "items" or "rendered"
    used,     \* length of the text built so far (_Builder.used)
    reserve,  \* characters held back for notes and trailer
    shown     \* how many items each section reached so far has kept

bvars == <<doc, phase, used, reserve, shown>>

\* Upto(s)[n] is the sum of the first n numbers of s.
Upto(s) ==
    LET sum[n \in 0 .. Len(s)] == IF n = 0 THEN 0 ELSE sum[n - 1] + s[n]
    IN  sum
Total(s) == Upto(s)[Len(s)]
Per(op(_), s) == Total([i \in DOMAIN s |-> op(s[i])])

\* Counts have up to six digits.
Digits(n) == 1 + Cardinality({p \in {10, 100, 1000, 10000, 100000} : p <= n})

\* The note "(omitted more ...; showing shown of total.)" and its newline.
NoteCost(kept, items) ==
    1 + NoteLen + Digits(items - kept) + Digits(kept) + Digits(items)

\* A blank line and a section's opening line; a blank line and a trailer block.
Opening(items) == 2 + (IF items = <<>> THEN NoneLen ELSE HeaderLen)
BlockCost(block) == 2 + block
ItemCost(item) == 1 + item

SectionCost(items) == Opening(items) + Per(ItemCost, items)
FullLength(d) == d.preamble + Per(SectionCost, d.sections) + Per(BlockCost, d.trailer)

\* The room held back for a section's omission note, in the code's estimate.
WorstNote(items) == IF items = <<>> THEN 0 ELSE NoteCost(Len(items), Len(items))

Here == Len(shown)
Items == doc.sections[Here]
Kept == shown[Here]

\* A document that fits is rendered as it is, every section complete.
RenderWhole ==
    /\ phase = "fit"
    /\ FullLength(doc) <= Budget
    /\ phase' = "rendered"
    /\ used' = FullLength(doc)
    /\ shown' = [i \in DOMAIN doc.sections |-> Len(doc.sections[i])]
    /\ UNCHANGED <<doc, reserve>>

\* A variant of Reserved that forgets the trailer.
ReservedForNotes(d) == Per(WorstNote, d.sections)

\* A note for every section with items, and the trailer.
Reserved(d) == Per(WorstNote, d.sections) + Per(BlockCost, d.trailer)

StartTrimming ==
    /\ phase = "fit"
    /\ FullLength(doc) > Budget
    /\ phase' = "sections"
    /\ used' = doc.preamble
    /\ reserve' = Reserved(doc)
    /\ UNCHANGED <<doc, shown>>

\* The next section is opened; its own note leaves the common reserve.
OpenSection ==
    /\ phase = "sections"
    /\ Here < Len(doc.sections)
    /\ LET items == doc.sections[Here + 1]
       IN  /\ used' = used + Opening(items)
           /\ reserve' = reserve - WorstNote(items)
           /\ phase' = IF items = <<>> THEN "sections" ELSE "items"
    /\ shown' = Append(shown, 0)
    /\ UNCHANGED doc

\* A variant of Fits that holds nothing back.
FitsAlone(item) == used + ItemCost(item) <= Budget

Fits(item) == used + ItemCost(item) + reserve + WorstNote(Items) <= Budget

Keep ==
    /\ phase = "items"
    /\ Kept < Len(Items)
    /\ Fits(Items[Kept + 1])
    /\ used' = used + ItemCost(Items[Kept + 1])
    /\ shown' = [shown EXCEPT ![Here] = @ + 1]
    /\ UNCHANGED <<doc, phase, reserve>>

\* The first item that does not fit ends the section, and the note says so.
Trim ==
    /\ phase = "items"
    /\ Kept < Len(Items)
    /\ ~ Fits(Items[Kept + 1])
    /\ used' = used + NoteCost(Kept, Len(Items))
    /\ phase' = "sections"
    /\ UNCHANGED <<doc, reserve, shown>>

SectionComplete ==
    /\ phase = "items"
    /\ Kept = Len(Items)
    /\ phase' = "sections"
    /\ UNCHANGED <<doc, used, reserve, shown>>

AddTrailer ==
    /\ phase = "sections"
    /\ Here = Len(doc.sections)
    /\ used' = used + Per(BlockCost, doc.trailer)
    /\ reserve' = reserve - Per(BlockCost, doc.trailer)
    /\ phase' = "rendered"
    /\ UNCHANGED <<doc, shown>>

Render ==
    \/ RenderWhole \/ StartTrimming \/ OpenSection
    \/ Keep \/ Trim \/ SectionComplete \/ AddTrailer

Truncated == \E i \in DOMAIN shown : shown[i] < Len(doc.sections[i])
-----------------------------------------------------------------------------
\* What must be in any rendering: the budget is expected to exceed it.
LongestNote(items) ==
    IF items = <<>> THEN 0
    ELSE 1 + NoteLen + 3 * Digits(Len(items))
FixedLength(d) ==
    d.preamble + Per(Opening, d.sections) + Per(LongestNote, d.sections)
        + Per(BlockCost, d.trailer)
BudgetIsEnough == FixedLength(doc) <= Budget

(* What the reserve does guarantee (render_budgeted): the text passes the    *)
(* budget by no more than what it forgets to hold back, the openings of the  *)
(* sections after the first and the digits a note has beyond its estimate.   *)
Excess(i) ==
    LET items == doc.sections[i]
        extra == NoteCost(shown[i], Len(items)) - WorstNote(items)
    IN  (IF i > 1 THEN Opening(items) ELSE 0)
          + (IF shown[i] < Len(items) /\ extra > 0 THEN extra ELSE 0)
OvershootIsUnreserved ==
    phase = "rendered" /\ BudgetIsEnough
        => used <= Budget + Total([i \in DOMAIN shown |-> Excess(i)])

(* Material that reports every section complete is the whole document, and   *)
(* fits: dropping text never goes unreported, on either path.                *)
CompleteMeansWhole ==
    phase = "rendered" /\ BudgetIsEnough /\ ~ Truncated
        => used = FullLength(doc) /\ used <= Budget
=============================================================================
