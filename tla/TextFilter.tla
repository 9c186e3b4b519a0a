------------------------------ MODULE TextFilter ------------------------------
(***************************************************************************)
(* rating/sensitivity.rs and rating/redaction.rs: how the additional text  *)
(* of a rating is classified, and what is masked in its public copy.       *)
(*                                                                         *)
(* A text is a sequence of the pieces the patterns tell apart, written     *)
(* without anything between them unless there is a "space" (blanks, as     *)
(* many as there are) or a "stop" (other characters that belong to no      *)
(* word).  Neighbouring pieces of words are one word, whatever their       *)
(* script: \w and \b of the regex crate are Unicode.                       *)
(***************************************************************************)
EXTENDS Integers, Sequences, FiniteSetsExt

(* Chinese words (shi yan shi, ke ti zu, dao shi zu), "wo shi", any other
   Chinese and English words, Lab / Group / Team, capitals such as MIT, a
   scolding word, and a mobile or identity number. *)
WordPieces == {"laboratory", "research_group", "tutor_group", "i_am", "han", "latin",
               "suffix", "acronym", "harsh", "number"}

(* "wechat:" begins like a word and ends with its colon, "di zhi:" likewise;
   "@example." has a word on neither side. *)
Pieces == WordPieces \cup {"contact", "address", "at", "space", "stop", "mask"}

Texts == {x \in Seq(Pieces) :
             \A i \in 2 .. Len(x) : x[i] \in {"space", "at"} => x[i - 1] # x[i]}

StartsWord(piece) == piece \in WordPieces \cup {"contact", "address"}
EndsWord(piece) == piece \in WordPieces

(* \b before and after a piece of a word. *)
Opens(x, i) == i = 1 \/ ~EndsWord(x[i - 1])
Closes(x, i) == i = Len(x) \/ ~StartsWord(x[i + 1])

(* P0_PATTERNS.  Those that ask for a word boundary: numbers, and "wechat:",
   "qq:", "address:". *)
Anchored(x, i) ==
    \/ x[i] = "number" /\ Opens(x, i) /\ Closes(x, i)
    \/ x[i] = "contact" /\ Opens(x, i)

(* The others: an address, a self-introduction, an email. *)
Free(x, i) ==
    \/ x[i] = "address"
    \/ x[i] = "i_am" /\ i < Len(x)
    \/ /\ x[i] = "at" /\ i > 1 /\ i < Len(x)
       /\ x[i - 1] \in {"latin", "suffix", "acronym", "number"}
       /\ x[i + 1] \in {"latin", "suffix", "acronym"}

DirectIdentifier(x, i) == Anchored(x, i) \/ Free(x, i)

(* P1_PATTERNS: the three Chinese words, a name before Lab with or without a
   blank, and capitals of their own. *)
IndirectIdentifier(x, i) ==
    \/ x[i] \in {"laboratory", "research_group", "tutor_group"}
    \/ /\ x[i] = "suffix" /\ Closes(x, i) /\ i > 1
       /\ \/ EndsWord(x[i - 1])
          \/ x[i - 1] = "space" /\ i > 2 /\ EndsWord(x[i - 2])
    \/ x[i] = "acronym" /\ Opens(x, i) /\ Closes(x, i)

(* P2_PATTERNS *)
Harsh(x, i) == x[i] = "harsh"

(* SensitivityFlag, in the order its derived Ord gives the variants. *)
Flags == <<"clean", "P2_warn", "P1_redact", "P0_strict">>

Matches(x, flag) ==
    \/ flag = 1
    \/ flag = 2 /\ \E i \in DOMAIN x : Harsh(x, i)
    \/ flag = 3 /\ \E i \in DOMAIN x : IndirectIdentifier(x, i)
    \/ flag = 4 /\ \E i \in DOMAIN x : DirectIdentifier(x, i)

(* classify: the highest flag of any pattern. *)
ClassifyText(x) == Max({f \in 1 .. 4 : Matches(x, f)})

-----------------------------------------------------------------------------
(* replace_all of a Chinese word. *)
MaskPiece(x, piece) == [i \in DOMAIN x |-> IF x[i] = piece THEN "mask" ELSE x[i]]

(* Where \b(\w+)\s+(Lab|Group|Team)\b matches, from left to right: the Lab that
   ends one match is not the name of the next. *)
NamedSuffixes(x) ==
    LET found[i \in 0 .. Len(x)] ==
            /\ i > 2
            /\ x[i] = "suffix" /\ Closes(x, i)
            /\ x[i - 1] = "space" /\ EndsWord(x[i - 2])
            /\ ~found[i - 2]
    IN  {i \in DOMAIN x : found[i]}

(* The word up to position j. *)
InWordTo(x, i, j) == i <= j /\ \A k \in i .. j : EndsWord(x[k])

(* replace_all by "[REDACTED] $2": the whole word before the blank is masked,
   its pieces count as one mask. *)
MaskNames(x) ==
    [i \in DOMAIN x |->
        IF \E s \in NamedSuffixes(x) : InWordTo(x, i, s - 2) THEN "mask" ELSE x[i]]

(* Mutant: each pattern starts from the original text again. *)
RedactLastOnly(x) == MaskNames(x)

(* redact_p1: its own list of three, each on what the one before has left. *)
Redact(x) == MaskNames(MaskPiece(MaskPiece(x, "laboratory"), "research_group"))
=============================================================================
