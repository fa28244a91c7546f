---- MODULE TimeMask ----
(***************************************************************************)
(* The program timemask.c: it reads an image, computes baseMask's answer,  *)
(* repeats baseMask and the optimized version (module Mask) while it       *)
(* compares what they leave, and saves the last result.                    *)
(*                                                                         *)
(* A file is a record: its kind, the tokens of its header (numbers, words, *)
(* comments), whether white space follows them, and the bytes behind.      *)
(* rows, cols and oldImage are main's: oldImage is baseImage in the first  *)
(* call and its copy trialImage after it, newImage baseAnswer in the first *)
(* call and trialAnswer after it.  Times and texts are left out.           *)
(***************************************************************************)
EXTENDS Mask, Sequences

CONSTANTS Commands,    \* [file, ntrials]: what the program is started with
          Fills        \* what memset may fill trialAnswer with

ASSUME FillsAssumption == Fills \subseteq Int

Word == "word"         \* a token that is no number
Comment == "comment"   \* one that begins with # on a line that ends
Open == "open"         \* one that begins with # on a line that does not

ASSUME CommandsAssumption ==
    \A c \in Commands :
        /\ c.ntrials \in Int
        /\ c.file.kind \in {"missing", "other", "P5"}
        /\ c.file.header \in Seq([number : Nat] \cup [text : {Word, Comment, Open}])
        /\ c.file.space \in BOOLEAN
        /\ c.file.bytes \in Seq(0 .. 255)

VARIABLES file, ntrials,          \* the command line
          tokens, numbers, white, \* the header: what is left of it, what it says
          baseAnswer,             \* what the first call left
          phase,                  \* where main is
          trial,                  \* trials done
          problems,               \* whether a PROBLEM has been printed
          status,                 \* how the program has ended
          saved                   \* the files written

inputVars == <<file, ntrials>>
readVars == <<tokens, numbers, white>>
timeVars == <<inputVars, readVars, baseAnswer, phase, trial, problems, status, saved>>
vars == <<maskVars, timeVars>>

Running == "running"

Init ==
    /\ \E c \in Commands : file = c.file /\ ntrials = c.ntrials
    /\ Idle
    /\ tokens = file.header
    /\ numbers = <<>>
    /\ white = 0
    /\ baseAnswer = Zeros
    /\ phase = "open"
    /\ trial = 0
    /\ problems = FALSE
    /\ status = Running
    /\ saved = {}

Exit(how) == status' = how /\ phase' = "exit"

----
(* readImage: main returns -2 whatever has gone wrong in it.                *)
OpenFile ==
    /\ phase = "open"
    /\ IF file.kind = "P5" THEN phase' = "header" /\ UNCHANGED status ELSE Exit("-2")
    /\ UNCHANGED <<maskVars, inputVars, readVars, baseAnswer, trial, problems, saved>>

(* The end of the file before the third number: fscanf leaves str as it     *)
(* was.  Whatever number it holds, no white space follows; if it begins     *)
(* with #, the end of the line is looked for for ever.                      *)
HeaderEnds ==
    /\ tokens = <<>>
    /\ Exit("-2") \/ (phase' = "loops" /\ UNCHANGED status)
    /\ UNCHANGED <<tokens, numbers>>

SkipComment ==
    /\ tokens # <<>>
    /\ Head(tokens) \in [text : {Comment, Open}]
    /\ phase' = IF Head(tokens).text = Open THEN "loops" ELSE "header"
    /\ tokens' = Tail(tokens)
    /\ UNCHANGED <<numbers, status>>

(* Columns, rows and white, in this order. *)
readPBMNumber ==
    /\ tokens # <<>>
    /\ Head(tokens) \notin [text : {Comment, Open}]
    /\ tokens' = Tail(tokens)
    /\ \/ Head(tokens) = [text |-> Word] /\ Exit("-2") /\ UNCHANGED numbers
       \/ /\ Head(tokens) # [text |-> Word]
          /\ numbers' = Append(numbers, Head(tokens).number)
          /\ IF Len(numbers') < 3
             THEN phase' = "header" /\ UNCHANGED status
             ELSE IF numbers'[3] >= 65536 \/ ~file.space \/ numbers'[1] > N \/ numbers'[2] > N
                  THEN Exit("-2")
                  ELSE phase' = "pixels" /\ UNCHANGED status

ReadHeader ==
    /\ phase = "header"
    /\ HeaderEnds \/ SkipComment \/ readPBMNumber
    /\ UNCHANGED <<maskVars, inputVars, white, baseAnswer, trial, problems, saved>>

EOF == -1
fgetc(k) == IF k <= Len(file.bytes) THEN file.bytes[k] ELSE EOF

(* high << 8 | low, where either may be EOF. *)
Or(high, low) == IF low = EOF THEN EOF ELSE 256 * high + low

(* The k-th pixel, from 0.  C leaves open which of the two calls of fgetc   *)
(* is done first.                                                           *)
Pixel(k, maximum, highFirst) ==
    IF maximum < 256 THEN fgetc(k + 1)
    ELSE IF highFirst THEN Or(fgetc(2 * k + 1), fgetc(2 * k + 2))
    ELSE Or(fgetc(2 * k + 2), fgetc(2 * k + 1))

ReadPixels ==
    /\ phase = "pixels"
    /\ cols' = numbers[1] /\ rows' = numbers[2] /\ white' = numbers[3]
    /\ \E highFirst \in IF white' < 256 THEN {TRUE} ELSE BOOLEAN :
          oldImage' = [c \in Array |-> IF c \in Image'
                                       THEN Pixel(c[1] * cols' + c[2], white', highFirst)
                                       ELSE 0]
    /\ phase' = "image"
    /\ UNCHANGED <<version, newImage, weight, check, step, pc>>
    /\ UNCHANGED <<inputVars, tokens, numbers, baseAnswer, trial, problems, status, saved>>

----
(* main: the answer to compare with, and trialAnswer from there on.         *)
AskBaseMask ==
    /\ phase = "image"
    /\ Call("baseMask", oldImage, Zeros)
    /\ phase' = "answer"
    /\ UNCHANGED <<inputVars, readVars, baseAnswer, trial, problems, status, saved>>

KeepAnswer ==
    /\ phase = "answer" /\ pc = "done"
    /\ baseAnswer' = newImage
    /\ newImage' = Zeros
    /\ pc' = "idle"
    /\ phase' = "base"
    /\ UNCHANGED <<call, weight, check, step>>
    /\ UNCHANGED <<inputVars, readVars, trial, problems, status, saved>>

(* mask() is one of its versions in all trials of a program.                *)
Trial ==
    /\ phase \in {"base", "mask"} /\ trial < ntrials
    /\ \E v \in CASE phase = "base" -> {"baseMask"}
                  [] phase = "mask" /\ trial = 0 -> Versions
                  [] OTHER -> {version},
          garbage \in Fills : Call(v, oldImage, [c \in Array |-> garbage])
    /\ UNCHANGED timeVars

countDifferentPixels_M(a, b) ==  \* of the arrays, not of the image
    Cardinality({c \in Array : a[c] # b[c]})

countDifferentPixels(a, b) == Cardinality({c \in Image : a[c] # b[c]})

CheckTrial ==
    /\ phase \in {"base", "mask"} /\ pc = "done"
    /\ problems' = (problems \/ countDifferentPixels(newImage, baseAnswer) > 0)
    /\ trial' = trial + 1
    /\ pc' = "idle"
    /\ UNCHANGED <<call, newImage, weight, check, step>>
    /\ UNCHANGED <<inputVars, readVars, baseAnswer, phase, status, saved>>

(* The average time divides by the number of trials.                        *)
TrialsOver ==
    /\ phase \in {"base", "mask"} /\ pc = "idle" /\ trial >= ntrials
    /\ IF ntrials = 0 THEN Exit("divided by zero")
       ELSE phase' = (IF phase = "base" THEN "mask" ELSE "save") /\ UNCHANGED status
    /\ trial' = 0
    /\ UNCHANGED <<maskVars, inputVars, readVars, baseAnswer, problems, saved>>

SavedFile_M ==  \* by columns
    [kind |-> "P5", space |-> TRUE,
     header |-> << [number |-> cols], [number |-> rows], [number |-> white] >>,
     bytes |-> [k \in 1 .. rows * cols |->
                   newImage[<<(k - 1) % rows, (k - 1) \div rows>>] % 256]]

(* fputc keeps the low byte of a pixel, whatever white is.                  *)
SavedFile ==
    [kind |-> "P5", space |-> TRUE,
     header |-> << [number |-> cols], [number |-> rows], [number |-> white] >>,
     bytes |-> [k \in 1 .. rows * cols |->
                   newImage[Cell(k - 1)] % 256]]

(* Nothing is saved without a third argument, or where it cannot be opened. *)
Save ==
    /\ phase = "save"
    /\ saved' \in {{}, {SavedFile}}
    /\ Exit("0")
    /\ UNCHANGED <<maskVars, inputVars, readVars, baseAnswer, trial, problems>>

Next ==
    \/ OpenFile \/ ReadHeader \/ ReadPixels
    \/ AskBaseMask \/ KeepAnswer \/ Trial \/ CheckTrial \/ TrialsOver \/ Save
    \/ (Compute /\ UNCHANGED timeVars)

Spec == Init /\ [][Next]_vars
FairSpec == Spec /\ WF_vars(Next)
====
