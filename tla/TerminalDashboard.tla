--------------------------- MODULE TerminalDashboard ---------------------------
(***************************************************************************)
(* The terminal dashboard of lesson 5 (dashboard/src/main.rs): it reads    *)
(* stdin line by line and renders the histogram reports it finds there.  A *)
(* report is one line, or a block of lines that is collected until a line  *)
(* that is only a closing brace.                                           *)
(*                                                                         *)
(* Anything may be piped into it: the loader writes a header and a report  *)
(* whose buckets are an object of their own, with events in between, and a *)
(* script writes what it likes.  A line is named for what the loop and the *)
(* parser tell apart.                                                      *)
(***************************************************************************)
EXTENDS Naturals, Sequences

CONSTANT MaxLines  \* bound: lines read in a behaviour

ASSUME TerminalDashboardAssumption == MaxLines \in Nat

VARIABLES lines,  \* history: the lines read so far
          buf,    \* the lines collected: their numbers
          shown   \* the lines that completed a rendered report

terminalVars == <<lines, buf, shown>>

Whole == {"report",   \* a HistogramReport on one line
          "object"}   \* another object on one line: an event, say
Openings == {"opening", \* a line that is only an opening brace
             "begun"}   \* one with a brace and the start of another object
Pieces == Openings \cup
          {"fields",    \* all the fields of a HistogramReport, on one or more lines
           "closing",   \* a line that is only a closing brace
           "other"}     \* a header, a log line, a piece of another object
Kinds == Whole \cup Pieces \cup {"blank"}

TerminalInit == lines = <<>> /\ buf = <<>> /\ shown = <<>>

Now == Len(lines) + 1

Read(kind) == Len(lines) < MaxLines /\ lines' = Append(lines, kind)

(* A line that is a whole object is parsed; the lines collected before it  *)
(* stay. *)
ReadWhole ==
  \/ Read("report") /\ shown' = Append(shown, Now) /\ UNCHANGED buf
  \/ Read("object") /\ UNCHANGED <<buf, shown>>

(* Blank lines do not count: trim drops them at the ends of the buffer,    *)
(* and between others they are white space of the object. *)
ReadBlank == Read("blank") /\ UNCHANGED <<buf, shown>>

(* Mutant of Starts: what was collected before a brace is not looked at. *)
StartsAnywhere(block) == TRUE

Starts(block) == lines'[block[1]] \in Openings

(* The blocks that from_str reads as a HistogramReport. *)
Parses(block) ==
  /\ Len(block) = 3
  /\ lines'[block[1]] = "opening" /\ lines'[block[2]] = "fields" /\ lines'[block[3]] = "closing"

(* Any other line is collected.  A closing brace ends a block that starts  *)
(* with an opening one, whether it parses or not. *)
Collect(kind) ==
  /\ Read(kind)
  /\ LET all == Append(buf, Now)
     IN  IF kind = "closing" /\ Starts(all)
         THEN buf' = <<>> /\ shown' = IF Parses(all) THEN Append(shown, Now) ELSE shown
         ELSE buf' = all /\ UNCHANGED shown

TerminalNext == ReadWhole \/ ReadBlank \/ \E kind \in Pieces : Collect(kind)

TerminalSpec == TerminalInit /\ [][TerminalNext]_terminalVars

-------------------------------------------------------------------------------
TerminalTypeOK ==
  /\ lines \in Seq(Kinds)
  /\ buf \in Seq(1 .. Len(lines)) /\ shown \in Seq(1 .. Len(lines))

(* The pieces up to line k that come after the closing braces before it. *)
Part(k) ==
  {i \in 1 .. k : lines[i] \in Pieces /\ \A j \in i .. (k - 1) : lines[j] # "closing"}

WellBegun(part) == \E a \in part : lines[a] \in Openings /\ \A i \in part : a <= i

IsReport(k) ==
  \E a, b \in 1 .. k :
    /\ a < b /\ b < k /\ Part(k) = {a, b, k}
    /\ lines[a] = "opening" /\ lines[b] = "fields" /\ lines[k] = "closing"

(* A report on one line is understood whatever was read before it.  One on *)
(* several lines is, if it is all there is between two closing braces, and *)
(* every part before it began with an opening brace: an inner object, whose*)
(* closing brace ends the block too early, or a header before the report   *)
(* leaves a part behind that does not, and that is never got rid of.       *)
Understood(k) ==
  \/ lines[k] = "report"
  \/ IsReport(k) /\ \A j \in 1 .. k : lines[j] = "closing" => WellBegun(Part(j))

(* Just the reports that are understood are rendered, once and in order. *)
RenderedReports ==
  /\ \A k \in 1 .. Len(lines) : (\E i \in DOMAIN shown : shown[i] = k) <=> Understood(k)
  /\ \A i, j \in DOMAIN shown : i < j => shown[i] < shown[j]
===============================================================================
