--------------------------- MODULE SpeedtestOutput ---------------------------
(***************************************************************************)
(* From the output of the Ookla CLI to a row: SpeedtestCollector.collect   *)
(* of bbmon/collectors/speedtest.py, and the loop of bbmon/service.py that *)
(* stores what it returns.                                                 *)
(*                                                                         *)
(* Output is what json.loads makes of its lines and of the whole; a result *)
(* object is the shapes of the fields that are read.                       *)
(***************************************************************************)
EXTENDS Integers, FiniteSets, FiniteSetsExt, Sequences, SequencesExt

CONSTANTS
    MaxLines, \* bound: lines of an output
    MaxTests  \* bound

OutputAssumption == MaxLines \in Nat \ {0} /\ MaxTests \in Nat

\* What a line is: an object of type "result", another object, or neither.
Lines == {"result", "progress", "junk"}

\* The whole parses as its line if there is one, and otherwise only when one
\* object is spread over lines that are nothing by themselves.
Outputs ==
    {out \in [lines : SeqOf(Lines, MaxLines), whole : Lines] :
        /\ Len(out.lines) = 0 => out.whole = "junk"
        /\ Len(out.lines) = 1 => out.whole = out.lines[1]
        /\ Len(out.lines) > 1 /\ out.whole # "junk" => ToSet(out.lines) = {"junk"}}

\* Of a number: one, nothing that is one, or an integer too large for a float.
Numbers == {"number", "bad", "huge"}

\* Of the rest: what is expected, nothing, and what is truthy and not expected,
\* as a name where an object should be or an object where a name should be.
Objects == [download : Numbers, upload : Numbers, latency : Numbers,
            server : {"object", "none", "text", "nested"}, isp : {"text", "none", "nested"}]

\* What can become of the command.
Ends == {"clean", "nonzero", "timeout", "unrunnable", "no binary", "undecodable"}

\* A row: whether it is a success, and whether SQLite can bind all of it.
Results == {"success", "failure", "unbindable"}

VARIABLES
    pc,     \* "test", "flush", or "stopped" by an exception
    buffer,
    table,
    tests,  \* bound
    \* history, of the test that is not flushed yet
    output, object,
    end, result

vars == <<pc, buffer, table, tests, output, object, end, result>>

TypeOK ==
    /\ pc \in {"test", "flush", "stopped"}
    /\ buffer \in Seq(Results) /\ table \in Seq({"success", "failure"})
    /\ Len(buffer) + Len(table) <= tests /\ tests \in 0..MaxTests
    /\ output.lines \in Seq(Lines) /\ output.whole \in Lines /\ object \in Objects
    /\ end \in Ends /\ result \in Results \cup {"none", "exception"}

Nothing == [lines |-> <<>>, whole |-> "junk"]
Expected == [download |-> "number", upload |-> "number", latency |-> "number",
             server |-> "object", isp |-> "text"]

Init ==
    /\ pc = "test" /\ buffer = <<>> /\ table = <<>> /\ tests = 0
    /\ output = Nothing /\ object = Expected /\ end = "clean" /\ result = "none"
-----------------------------------------------------------------------------
(* The collector *)

ResultLines(out) == {i \in DOMAIN out.lines : out.lines[i] = "result"}

\* The mutant that takes the first one.
FindFirstResult(out) ==
    IF out.whole = "result" \/ ResultLines(out) = {} THEN 0 ELSE Min(ResultLines(out))

\* _find_result_object: 0 for the whole, else the line it takes, of a result.
FindResultObject(out) ==
    IF out.whole = "result" \/ ResultLines(out) = {} THEN 0 ELSE Max(ResultLines(out))

Found(out) == out.whole = "result" \/ FindResultObject(out) > 0

\* _to_result: the first number that is not one decides, and after them the
\* server and what is bound as it comes.
ToResult(obj) ==
    LET numbers == <<obj.download, obj.upload, obj.latency>>
        odd == {i \in 1..3 : numbers[i] # "number"}
    IN  IF odd # {} THEN (IF numbers[Min(odd)] = "bad" THEN "failure" ELSE "exception")
        ELSE IF obj.server = "text" THEN "exception"
        ELSE IF obj.server = "nested" \/ obj.isp = "nested" THEN "unbindable"
        ELSE "success"

\* SpeedtestCollector.collect.
Collect(how, out, obj) ==
    IF how \in {"no binary", "undecodable"} THEN "exception"
    ELSE IF how # "clean" \/ ~Found(out) THEN "failure"
    ELSE ToResult(obj)
-----------------------------------------------------------------------------
(* The loop *)

\* The history is of one test, until its flush.
Forget == output' = Nothing /\ object' = Expected /\ end' = "clean" /\ result' = "none"

\* executemany: all of the rows or none.
Storable(rows) == "unbindable" \notin ToSet(rows)

Test ==
    /\ pc = "test" /\ tests < MaxTests /\ tests' = tests + 1
    /\ \E how \in Ends :
       \E out \in IF how = "clean" THEN Outputs ELSE {Nothing} :
       \E obj \in IF Found(out) THEN Objects ELSE {Expected} :
        /\ end' = how /\ output' = out /\ object' = obj /\ result' = Collect(how, out, obj)
    /\ IF result' = "exception"
       THEN pc' = "stopped" /\ UNCHANGED buffer
       ELSE pc' = "flush" /\ buffer' = Append(buffer, result')
    /\ UNCHANGED table

\* _flush, at the end of every cycle: an interval of hours is longer than the
\* flush interval.
Flush ==
    /\ pc = "flush" /\ pc' = "test"
    /\ IF Storable(buffer)
       THEN table' = table \o buffer /\ buffer' = <<>>
       ELSE UNCHANGED <<table, buffer>>
    /\ Forget /\ UNCHANGED tests

\* The final flush, the end of the process and Restart=on-failure.
StartAgain ==
    /\ pc = "stopped" /\ pc' = "test"
    /\ table' = IF Storable(buffer) THEN table \o buffer ELSE table
    /\ buffer' = <<>>
    /\ Forget /\ UNCHANGED tests

Next == Test \/ Flush \/ StartAgain

Spec == Init /\ [][Next]_vars
-----------------------------------------------------------------------------
(* Properties *)

\* What the command printed holds a result.
Printed == output.whole = "result" \/ "result" \in ToSet(output.lines)

Numeric == object.download = "number" /\ object.upload = "number" /\ object.latency = "number"

\* A success on the chart is a measurement, and a measurement is a success unless
\* it stops the service: the result is found after, before and between other
\* lines, on its own, and over several lines, and where there are several the
\* last one counts.
SuccessesAreMeasurements ==
    LET success == result \in {"success", "unbindable"}
    IN  /\ success => end = "clean" /\ Printed /\ Numeric
        /\ end = "clean" /\ Printed /\ Numeric /\ object.server # "text" => success
        /\ \A i \in ResultLines(output) : output.whole = "result" \/ i <= FindResultObject(output)

\* A line that is down does not stop the service: a test that fails, hangs or
\* cannot be started gives a failure, and the loop goes on.
OutagesAreRecorded ==
    end \in {"nonzero", "timeout", "unrunnable"} => result = "failure" /\ pc # "stopped"

\* What is recorded of a test is what became of it, for every output, result
\* object and end of the command.
ResultsAreTrue == SuccessesAreMeasurements /\ OutagesAreRecorded

\* What the module's comment says of Ookla's JSON: "a shape we do not recognise
\* becomes a recorded failure, never an exception that stops the service".
ShapesAreRecorded == end = "clean" => pc # "stopped" /\ (pc = "test" => buffer = <<>>)
-----------------------------------------------------------------------------
(* A strengthening of ResultsAreTrue that every step preserves *)

\* The history is of nothing yet, or what it has of one test belongs together.
OutputInv ==
    /\ output.lines \in Seq(Lines)
    /\ result = "none" => output = Nothing /\ end = "clean"
    /\ result # "none" => object \in Objects /\ end \in Ends /\ result = Collect(end, output, object)
    /\ pc = "stopped" => result = "exception"
=============================================================================
