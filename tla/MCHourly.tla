------------------------------ MODULE MCHourly ------------------------------
(* Hourly with one kind of document, or with one for each task.             *)
EXTENDS Hourly

Kind(source, parses) == [source |-> source, parses |-> parses]

(* A source two tasks read, one whose document does not parse, the scores.  *)
OneOfEach == {Kind("hackernews", TRUE), Kind("rss", FALSE),
              Kind("hn_scores", TRUE)}

OneKind == {Kind("hackernews", TRUE)}

=============================================================================
