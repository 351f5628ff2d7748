--------------------------- MODULE MCHttpReceive ---------------------------
(* Instances of HttpReceive for TLC. *)
EXTENDS HttpReceive

Ok(n) == [status |-> 200, length |-> n, body |-> n]
Gone == [status |-> 204, length |-> NoLength, body |-> 0]
Failed(n) == [status |-> 500, length |-> n, body |-> n]
Continue == [status |-> 100, length |-> NoLength, body |-> 0]
Unmeasured == [status |-> 200, length |-> NoLength, body |-> 0]
Letters(n) == Body(0, n)

\* Answers of one message or with 100s first.
Single == {<<Ok(0)>>, <<Ok(3)>>, <<Gone>>, <<Failed(1)>>, <<Unmeasured>>}
Continued == {<<Continue, Ok(1)>>, <<Continue, Continue, Failed(2)>>,
              <<Continue, Gone>>}
Answers == Single \union Continued

\* No HTTP at all, in one piece or in several; no line at all; a header that breaks off;
\* a body without a length, one longer and one shorter than the length; empty lines;
\* a 100 with a body.
Slips == {<<Junk>>, <<Junk, Junk>>, Letters(1), Letters(1) \o <<Junk>>,
          <<Line(200), Junk, Junk>>, <<Line(100), Line(100)>>,
          <<Line(200), Blank(NoLength)>> \o Letters(1),
          <<Line(500), Blank(NoLength)>> \o Letters(2),
          <<Line(200), Blank(1)>> \o Letters(2), <<Line(200), Blank(3)>> \o Letters(1),
          <<Blank(NoLength)>>, <<Blank(2)>>, <<Line(100), Blank(NoLength)>> \o Letters(1)}
=============================================================================
