------------------------------ MODULE SqlScan ------------------------------
(***************************************************************************)
(* The two scanners a statement goes through: rewriteQmark, in the ADBC    *)
(* driver, turns every "?" into a positional bind, and parseSQL, in the    *)
(* TTC layer, finds the kind of the statement and its bind names.  Each    *)
(* of them has its own idea of what is a literal and what is a comment.    *)
(*                                                                         *)
(* A text is a sequence of characters, except that a word and a number are *)
(* one token each.  Words are in upper case, as parseSQL compares them.    *)
(***************************************************************************)
EXTENDS Integers, Sequences, FiniteSets, TLC

CONSTANTS
  SqlTexts,    \* the statements the application sets
  Letters   \* the tokens that are letters or words, "Q" among them

VARIABLES
  sql,      \* the statement's text
  phase,    \* "rewrite", "parse" or "done"
  pos,      \* the next character to look at
  mode,     \* rewriteQmark: in code, a quoted string or a comment
  count,    \* the "?" it has replaced
  out,      \* the text it has written, which parseSQL reads
  parsed,   \* kind, bindNames, isReturning and the flags beside them
  last,     \* lastCh, "" at the start and behind a bind
  word,     \* alphaStart, 0 when the last character was no letter
  string,   \* lastWasString
  \* History, read by properties only.
  bare,     \* parseSQL met a "?" outside literals and comments
  odd       \* the constructs, named below, that the scanners met

scanVars == <<sql, phase, pos, mode, count, out, parsed, last, word, string, bare, odd>>

---------------------------------------------------------------------------
(* rewriteQmark.                                                           *)

Follows(text, i, c) == i < Len(text) /\ text[i + 1] = c

Rewriting == phase = "rewrite" /\ pos <= Len(sql)

\* The character is copied, and the next one looked at.
Copy(next) ==
  /\ out' = Append(out, sql[pos])
  /\ mode' = next
  /\ pos' = pos + 1
  /\ UNCHANGED <<sql, phase, count, parsed, last, word, string, bare>>

RewriteLine ==
  /\ Rewriting /\ mode = "line"
  /\ Copy(IF sql[pos] = "\n" THEN "code" ELSE "line")
  /\ UNCHANGED odd

\* The end of a block comment is two characters: the first is written by the
\* case, the second as any other.  The star that opens it may also close it.
RewriteBlock ==
  /\ Rewriting /\ mode = "block"
  /\ IF sql[pos] = "*" /\ Follows(sql, pos, "/")
     THEN /\ out' = out \o <<"*", "/">>
          /\ mode' = "code" /\ pos' = pos + 2
          /\ odd' = IF sql[pos - 1] = "/" THEN odd \cup {"slash star slash"} ELSE odd
          /\ UNCHANGED <<sql, phase, count, parsed, last, word, string, bare>>
     ELSE Copy("block") /\ UNCHANGED odd

\* A doubled quote ends the string and starts it again.
FaultyRewriteQuoted ==
  /\ Rewriting /\ mode \in {"'", "\""}
  /\ Copy(IF sql[pos] \in {"'", "\""} THEN "code" ELSE mode)
  /\ UNCHANGED odd

RewriteQuoted ==
  /\ Rewriting /\ mode \in {"'", "\""}
  /\ Copy(IF sql[pos] = mode THEN "code" ELSE mode)
  /\ UNCHANGED odd

\* Outside of them a quote or two characters open something, and "?" is the
\* next positional bind.
RewriteCode ==
  /\ Rewriting /\ mode = "code"
  /\ UNCHANGED odd
  /\ CASE sql[pos] \in {"'", "\""} -> Copy(sql[pos])
       [] sql[pos] = "-" /\ Follows(sql, pos, "-") -> Copy("line")
       [] sql[pos] = "/" /\ Follows(sql, pos, "*") -> Copy("block")
       [] sql[pos] = "?" ->
            /\ count' = count + 1
            /\ out' = out \o <<":", ToString(count + 1)>>
            /\ pos' = pos + 1
            /\ UNCHANGED <<sql, phase, mode, parsed, last, word, string, bare>>
       [] OTHER -> Copy("code")

\* The rewritten text is the statement's; Execute parses it.
Rewritten ==
  /\ phase = "rewrite" /\ pos > Len(sql)
  /\ phase' = "parse" /\ pos' = 1
  /\ UNCHANGED <<sql, mode, count, out, parsed, last, word, string, bare, odd>>

---------------------------------------------------------------------------
(* parseSQL.                                                               *)

IsDigits(c) == c \in {ToString(n) : n \in 1 .. Len(sql)}
IsSpace(c) == c \in {" ", "\n"}

\* The first place from i on where Test holds, or the one past the end.
First(i, Test(_)) ==
  LET at == {j \in i .. Len(out) : Test(j)}
  IN  IF at = {} THEN Len(out) + 1 ELSE CHOOSE j \in at : \A k \in at : j <= k

determineKind(w) ==
  CASE w \in {<<"DECLARE">>, <<"BEGIN">>, <<"CALL">>} -> "plsql"
    [] w \in {<<"SELECT">>, <<"WITH">>} -> "query"
    [] w \in {<<"INSERT">>, <<"UPDATE">>, <<"DELETE">>, <<"MERGE">>} -> "dml"
    [] w \in {<<"CREATE">>, <<"ALTER">>, <<"DROP">>} -> "ddl"
    [] OTHER -> "unknown"

\* The closing quote; a doubled one is part of the string.
skipQuoted(i, quote) ==
  LET close[j \in i + 1 .. Len(out) + 2] ==
        CASE j > Len(out) -> Len(out) + 1
          [] j <= Len(out) /\ out[j] # quote -> close[j + 1]
          [] j <= Len(out) /\ out[j] = quote /\ Follows(out, j, quote) -> close[j + 2]
          [] OTHER -> j
  IN  close[i + 1]

Closing(c) == CASE c = "[" -> "]" [] c = "(" -> ")" [] OTHER -> c

\* The quote that follows the separator's counterpart.
skipQString(i) ==
  IF i = Len(out) THEN Len(out) + 1
  ELSE LET j == First(i + 2, LAMBDA k : out[k] = Closing(out[i + 1]) /\ Follows(out, k, "'"))
       IN  j + 1

\* The line comment ends at its newline, the block comment at the slash of
\* the first end behind its opening.
skipLine(i) == First(i, LAMBDA j : out[j] = "\n")
skipBlock(i) == First(i + 2, LAMBDA j : out[j] = "*" /\ Follows(out, j, "/")) + 1

\* The bind name behind a colon, and the last character of it.
parseBindName(i) ==
  LET s == First(i + 1, LAMBDA j : ~IsSpace(out[j]))
      quoted == First(s + 1, LAMBDA j : out[j] = "\"")
      letters == First(s, LAMBDA j : out[j] \notin Letters /\ ~IsDigits(out[j]))
  IN  CASE s > Len(out) -> [name |-> <<>>, end |-> i]
        [] s <= Len(out) /\ out[s] = "\"" -> [name |-> SubSeq(out, s + 1, quoted - 1), end |-> quoted]
        [] s <= Len(out) /\ IsDigits(out[s]) -> [name |-> <<out[s]>>, end |-> s]
        [] s <= Len(out) /\ out[s] \in Letters -> [name |-> SubSeq(out, s, letters - 1), end |-> letters - 1]
        [] OTHER -> [name |-> <<>>, end |-> i]

\* A PL/SQL block has one bind per name, other statements one per place.
AddBind(p, name) ==
  IF p.kind = "plsql" /\ \E i \in DOMAIN p.names : p.names[i] = name THEN p
  ELSE [p EXCEPT !.names = Append(@, name)]

\* What a word that ends here says of the statement.
AfterWord(p, w) ==
  CASE ~p.started -> [p EXCEPT !.kind = determineKind(w), !.started = TRUE]
    [] p.started /\ p.kind = "dml" /\ ~p.returning /\ w = <<"RETURNING">> -> [p EXCEPT !.returning = TRUE]
    [] p.started /\ p.returning /\ w = <<"INTO">> -> [p EXCEPT !.isReturning = TRUE]
    [] OTHER -> p

\* Behind the character at place end, the last one of what was skipped.
Resume(end) ==
  /\ pos' = end + 1
  /\ last' = IF end <= Len(out) THEN out[end] ELSE last
  /\ word' = IF end > Len(out) \/ out[end] \notin Letters THEN 0 ELSE IF word = 0 THEN end ELSE word

Parsing == phase = "parse" /\ pos <= Len(out)

\* What parseSQL knows once the word before the character at pos has ended.
Known ==
  IF word # 0 /\ out[pos] \notin Letters THEN AfterWord(parsed, SubSeq(out, word, pos - 1)) ELSE parsed

\* The binds of a DDL statement are not looked for.
ParseStops ==
  /\ Parsing /\ Known.kind = "ddl"
  /\ parsed' = Known
  /\ phase' = "done"
  /\ UNCHANGED <<sql, pos, mode, count, out, last, word, string, bare, odd>>

ParseLiteral ==
  /\ Parsing /\ Known.kind # "ddl" /\ out[pos] = "'"
  /\ parsed' = Known
  /\ string' = TRUE
  /\ IF last = "Q" THEN Resume(skipQString(pos)) /\ odd' = odd \cup {"q literal"}
                   ELSE Resume(skipQuoted(pos, "'")) /\ UNCHANGED odd
  /\ UNCHANGED <<sql, phase, mode, count, out, bare>>

\* A space leaves lastWasString as it is: "'key' : value" has no bind.
ParseSpace ==
  /\ Parsing /\ Known.kind # "ddl" /\ IsSpace(out[pos])
  /\ parsed' = Known
  /\ Resume(pos)
  /\ UNCHANGED <<sql, phase, mode, count, out, string, bare, odd>>

Binds(c) == c = ":" /\ ~string /\ parseBindName(pos).name # <<>>

ParseBind ==
  /\ Parsing /\ Known.kind # "ddl" /\ Binds(out[pos])
  /\ parsed' = AddBind(Known, parseBindName(pos).name)
  /\ pos' = parseBindName(pos).end + 1
  /\ last' = ":" /\ word' = 0 /\ string' = FALSE
  /\ UNCHANGED <<sql, phase, mode, count, out, bare, odd>>

Skip ==
  CASE out[pos] = "-" /\ Follows(out, pos, "-") -> skipLine(pos)
    [] out[pos] = "/" /\ Follows(out, pos, "*") -> skipBlock(pos)
    [] out[pos] = "\"" -> skipQuoted(pos, "\"")
    [] OTHER -> pos

ParseOther ==
  /\ Parsing /\ Known.kind # "ddl"
  /\ out[pos] # "'" /\ ~IsSpace(out[pos]) /\ ~Binds(out[pos])
  /\ parsed' = Known
  /\ Resume(Skip)
  /\ string' = FALSE
  /\ bare' = (bare \/ out[pos] = "?")
  /\ odd' = IF out[pos] = ":" /\ string /\ parseBindName(pos).name # <<>>
              THEN odd \cup {"bind behind a literal"} ELSE odd
  /\ UNCHANGED <<sql, phase, mode, count, out>>

\* A statement of one word has its kind from the end of the text.
Parsed ==
  /\ phase = "parse" /\ pos > Len(out)
  /\ parsed' = IF ~parsed.started /\ word # 0
               THEN [parsed EXCEPT !.kind = determineKind(SubSeq(out, word, Len(out)))] ELSE parsed
  /\ phase' = "done"
  /\ UNCHANGED <<sql, pos, mode, count, out, last, word, string, bare, odd>>

---------------------------------------------------------------------------
ScanInit ==
  /\ sql \in SqlTexts
  /\ phase = "rewrite" /\ pos = 1 /\ mode = "code" /\ count = 0 /\ out = <<>>
  /\ parsed = [kind |-> "unknown", started |-> FALSE, returning |-> FALSE, isReturning |-> FALSE,
               names |-> <<>>]
  /\ last = "" /\ word = 0 /\ string = FALSE /\ bare = FALSE /\ odd = {}

ScanNext ==
  \/ RewriteLine \/ RewriteBlock \/ RewriteQuoted \/ RewriteCode \/ Rewritten
  \/ ParseStops \/ ParseLiteral \/ ParseSpace \/ ParseBind \/ ParseOther \/ Parsed

---------------------------------------------------------------------------
(* Properties.                                                             *)

Positional(p) == SelectSeq(p.names, LAMBDA n : Len(n) = 1 /\ IsDigits(n[1]))

\* driver.go, rewriteQmark: the two scanners agree on what is code.  Every "?"
\* that parseSQL takes for code has become a bind, none inside a literal or a
\* comment has, and the binds come out numbered as the values are bound; a q
\* literal, the comment "/*/" and a bind right behind a literal excepted.
QmarksAreBinds ==
  phase = "done" /\ parsed.kind # "ddl" /\ odd = {}
    => ~bare /\ Positional(parsed) = [i \in 1 .. count |-> <<ToString(i)>>]

=============================================================================
