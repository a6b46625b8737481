------------------------------- MODULE Paths -------------------------------
(***************************************************************************)
(* GtuPath: the parser, the operations on a path and the string it caches,  *)
(* and the test whether a path is left out by the -s arguments.             *)
(*                                                                          *)
(* A path object is a sequence of elements and an element a sequence of     *)
(* characters, of which only '/', white space and the rest are told apart.  *)
(* The program calls the operations in any order, with live paths and with  *)
(* elements that may be invalid.                                            *)
(*                                                                          *)
(* Sources: src/path.c, src/init.c (-p and -s).                             *)
(***************************************************************************)
EXTENDS Naturals, Sequences, SequencesExt

CONSTANTS Slots,       \* the GtuPath pointers of the program
          Null,        \* NULL
          Letters,     \* the characters that are neither '/' nor white space
          Arguments,   \* the texts -s may be given
          Given,       \* the elements the program adds to paths
          MaxText,     \* bound: characters of a parsed text
          MaxElements  \* bound: elements of a path

Chars == Letters \cup {"/", " "}
Texts == SeqOf(Chars, MaxText)

ASSUME PathAssumption ==
  /\ Letters # {} /\ "/" \notin Letters /\ " " \notin Letters
  /\ Arguments \subseteq Seq(Chars)
  /\ Given \subseteq Seq(Chars)
  /\ Null \notin Seq(Chars) \cup Seq(Seq(Chars))
  /\ MaxText \in Nat /\ MaxElements \in Nat

VARIABLES
  live,      \* the slots that hold a path
  elements,  \* elements of each path
  cached,    \* cached_string of each path
  skippers,  \* the paths in _test_mode.path_skippers
  ready,     \* _has_initialized
  proc,      \* how the process stands
  asked,     \* history: the paths gtu_path_to_string() was called on ...
  stale,     \* history: ... and those that were modified since
  parsed     \* history: the call of gtu_path_new_parse() just made, if any

paths   == <<live, elements, cached>>
history == <<asked, stale, parsed>>
vars == <<paths, skippers, ready, proc, history>>

NoParse == [text |-> Null, path |-> Null, end |-> 0]

Init ==
  /\ live = {}
  /\ elements = [p \in Slots |-> <<>>]
  /\ cached = [p \in Slots |-> Null]
  /\ skippers = {}
  /\ ready = FALSE
  /\ proc = "running"
  /\ asked = {} /\ stale = {}
  /\ parsed = NoParse

EndProcess(how) ==
  /\ proc' = how
  /\ UNCHANGED <<paths, skippers, ready, asked, stale>>
  /\ parsed' = NoParse

(* g_return_if_fail(): a critical of libgtu's own domain, fatal once the    *)
(* library has been initialised.  Before that the call does nothing.        *)
Refuse ==
  /\ ready
  /\ EndProcess("trapped")

-----------------------------------------------------------------------------
(* Pure parts.                                                              *)

(* _gtu_path_element_is_valid() *)
ElementIsValid(e) == e # <<>> /\ \A i \in DOMAIN e : e[i] \in Letters

(* mutant: the buffer is kept when its element is added *)
EndElementKeeping(s) == [s EXCEPT !.path = Append(@, s.buffer)]

(* A stroke after an element. *)
EndElement(s) == [s EXCEPT !.path = Append(@, s.buffer), !.buffer = <<>>]

(* mutant: white space is taken for a letter *)
UnacceptedStroke(s, ch) == ch = "/" /\ s.buffer = <<>>

(* The characters the parser stops at: the end of an empty element, space.  *)
Unaccepted(s, ch) == (ch = "/" /\ s.buffer = <<>>) \/ ch = " "

(* mutant: the index runs on over the character that is wrong *)
ScanRunsOn(s, ch) ==
  IF s.bad THEN s
  ELSE IF Unaccepted(s, ch) THEN [s EXCEPT !.bad = TRUE, !.index = @ + 1]
  ELSE LET next == IF ch = "/" THEN EndElement(s)
                   ELSE [s EXCEPT !.buffer = Append(@, ch)]
       IN  [next EXCEPT !.index = @ + 1]

(* One character of the loop of gtu_path_new_parse(): index is where it is, *)
(* counted from zero, and stays at the first character it does not accept.  *)
Scan(s, ch) ==
  IF s.bad THEN s
  ELSE IF Unaccepted(s, ch) THEN [s EXCEPT !.bad = TRUE]
  ELSE LET next == IF ch = "/" THEN EndElement(s)
                   ELSE [s EXCEPT !.buffer = Append(@, ch)]
       IN  [next EXCEPT !.index = @ + 1]

(* The loop, behind a stroke. *)
Scanned(text) ==
  LET last == Len(text) - 1
      scan[n \in 0..last] ==
        IF n = 0 THEN [path |-> <<>>, buffer |-> <<>>, index |-> 1, bad |-> FALSE]
        ELSE Scan(scan[n-1], text[n+1])
  IN  scan[last]

(* gtu_path_new_parse(): the path or NULL, and the offset of *endptr.       *)
Parse(text) ==
  IF text = <<>> \/ text[1] # "/" THEN [path |-> Null, end |-> 1]
  ELSE LET s == Scanned(text)
       IN  [path |-> IF s.bad \/ s.buffer = <<>> THEN Null
                     ELSE Append(s.path, s.buffer),
            end |-> s.index]

(* The string gtu_path_to_string() puts together. *)
Text(path) ==
  LET text[n \in 0..Len(path)] == IF n = 0 THEN <<>> ELSE text[n-1] \o <<"/">> \o path[n]
  IN  text[Len(path)]

(* mutant: only the last element of the prefix is compared *)
HasPrefixLast(path, prefix) ==
  /\ Len(path) >= Len(prefix)
  /\ prefix # <<>> => path[Len(prefix)] = prefix[Len(prefix)]

(* gtu_path_has_prefix() *)
HasPrefix(path, prefix) ==
  /\ Len(path) >= Len(prefix)
  /\ \A i \in 1..Len(prefix) : path[i] = prefix[i]

(* _gtu_path_should_run().  There are no selectors: see Select.             *)
ShouldRun(path) == \A skipper \in skippers : ~HasPrefix(path, skipper)

-----------------------------------------------------------------------------
(* The operations.                                                          *)

Running == proc = "running"

Create(p, path) ==
  /\ p \notin live
  /\ live' = live \cup {p}
  /\ elements' = [elements EXCEPT ![p] = path]
  /\ UNCHANGED <<cached, skippers, ready, proc, asked, stale>>

New(p) ==
  /\ Running
  /\ Create(p, <<>>)
  /\ parsed' = NoParse

NewParse(p, text) ==
  /\ Running
  /\ p \notin live
  /\ LET result == Parse(text) IN
     /\ parsed' = [text |-> text, path |-> result.path, end |-> result.end]
     /\ IF result.path = Null
        THEN UNCHANGED <<paths, skippers, ready, proc, asked, stale>>
        ELSE Len(result.path) <= MaxElements /\ Create(p, result.path)

(* mutant: the string is copied with the elements *)
CopyCached(p, q) ==
  /\ Running
  /\ p \notin live /\ q \in live
  /\ live' = live \cup {p}
  /\ elements' = [elements EXCEPT ![p] = elements[q]]
  /\ cached' = [cached EXCEPT ![p] = cached[q]]
  /\ parsed' = NoParse
  /\ UNCHANGED <<skippers, ready, proc, asked, stale>>

(* gtu_path_copy(): the elements, not the string. *)
Copy(p, q) ==
  /\ Running
  /\ q \in live
  /\ Create(p, elements[q])
  /\ parsed' = NoParse

Free(p) ==
  /\ Running
  /\ p \in live
  /\ live' = live \ {p}
  /\ elements' = [elements EXCEPT ![p] = <<>>]
  /\ cached' = [cached EXCEPT ![p] = Null]
  /\ asked' = asked \ {p}
  /\ stale' = stale \ {p}
  /\ parsed' = NoParse
  /\ UNCHANGED <<skippers, ready, proc>>

(* gtu_path_to_string(): made once, whatever happens to the path later.     *)
PathToString(p) ==
  /\ Running
  /\ p \in live
  /\ IF elements[p] = <<>>
     THEN Refuse
     ELSE /\ cached' = [cached EXCEPT ![p] =
                          IF @ = Null THEN Text(elements[p]) ELSE @]
          /\ asked' = asked \cup {p}
          /\ parsed' = NoParse
          /\ UNCHANGED <<live, elements, skippers, ready, proc, stale>>

(* The four operations that add to a path leave cached_string alone.        *)
Become(p, path) ==
  /\ Len(path) <= MaxElements
  /\ elements' = [elements EXCEPT ![p] = path]
  /\ stale' = IF p \in asked THEN stale \cup {p} ELSE stale
  /\ parsed' = NoParse
  /\ UNCHANGED <<live, cached, skippers, ready, proc, asked>>

PrependElement(p, e) ==
  /\ Running
  /\ p \in live
  /\ IF ElementIsValid(e) THEN Become(p, <<e>> \o elements[p]) ELSE Refuse

AppendElement(p, e) ==
  /\ Running
  /\ p \in live
  /\ IF ElementIsValid(e) THEN Become(p, Append(elements[p], e)) ELSE Refuse

(* A path that is added to itself grows as fast as the loop advances.       *)
NeverEnds(p, q) == p = q /\ elements[q] # <<>>

PrependPath(p, q) ==
  /\ Running
  /\ p \in live /\ q \in live
  /\ IF NeverEnds(p, q) THEN EndProcess("hung")
     ELSE Become(p, elements[q] \o elements[p])

AppendPath(p, q) ==
  /\ Running
  /\ p \in live /\ q \in live
  /\ IF NeverEnds(p, q) THEN EndProcess("hung")
     ELSE Become(p, elements[p] \o elements[q])

-----------------------------------------------------------------------------
(* The arguments.                                                           *)

(* gtu_init() with "-s": a text that is no path ends the program.           *)
Skip(texts) ==
  /\ Running /\ ~ready
  /\ IF \E t \in texts : Parse(t).path = Null
     THEN EndProcess("exit 1")
     ELSE /\ skippers' = {Parse(t).path : t \in texts}
          /\ ready' = TRUE
          /\ parsed' = NoParse
          /\ UNCHANGED <<paths, proc, asked, stale>>

(* gtu_init() with "-p": the text that is parsed is that of "-s", which an  *)
(* argument that is a "-p" does not have, so NULL is read.                  *)
Select ==
  /\ Running /\ ~ready
  /\ EndProcess("undefined")

-----------------------------------------------------------------------------
Next ==
  \/ \E p \in Slots :
       \/ New(p) \/ Free(p) \/ PathToString(p)
       \/ \E t \in Texts : NewParse(p, t)
       \/ \E e \in Given : PrependElement(p, e) \/ AppendElement(p, e)
       \/ \E q \in Slots : Copy(p, q) \/ PrependPath(p, q) \/ AppendPath(p, q)
  \/ \E texts \in SUBSET Arguments : Skip(texts)
  \/ Select
  \/ ~Running /\ UNCHANGED vars

Spec == Init /\ [][Next]_vars

-----------------------------------------------------------------------------


(* Variables have values of their kinds; in particular every path, however  *)
(* it came about, is made of valid elements.                                *)
TypeOK ==
  /\ live \subseteq Slots
  /\ \A p \in Slots : elements[p] \in Seq(Seq(Chars))
                      /\ \A i \in DOMAIN elements[p] : ElementIsValid(elements[p][i])
  /\ \A p \in Slots : cached[p] = Null \/ cached[p] \in Seq(Chars)
  /\ ready \in BOOLEAN
  /\ proc \in {"running", "trapped", "hung", "exit 1", "undefined"}
  /\ stale \subseteq asked /\ asked \subseteq live

(* What gtu-path.h says of a valid path: it starts with a stroke, does not  *)
(* end with one, has no two in a row and no white space.                    *)
IsPath(text) ==
  /\ text # <<>> /\ text[1] = "/" /\ text[Len(text)] # "/"
  /\ \A i \in DOMAIN text : text[i] # " "
  /\ \A i \in 1..(Len(text) - 1) : text[i] = "/" => text[i+1] # "/"

(* The parser accepts the texts that are paths and no others, and what it   *)
(* makes of one gives the same text back (path.c:16-66 against 110-131).    *)
ParseRight ==
  parsed.text # Null =>
    /\ parsed.path # Null <=> IsPath(parsed.text)
    /\ parsed.path # Null => Text(parsed.path) = parsed.text

(* A text no longer one can be completed to a path. *)
Viable(text) == \E ch \in Letters : IsPath(Append(text, ch))

(* *endptr points to the first character the text goes wrong at, or to its  *)
(* end, so long as it begins with a stroke (gtu-path.h, gtu_path_new_parse).*)
EndRight ==
  parsed.text # Null /\ parsed.text # <<>> /\ parsed.text[1] = "/" =>
    /\ Viable(SubSeq(parsed.text, 1, parsed.end))
    /\ parsed.end < Len(parsed.text)
         => ~Viable(SubSeq(parsed.text, 1, parsed.end + 1))

(* The string of a path tells its elements, through copies and additions of *)
(* any kind, unless the path was modified after it had been asked for: the  *)
(* lines of a complex case name its subunits because the copy it appends to *)
(* has not inherited the string (path.c:72-85, complex.c:117-118).          *)
StringCurrent ==
  \A p \in live \ stale : cached[p] # Null => cached[p] = Text(elements[p])

StartsWith(text, start) ==
  Len(start) <= Len(text) /\ SubSeq(text, 1, Len(start)) = start

(* args.xml: -s leaves out the test of that path and those beneath it, not  *)
(* one whose name merely begins alike (path.c:180-216).                     *)
SkipsStems ==
  \A p \in live :
    elements[p] # <<>> =>
      (ShouldRun(elements[p]) <=>
        \A k \in skippers : /\ Text(elements[p]) # Text(k)
                            /\ ~StartsWith(Text(elements[p]), Append(Text(k), "/")))
=============================================================================
