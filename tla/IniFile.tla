------------------------------ MODULE IniFile ------------------------------
(***************************************************************************)
(* src/src/Get_Inifiles.cpp: how a configuration file is read and what is  *)
(* read out of it.  A file is the sequence of its lines, a line a sequence *)
(* of tokens: the characters that mean something, " " for blanks, and      *)
(* words.  Names, keys and values are sequences of tokens, too.            *)
(*                                                                         *)
(* The operations that change or save a document are left out: the program *)
(* only reads.  So are the comments, which only they use.                  *)
(***************************************************************************)
EXTENDS Naturals, SequencesExt

NoFile == <<<<"none">>>>       \* there is no file to open

(* Op(v, x), with v evaluated once, for folds. *)
Once(Op(_, _), v, x) == CHOOSE r \in {Op(w, x) : w \in {v}} : TRUE

(***************************************************************************)
(* Lines.                                                                  *)
(***************************************************************************)
Find(s, token) == SelectInSeq(s, LAMBDA x : x = token)

Trim(s) ==
    LET solid == {i \in DOMAIN s : s[i] # " "}
    IN  IF solid = {} THEN <<>> ELSE SubSeq(s, Min(solid), Max(solid))

(* StartWith the delimiter of comments. *)
IsCommentLine(s) == IsPrefix(<<"#">>, s)

(* At the first separator; without one everything is on the left. *)
Split(s, sep) ==
    LET at == Find(s, sep)
    IN  IF at = 0 THEN [found |-> FALSE, left |-> Trim(s), right |-> <<>>]
        ELSE [found |-> TRUE, left |-> Trim(SubSeq(s, 1, at - 1)),
              right |-> Trim(SubSeq(s, at + 1, Len(s)))]

(***************************************************************************)
(* Load.  A document is sections_vt: sections with their items, in order.  *)
(***************************************************************************)
NewSection(s) == [name |-> s, items |-> <<>>]

HasSection(doc, s) == \E i \in DOMAIN doc : doc[i].name = s

(* What Load has of a file so far, and whether it goes on reading.         *)
Loaded(doc, ok) == [doc |-> doc, ok |-> ok]

(* Mutant: a section may come twice. *)
UpdateAlways(got, line) ==
    LET close == Find(line, "]")
    IN  IF close <= 2 THEN Loaded(got.doc, FALSE)
        ELSE Loaded(Append(got.doc, NewSection(Trim(SubSeq(line, 2, close - 1)))), TRUE)

(* A section that is not closed, has no name or exists already is an error. *)
UpdateSection(got, line) ==
    LET close == Find(line, "]")
        name  == Trim(SubSeq(line, 2, close - 1))
    IN  IF close <= 2 \/ HasSection(got.doc, name) THEN Loaded(got.doc, FALSE)
        ELSE Loaded(Append(got.doc, NewSection(name)), TRUE)

(* currSection is the last of sections_vt. *)
AddKeyValuePair(got, line) ==
    LET item == Split(line, "=")
    IN  IF ~ item.found THEN Loaded(got.doc, FALSE)
        ELSE Loaded([got.doc EXCEPT ![Len(got.doc)].items =
                       Append(@, <<item.left, item.right>>)], TRUE)

(* Mutant: a line that cannot be read is passed over. *)
SkipLine(got, raw) ==
    LET line  == Trim(raw)
        clean == Split(line, "#").left
    IN  CASE line = <<>> \/ IsCommentLine(line) -> got
          [] line # <<>> /\ line[1] = "["       -> Loaded(UpdateSection(got, clean).doc, TRUE)
          [] OTHER                              -> Loaded(AddKeyValuePair(got, clean).doc, TRUE)

ReadLine(got, raw) ==
    LET line  == Trim(raw)
        clean == Split(line, "#").left
    IN  CASE ~ got.ok \/ line = <<>> \/ IsCommentLine(line) -> got
          [] OTHER -> IF clean[1] = "[" THEN UpdateSection(got, clean)
                                        ELSE AddKeyValuePair(got, clean)

(* What was read before an error is kept. *)
Load(file) ==
    IF file = NoFile THEN Loaded(<<>>, FALSE)
    ELSE LET got[n \in 0..Len(file)] ==
               IF n = 0 THEN Loaded(<<NewSection(<<>>)>>, TRUE)
                        ELSE Once(ReadLine, got[n - 1], file[n])
         IN  got[Len(file)]

(***************************************************************************)
(* What is read out of it: the first section of that name, the first item  *)
(* with that key.                                                          *)
(***************************************************************************)
GetSection(doc, s) == SelectInSeq(doc, LAMBDA x : x.name = s)

GetItem(doc, s, k) ==
    IF GetSection(doc, s) = 0 THEN 0
    ELSE SelectInSeq(doc[GetSection(doc, s)].items, LAMBDA x : x[1] = k)

GetStringValue(doc, s, k, default) ==
    IF GetItem(doc, s, k) = 0 THEN default
    ELSE doc[GetSection(doc, s)].items[GetItem(doc, s, k)][2]

(* atoi: the number that the text starts with, or 0. *)
Atoi(v, numbers) == IF v # <<>> /\ v[1] \in numbers THEN v[1] ELSE "0"

GetIntValue(doc, s, k, default, numbers) ==
    IF GetItem(doc, s, k) = 0 THEN default
    ELSE Atoi(GetStringValue(doc, s, k, <<>>), numbers)
=============================================================================
