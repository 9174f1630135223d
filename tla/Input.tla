-------------------------------- MODULE Input -------------------------------
(***************************************************************************)
(* cc::input: the list of URLs, from the arguments or from stdin.  What    *)
(* they name is a URL to be retrieved, or a file that holds a list of such *)
(* items, which may name files again; the calls of determine_input nest as *)
(* deep as the lists do.  The first item that cannot be used ends          *)
(* everything with an exception.  Duplicates are then removed in place.    *)
(*                                                                         *)
(* An item is the pair of its scheme and what the rest names.  The library *)
(* splits a list into items (g_uri_list_extract_uris) and turns the URI of *)
(* a local file into its name (filename_from_uri), or fails.               *)
(***************************************************************************)
EXTENDS Integers, Sequences

CONSTANTS
  Items,       \* the items under study: <<scheme, name>>
  Inputs,      \* where they may be: records [args, stdin, files]
  StackLimit   \* bound on the nesting of the calls (the process's stack)

\* "" is no scheme; "other" is any scheme that is none of the rest.
Schemes == {"", "http", "https", "file", "other"}

\* The exceptions: cc::error::tuple, cc::error::fstream, cc::error::no_input.
InputErrors == {"tuple", "fstream", "no_input"}

ASSUME InputAssumption ==
  /\ \A s \in Items : s[1] \in Schemes
  /\ \A in \in Inputs :
       /\ in.args \in Seq(Items) /\ in.stdin \in Seq(Items)
       /\ \A f \in DOMAIN in.files :
            /\ in.files[f].kind \in {"list", "directory", "unreadable"}
            /\ in.files[f].items \in Seq(Items)
  /\ StackLimit \in Nat \ {0}

VARIABLES
  input,  \* the environment: arguments, stdin, files; never changes
  where,  \* reading, duplicates, done, failed (an exception), crashed
  error,  \* the exception, none so far
  stack,  \* the lists being read, the innermost one last
  urls,   \* dst: what has been collected
  found,  \* history: what had been collected when the last list was read
  rm      \* the iterators of duplicates and std::remove: positions in urls

inputvars == <<input, where, error, stack, urls, found, rm>>

\* What try_read_as_file allows is only allowed for arguments.
Frames == [items : Seq(Items), args : BOOLEAN]
Iterators == [first : Nat, last : Nat, next : Nat, dest : Nat]
NoIterators == [first |-> 1, last |-> 1, next |-> 1, dest |-> 1]

InputInit ==
  /\ input \in Inputs
  /\ where = "reading"
  /\ error = "none"
  /\ stack = IF input.args = <<>>
             THEN <<[items |-> input.stdin, args |-> FALSE]>>
             ELSE <<[items |-> input.args, args |-> TRUE]>>
  /\ urls = <<>>
  /\ found = <<>>
  /\ rm = NoIterators

-----------------------------------------------------------------------------
(* Reading the lists.                                                      *)

Top == stack[Len(stack)]
Item == Head(Top.items)
CanRead == where = "reading" /\ stack # <<>> /\ Top.items # <<>>

\* The stack when the item has been dealt with.
Advanced == [stack EXCEPT ![Len(stack)].items = Tail(@)]

IsUrl == Item[1] \in {"http", "https"}

\* The item is read as a list: the name of a local file, if it is an argument,
\* or the URI of one.
NamesList == (Item[1] = "" /\ Top.args) \/ Item[1] = "file"

\* filename_from_uri knows the name.
Converts == Item[1] = "" \/ Item[2] \in DOMAIN input.files

\* What the name stands for.
Kind == IF Item[2] \in DOMAIN input.files THEN input.files[Item[2]].kind
        ELSE "absent"

Fail(e) ==
  /\ where' = "failed"
  /\ error' = e
  /\ UNCHANGED <<input, stack, urls, found, rm>>

TakeUrl ==
  /\ CanRead /\ IsUrl
  /\ urls' = Append(urls, Item)
  /\ stack' = Advanced
  /\ UNCHANGED <<input, where, error, found, rm>>

\* Mutation: what is in the list counts as an argument.
TakeList_AsArguments ==
  /\ CanRead /\ NamesList /\ Kind = "list"
  /\ Len(stack) < StackLimit
  /\ stack' = Append(Advanced, [items |-> input.files[Item[2]].items,
                                args |-> TRUE])
  /\ UNCHANGED <<input, where, error, urls, found, rm>>

\* fstream::read, extract_uris.
TakeList ==
  /\ CanRead /\ NamesList /\ Kind = "list"
  /\ Len(stack) < StackLimit
  /\ stack' = Append(Advanced, [items |-> input.files[Item[2]].items,
                                args |-> FALSE])
  /\ UNCHANGED <<input, where, error, urls, found, rm>>

\* The calls nest too deep.
Overflow ==
  /\ CanRead /\ NamesList /\ Kind = "list"
  /\ Len(stack) >= StackLimit
  /\ where' = "crashed"
  /\ UNCHANGED <<input, error, stack, urls, found, rm>>

NotConverted == CanRead /\ NamesList /\ ~Converts /\ Fail("tuple")

IsDirectory == CanRead /\ NamesList /\ Kind = "directory" /\ Fail("tuple")

Unreadable ==
  /\ CanRead /\ NamesList /\ Converts
  /\ Kind \in {"absent", "unreadable"}
  /\ Fail("fstream")

NoUri == CanRead /\ ~IsUrl /\ ~NamesList /\ Fail("tuple")

\* extract_uris or parse_with_rargs returns.
EndOfList ==
  /\ where = "reading" /\ stack # <<>> /\ Top.items = <<>>
  /\ stack' = SubSeq(stack, 1, Len(stack) - 1)
  /\ UNCHANGED <<input, where, error, urls, found, rm>>

-----------------------------------------------------------------------------
(* remove_duplicates.                                                      *)

RemoveDuplicates ==
  /\ where = "reading" /\ stack = <<>>
  /\ where' = "duplicates"
  /\ found' = urls
  /\ rm' = [first |-> 1, last |-> Len(urls) + 1, next |-> 2, dest |-> 2]
  /\ UNCHANGED <<input, error, stack, urls>>

Removing == where = "duplicates" /\ rm.first # rm.last /\ rm.next < rm.last

\* std::remove passes over an element that equals the first.
PassOver ==
  /\ Removing
  /\ urls[rm.next] = urls[rm.first]
  /\ rm' = [rm EXCEPT !.next = @ + 1]
  /\ UNCHANGED <<input, where, error, stack, urls, found>>

\* Mutation: the element is left where it is.
Keep_InPlace ==
  /\ Removing
  /\ urls[rm.next] # urls[rm.first]
  /\ rm' = [rm EXCEPT !.next = @ + 1, !.dest = @ + 1]
  /\ UNCHANGED <<input, where, error, stack, urls, found>>

\* And moves up any other.
Keep ==
  /\ Removing
  /\ urls[rm.next] # urls[rm.first]
  /\ urls' = [urls EXCEPT ![rm.dest] = urls[rm.next]]
  /\ rm' = [rm EXCEPT !.next = @ + 1, !.dest = @ + 1]
  /\ UNCHANGED <<input, where, error, stack, found>>

\* Mutation: the same element is compared with the rest again.
NextFirst_Again ==
  /\ where = "duplicates" /\ rm.first # rm.last /\ rm.next >= rm.last
  /\ rm' = [first |-> rm.first, last |-> rm.dest,
            next |-> rm.first + 1, dest |-> rm.first + 1]
  /\ UNCHANGED <<input, where, error, stack, urls, found>>

\* duplicates goes on with the next element.
NextFirst ==
  /\ where = "duplicates" /\ rm.first # rm.last /\ rm.next >= rm.last
  /\ rm' = [first |-> rm.first + 1, last |-> rm.dest,
            next |-> rm.first + 2, dest |-> rm.first + 2]
  /\ UNCHANGED <<input, where, error, stack, urls, found>>

\* erase, and the test for an empty list.
Erase ==
  /\ where = "duplicates" /\ rm.first = rm.last
  /\ IF rm.last = 1 THEN where' = "failed" /\ error' = "no_input"
                    ELSE where' = "done" /\ UNCHANGED error
  /\ urls' = SubSeq(urls, 1, rm.last - 1)
  /\ UNCHANGED <<input, stack, found, rm>>

-----------------------------------------------------------------------------
InputNext ==
  \/ TakeUrl \/ TakeList \/ Overflow \/ NotConverted \/ IsDirectory
  \/ Unreadable \/ NoUri \/ EndOfList
  \/ RemoveDuplicates \/ PassOver \/ Keep \/ NextFirst \/ Erase

InputSpec == InputInit /\ [][InputNext]_inputvars

-----------------------------------------------------------------------------
(* Properties.                                                             *)

\* The type invariant.
InputTypeOK ==
  /\ input \in Inputs
  /\ where \in {"reading", "duplicates", "done", "failed", "crashed"}
  /\ error \in InputErrors \cup {"none"}
  /\ stack \in Seq(Frames)
  /\ Len(stack) <= StackLimit
  /\ urls \in Seq(Items)
  /\ found \in Seq(Items)
  /\ rm \in Iterators

Elements(list) == {list[k] : k \in 1 .. Len(list)}

\* No URL is retrieved twice, and none that was named is forgotten: the loops
\* of duplicates and std::remove, which overwrite the list they read, leave
\* one of each.
OneOfEach ==
  where = "done" =>
    /\ \A j, k \in 1 .. Len(urls) : urls[j] = urls[k] => j = k
    /\ Elements(urls) = Elements(found)

\* What a reader of the lists meets: URLs, and last, if there is one, the reason
\* to stop.
Stop(reason) == <<"stop", reason>>
Stops(r) == r # <<>> /\ r[Len(r)][1] = "stop"
Then(r1, r2) == IF Stops(r1) THEN r1 ELSE r1 \o r2

\* An open list, and how many may be open at a time, this one included.
OpenLists == [items : Seq(Items), args : BOOLEAN, depth : 1 .. StackLimit]

\* What its first item names can be read as a list,
NamesOne(l) ==
  LET x == Head(l.items) IN x[1] = "file" \/ (x[1] = "" /\ l.args)

Opens(in, l) ==
  LET x == Head(l.items) IN
    NamesOne(l) /\ x[2] \in DOMAIN in.files /\ in.files[x[2]].kind = "list"
    /\ l.depth > 1

Opened(in, l) ==
  [items |-> in.files[Head(l.items)[2]].items, args |-> FALSE,
   depth |-> l.depth - 1]

\* or why it cannot.
WhyNot(in, l) ==
  LET x == Head(l.items)
      kind == in.files[x[2]].kind
  IN  IF ~NamesOne(l) THEN "tuple"
      ELSE IF x[2] \notin DOMAIN in.files
           THEN IF x[1] = "file" THEN "tuple" ELSE "fstream"
      ELSE IF kind = "directory" THEN "tuple"
      ELSE IF kind = "unreadable" THEN "fstream" ELSE "crash"

\* What is met here, if u says what is met in the lists, and the list without it.
Here(in, u, l) ==
  CASE Head(l.items)[1] \in {"http", "https"} -> <<Head(l.items)>>
    [] Opens(in, l) -> u[Opened(in, l)]
    [] OTHER -> <<Stop(WhyNot(in, l))>>

Remainder(l) == [l EXCEPT !.items = Tail(@)]

\* determine_input and extract_uris as they call each other.
Reading(in) ==
  LET read[l \in OpenLists] ==
        IF l.items = <<>> THEN <<>>
        ELSE Then(Here(in, read, l), read[Remainder(l)])
  IN  read

Reference ==
  Reading(input)[[items |-> IF input.args = <<>> THEN input.stdin
                            ELSE input.args,
                  args |-> input.args # <<>>, depth |-> StackLimit]]

\* The first of each.
FirstOnes(list) ==
  LET upto[n \in 0 .. Len(list)] ==
        IF n = 0 THEN <<>>
        ELSE LET ones == upto[n - 1]
             IN  IF list[n] \in Elements(ones) THEN ones ELSE Append(ones, list[n])
  IN  upto[Len(list)]

\* The URLs to be retrieved are those that the arguments name, directly or
\* through lists, in the order in which a reader of the lists would meet them,
\* the first of each; or the first error such a reader would meet decides.
InputAsRead ==
  LET e == IF Reference = <<>> THEN "no_input" ELSE Reference[Len(Reference)][2] IN
    /\ where = "done" => urls = FirstOnes(Reference)
    /\ where = "failed" => error = e
    /\ where = "crashed" => e = "crash"
=============================================================================
