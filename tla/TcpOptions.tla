----------------------------- MODULE TcpOptions -----------------------------
(***************************************************************************)
(* The loop of TcpHdr::parse over a header's options (src/proto.rs), one   *)
(* step per option, on any list of options and on every prefix of its      *)
(* encoding: a header may end in the middle of an option.                  *)
(***************************************************************************)
EXTENDS Naturals, Sequences, SequencesExt

CONSTANT OptionLists    \* sequences of options

\* An option's length byte counts kind and length; one below 2 is what a
\* broken sender writes.
Options == [kind : Nat, len : Nat, data : Seq(Nat)]

ASSUME OptionsAssumption ==
    \A list \in OptionLists :
        /\ list \in Seq(Options)
        /\ \A i \in 1..Len(list) :
             list[i].kind \notin {0, 1} =>
               \/ list[i].len = Len(list[i].data) + 2
               \/ list[i].len < 2 /\ list[i].data = <<>>

\* Rust's None; a decoded value is the sequence of its bytes.
None == <<>>

\* An option's bytes.
Bytes(o) ==
    CASE o.kind = 0 -> <<0>>
      [] o.kind = 1 -> <<1>>
      [] OTHER -> <<o.kind, o.len>> \o o.data

VARIABLES
    given,      \* the options and where their encoding is cut off
    opts,       \* the bytes not parsed yet
    mss, wscale,
    parsed      \* "loop", "Some" or "None"

optionVars == <<given, opts, mss, wscale, parsed>>

Encoding(list) == FlattenSeq([i \in DOMAIN list |-> Bytes(list[i])])

OptionsInit ==
    /\ \E list \in OptionLists : \E cut \in 0..Len(Encoding(list)) :
          /\ given = [list |-> list, cut |-> cut]
          /\ opts = SubSeq(Encoding(list), 1, cut)
    /\ mss = None /\ wscale = None /\ parsed = "loop"

-----------------------------------------------------------------------------
Return(result) == parsed' = result /\ UNCHANGED <<given, opts, mss, wscale>>

\* No bytes left, or the end-of-options kind.
OptionsEnd ==
    /\ parsed = "loop"
    /\ opts # <<>> => opts[1] = 0
    /\ Return("Some")

SkipNop ==
    /\ parsed = "loop"
    /\ opts # <<>> /\ opts[1] = 1
    /\ opts' = Tail(opts)
    /\ UNCHANGED <<given, mss, wscale, parsed>>

HasOption == parsed = "loop" /\ opts # <<>> /\ opts[1] \notin {0, 1}

\* Faulty: the length byte is taken as it is.
StepRaw == opts[2]

\* At least kind and length, whatever the length byte says.
Step == IF opts[2] < 2 THEN 2 ELSE opts[2]

\* The length byte, or bytes it promises, are missing.
OptionCut ==
    /\ HasOption
    /\ Len(opts) >= 2 => Len(opts) < Step
    /\ Return("None")

TakeOption ==
    /\ HasOption
    /\ Len(opts) >= 2 /\ Len(opts) >= Step
    /\ mss' = IF opts[1] = 2 /\ Step = 4 THEN <<opts[3], opts[4]>> ELSE mss
    /\ wscale' = IF opts[1] = 3 /\ Step = 3 THEN <<opts[3]>> ELSE wscale
    /\ opts' = SubSeq(opts, Step + 1, Len(opts))
    /\ UNCHANGED <<given, parsed>>

OptionsNext ==
    \/ OptionsEnd
    \/ SkipNop
    \/ OptionCut
    \/ TakeOption

OptionsSpec == OptionsInit /\ [][OptionsNext]_optionVars

-----------------------------------------------------------------------------
\* The options of the list in front of the end-of-options kind, and of those
\* the ones that are whole within the cut.
Before(list, i) == Len(Encoding(SubSeq(list, 1, i)))
Reached(i) == \A j \in 1..(i - 1) : given.list[j].kind # 0
Whole(i) == Reached(i) /\ Before(given.list, i) <= given.cut

LastOf(kind, size) ==
    LET is == {i \in DOMAIN given.list :
                 /\ Whole(i)
                 /\ given.list[i].kind = kind /\ Len(Bytes(given.list[i])) = size}
    IN  IF is = {} THEN None
        ELSE given.list[CHOOSE i \in is : \A j \in is : j <= i].data

\* MSS and window scale are those of the last such option the header holds
\* in full, wherever NOPs, unknown options and broken length bytes are, and
\* a header that ends inside an option is refused.  The loop is always at
\* the start of an option, so what it reads as a kind is one.
OptionsRead ==
    /\ parsed = "loop" =>
          \E i \in 0..Len(given.list) :
              opts = SubSeq(Encoding(given.list), Before(given.list, i) + 1, given.cut)
    /\ parsed = "Some" =>
          /\ mss = LastOf(2, 4)
          /\ wscale = LastOf(3, 3)
    /\ parsed # "loop" =>
          (parsed = "None" <=>
             \E i \in DOMAIN given.list :
                /\ Reached(i) /\ given.list[i].kind # 0
                /\ Before(given.list, i - 1) < given.cut
                /\ given.cut < Before(given.list, i))
=============================================================================
