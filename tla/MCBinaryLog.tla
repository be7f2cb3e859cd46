---------------------------- MODULE MCBinaryLog ----------------------------
(* A log for TLC: an event callsite with all of the optional metadata, a   *)
(* span callsite with none; an event outside of all spans, one in two, and *)
(* one with more fields than can be counted.  Of the 16 bytes 0 and 1 are  *)
(* controls, 2 a quote and 3 a backslash.                                  *)
EXTENDS BinaryLog

EventSite ==
  [kind |-> "event", level |-> 3, file |-> {<<6>>}, line |-> {7}, module_path |-> {<<5>>},
   name |-> <<4>>, target |-> <<3>>, fields |-> <<<<1>>, <<2>>>>]

SpanSite ==
  [kind |-> "span", level |-> 5, file |-> {}, line |-> {}, module_path |-> {},
   name |-> <<2>>, target |-> <<>>, fields |-> <<>>]

AField(name, kind, bytes) == [name |-> name, value |-> [kind |-> kind, bytes |-> bytes]]

Outer == [callsite |-> SpanSite, id |-> 1, fields |-> <<AField(<<7>>, "true", <<>>)>>]
Inner == [callsite |-> SpanSite, id |-> 2, fields |-> <<>>]

MCCallsites == {EventSite, SpanSite}

MCEvents ==
  {[callsite |-> EventSite, seconds |-> 1, nanos |-> 5, chain |-> <<>>,
    fields |-> <<AField(<<1>>, "str", <<5, 2, 6, 0>>), AField(<<2>>, "u64", <<2, 0>>)>>],
   [callsite |-> EventSite, seconds |-> 130, nanos |-> 40, chain |-> <<Outer, Inner>>,
    fields |-> <<AField(<<1>>, "bytes", <<15>>), AField(<<2>>, "i128", <<1, 2, 15>>)>>],
   [callsite |-> EventSite, seconds |-> 2, nanos |-> 0, chain |-> <<>>,
    fields |-> [i \in 1..(Power(ByteBase, U16)) |-> AField(<<>>, "true", <<>>)]]}

=============================================================================
