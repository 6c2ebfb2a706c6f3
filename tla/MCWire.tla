------------------------------- MODULE MCWire -------------------------------
(* A small instance of Wire: the messages.                                  *)
EXTENDS Wire

Frame(v) == [i \in 1..Samples |-> v]
Ramp == [i \in 1..Samples |-> i - 3]
Low == -(Base^2 \div 2)

MCRequests == {CmSubscribe(5), CmSubscribe(Base + 1), CmSetPtt(2), CmSetPtt(0),
               CmSetGpio(Base - 1, 1), Msg(3, <<>>), Msg(4, <<>>),
               WriteAudio(<<Ramp>>), WriteAudio(<<Frame(Low), Frame(-1)>>),
               WriteAudio(<<Ramp, Ramp, Ramp>>)}
MCNotices == {Msg(0, <<Base^7 + 3>>), Msg(1, <<1>>), Msg(1, <<4, Base - 1>>),
              Msg(4, <<1, 3>>)}
MCCounters == {Base^3}
==============================================================================
