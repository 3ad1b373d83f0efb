------------------------------- MODULE MCWeb -------------------------------
EXTENDS Web

LOCAL Out(n)       == [kind |-> "output", n |-> n]
LOCAL Greeting(v)  == [kind |-> "hello", version |-> v]
LOCAL Size         == [kind |-> "size"]
LOCAL Key(n)       == [kind |-> "keys", n |-> n]
LOCAL Resize(c, r) == [kind |-> "resize", cols |-> c, rows |-> r]
LOCAL Malformed    == [kind |-> "text"]

\* Much from the room and little from the browser, and the other way round.
LOCAL Conversations ==
  { <<h, b>> : h \in { <<Size, Greeting(1), Out(1), Size, Out(2)>>,
                      <<Out(1), Greeting(1), Out(2), Greeting(1)>>,
                      <<Size, Greeting(2)>>, <<Out(1)>> },
               b \in { <<>>, <<Key(1)>> } }
  \cup
  { <<h, b>> : h \in { <<Greeting(1), Out(1)>> },
               b \in { <<Key(1), Resize(2, 1), Key(2), Malformed, Resize(1, 2)>>,
                      <<Resize(0, 1), Resize(1, 3), Key(1), Closing>> } }

LOCAL Scenario(h, b, ro, hc, bl, secret, header, loopback) ==
  [host |-> h, browser |-> b, readOnly |-> ro, hostCloses |-> hc, browserLeaves |-> bl,
   secret |-> secret, header |-> header, loopback |-> loopback]

AnyScenario ==
  { Scenario(c[1], c[2], FALSE, hc, bl, "none", "none", TRUE) :
      c \in Conversations, hc \in BOOLEAN, bl \in BOOLEAN }
  \cup
  { Scenario(<<Greeting(1)>>, <<Key(1), Resize(1, 1)>>, TRUE, FALSE, TRUE, "none", "none", TRUE) }
  \cup
  { Scenario(<<Greeting(1), Out(1)>>, <<Key(1)>>, FALSE, FALSE, TRUE, secret, header, loopback) :
      secret \in {"none", "s"}, header \in {"none", "s", "t"}, loopback \in BOOLEAN }
=============================================================================
