---------------------------- MODULE MCProxyClients ----------------------------
EXTENDS ProxyClients

CONSTANTS consumer, producer

\* One message a client can read, and one it cannot.
MCBody == [m \in {"m1", "m2"} |-> IF m = "m1" THEN "text" ELSE "bytes"]

\* A field 7, and a varint with the number of a string.
MCNewer == {<<[num |-> 7, wire |-> Bytes, val |-> "new"], [num |-> 2, wire |-> Varint, val |-> 3]>>}

\* A Produce object for each of two tries, one that waits after them.
MCCopies == [type \in RequestType |-> IF type = "REQUEST_PRODUCE" THEN 3 ELSE 2]

\* A ConsumeClient, which goes on for ever, alone; a consumer that ends with a producer
\* of each language.
MCPrograms ==
  {[c \in Client |-> IF c = consumer THEN "ConsumeClient" ELSE "none"],
   [c \in Client |-> IF c = consumer THEN "Consumer.php" ELSE "ProduceClient"],
   [c \in Client |-> IF c = consumer THEN "Consumer.php" ELSE "Producer.php"]}
===============================================================================
