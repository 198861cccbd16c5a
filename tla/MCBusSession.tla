---------------------------- MODULE MCBusSession ----------------------------
(* A small instance of BusSession: long frames fit an I2C board only; both *)
(* of two SPI boards can have more to send than the way holds.             *)
EXTENDS BusSession

MCSetups == {[client |-> c, server |-> "spi"] : c \in Buses} \cup {[client |-> "i2c", server |-> "i2c"]}
MCLargest == [i2c |-> 2, spi |-> 1]
MCMaxRequests == [s \in MCSetups |-> [b \in Boards |-> IF s.client = "i2c" THEN 1 ELSE 2]]
=============================================================================
