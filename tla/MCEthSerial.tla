------------------------------ MODULE MCEthSerial ------------------------------
(* A small instance of EthSerial: two blocks, a fifo that two short frames    *)
(* fill, a packet as long as the output buffer and one that is longer.        *)
EXTENDS EthSerial

MCPackets == { <<"ESC">>, <<"DATA", "END">>, <<"DATA", "DATA", "DATA">>,
               <<"DATA", "ESC_END", "ESC", "DATA">> }
=============================================================================
