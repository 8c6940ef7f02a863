---------------------------- MODULE MCEsp32Usart ----------------------------
(***************************************************************************)
(* Esp32Usart for TLC.                                                     *)
(***************************************************************************)
EXTENDS Esp32Usart

\* The crowded ring is for the driver.
MCSessions == {<<"any", FALSE>>, <<"driver", FALSE>>, <<"driver", TRUE>>}

=============================================================================
