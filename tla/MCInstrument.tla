---------------------------- MODULE MCInstrument -----------------------------
(* Instances of Instrument for TLC. One expansion on the card, so that the  *)
(* SR list has it and the RD-500 entry.                                     *)
EXTENDS Instrument, MCCpu, TLC

Using(devices, files, n) ==
  [inputs |-> devices, have |-> files, sr |-> n]

\* The keys with everything on the card and the list left at RD-500; the
\* pages and the serial MIDI each on their own and with the list left at
\* either entry; MIDI with the dial's interrupt; a card without the files.
Sessions ==
  {Using({"buttons"}, {"sr", "rd500"}, 1)}
    \cup {Using({"pages"}, {"rd500"}, entry) : entry \in 0..1}
    \cup {Using({"midi", "dial"}, {"sr", "rd500"}, 0),
          Using({"midi", "dial"}, {}, 1)}

\* The lines of the dial and of the tone generator.
Irq0Line == "dial" :> 3 @@ "tone" :> 5

\* Nothing but the keys of the instrument.
KeysOnly == {Using({"buttons"}, {"sr", "rd500"}, 1)}
=============================================================================
