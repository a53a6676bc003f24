------------------------------ MODULE MCCodecs ------------------------------
(* The instance of Codecs: the masks, and of what the texts are made.       *)
EXTENDS Codecs

TwoMasks == {<<0, 0, 0, 0>>, <<1, 2, 128, 255>>}

(* a & = % 4 +;  a & = % + blank ; " and a byte above 127;                  *)
(* a 8 0 / ? : and [::a]                                                    *)
PiecesOf ==
    "query" :> {<<97>>, <<38>>, <<61>>, <<37>>, <<52>>, <<43>>}
    @@ "value" :> {<<97>>, <<38>>, <<61>>, <<37>>, <<43>>, <<32>>, <<59>>,
                   <<34>>, <<200>>}
    @@ "address" :> {<<97>>, <<56, 48>>, <<56>>, <<47>>, <<63>>, <<58>>,
                     <<91, 58, 58, 97, 93>>}
SomePieces == "query" :> 6 @@ "value" :> 4 @@ "address" :> 5
=============================================================================
