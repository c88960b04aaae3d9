------------------------- MODULE MCHtmlContentParser -------------------------
(* A small instance of HtmlContentParser for model checking with TLC.      *)
EXTENDS HtmlContentParser

=============================================================================
