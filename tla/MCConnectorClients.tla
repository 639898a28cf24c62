------------------------ MODULE MCConnectorClients ------------------------
(* Instances of ConnectorClients for TLC.                                    *)
EXTENDS ConnectorClients

CONSTANTS c1, c2   \* model values
=============================================================================
