---------------------------- MODULE MCTimElement ----------------------------
(* A one byte SSID, one rate, channel 6, and a vendor element that itself  *)
(* holds a byte with the value of the TIM element's id.                    *)
EXTENDS TimElement

MCSsid == <<97>>
MCRates == <<130>>
MCDs == <<3, 1, 6>>
MCRest == <<221, 2, 5, 4>>
=============================================================================
