---------------------------- MODULE DeliveryMC ------------------------------
EXTENDS Delivery

TextAndPhoto == <<0, 2>>
Photo == <<2>>

\* For RetractionFinal.
TwoTexts == <<0, 0>>
=============================================================================
